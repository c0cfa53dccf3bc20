----------------------------- MODULE MCMetrics -----------------------------
(***************************************************************************)
(* Metrics on small instances.                                             *)
(***************************************************************************)
EXTENDS Metrics

SomeLatencies == {-1, 1, 2}
=============================================================================
