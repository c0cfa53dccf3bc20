---------------------------- MODULE MCOrderBook ----------------------------
(***************************************************************************)
(* OrderBook on small instances.                                           *)
(***************************************************************************)
EXTENDS OrderBook, TLC

\* Order ids and accounts are only compared for equality.
Symmetry == Permutations(OrderIds) \cup Permutations(AccountIds)
=============================================================================
