------------------------------ MODULE MCEngine ------------------------------
(***************************************************************************)
(* MatchingEngine on small instances.                                      *)
(***************************************************************************)
EXTENDS MatchingEngine, TLC

\* Ids, accounts and instruments are only compared for equality.
Symmetry == Permutations(OrderIds) \cup Permutations(AccountIds)
            \cup Permutations(Instruments)
=============================================================================
