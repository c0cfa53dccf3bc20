---------------------------- MODULE MCMarketData ----------------------------
(***************************************************************************)
(* MarketData on small instances.                                          *)
(***************************************************************************)
EXTENDS MarketData, TLC

\* Ids and accounts are only compared for equality.
Symmetry == Permutations(OrderIds) \cup Permutations(AccountIds)
=============================================================================
