------------------------------ MODULE MCGateway ------------------------------
(***************************************************************************)
(* OrderGateway on small instances.                                        *)
(***************************************************************************)
EXTENDS OrderGateway, TLC

\* Clients and accounts are only compared for equality.
Symmetry == Permutations(ClientIds) \cup Permutations(AccountIds)
=============================================================================
