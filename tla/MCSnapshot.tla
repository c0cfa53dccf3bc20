---------------------------- MODULE MCSnapshot ----------------------------
(***************************************************************************)
(* SnapshotStore on small instances.                                       *)
(***************************************************************************)
EXTENDS SnapshotStore

CONSTANTS p, q

\* A short payload that begins like the long one.
Records ==
    {[version |-> 1, sequence |-> 1, payload |-> <<p>>],
     [version |-> 2, sequence |-> 2, payload |-> <<p, q>>]}

\* Writers and inodes are only compared for equality.
Symmetry == Permutations(Writers) \cup Permutations(Inodes)
=============================================================================
