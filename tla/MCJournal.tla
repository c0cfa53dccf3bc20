----------------------------- MODULE MCJournal -----------------------------
(***************************************************************************)
(* FileJournal on small instances.                                         *)
(***************************************************************************)
EXTENDS FileJournal

CONSTANTS r1, r2, r3

\* Two records in the version read_all knows and one in another.
Records ==
    {[id |-> r1, version |-> 1], [id |-> r2, version |-> 1], [id |-> r3, version |-> 2]}

\* Ids are only compared for equality.
Symmetry == Permutations({r1, r2})
=============================================================================
