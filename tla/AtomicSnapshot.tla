--------------------------- MODULE AtomicSnapshot ---------------------------
(***************************************************************************)
(* What a snapshot store that is replaced atomically promises: a reader    *)
(* sees no snapshot or one whole snapshot, a crash of the machine may go   *)
(* back to an earlier one but never to anything else.                      *)
(***************************************************************************)
CONSTANTS
    Snapshots,  \* the records that are written
    NoSnapshot  \* there is no file yet

VARIABLES
    current,    \* what a reader gets
    stable      \* what it gets after a crash of the machine

Init ==
    /\ current = NoSnapshot
    /\ stable = NoSnapshot

Install(s) ==
    /\ current' = s
    /\ UNCHANGED stable

\* The newest snapshot has reached the disk.
Settle ==
    /\ stable' = current
    /\ UNCHANGED current

Crash ==
    /\ current' = stable
    /\ UNCHANGED stable

Next == (\E s \in Snapshots : Install(s)) \/ Settle \/ Crash

Spec == Init /\ [][Next]_<<current, stable>>
=============================================================================
