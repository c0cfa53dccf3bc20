---------------------------- MODULE FileJournal ----------------------------
(***************************************************************************)
(* journal::FileJournal: records appended as lines of text to a file, and  *)
(* read back.  The text is not modelled character by character.  A file is *)
(* a sequence of pieces, each the text of one record up to a cut:          *)
(*                                                                         *)
(*   "key"     inside the key of the first token, version=...              *)
(*   "value"   inside its value, or right after it                         *)
(*   "space"   right after the space that ends a token                     *)
(*   "token"   inside a later token, or after one that is not the last     *)
(*   "digits"  inside the number that ends the last token                  *)
(*   "whole"   all of it but the newline                                   *)
(*   "line"    all of it                                                   *)
(*                                                                         *)
(* Only a piece cut at "line" ends a line of the file; after another cut   *)
(* the next piece continues the same line, and after any of them but       *)
(* "space" its first token is glued to the one before.                     *)
(*                                                                         *)
(* The stream buffer is flushed after each record but the file is never    *)
(* synced: what a machine crash keeps is the copy the kernel last wrote    *)
(* back, and possibly some of the text after it, in file order.            *)
(*                                                                         *)
(* Three history variables say what was promised: acked, the records for   *)
(* which append_record has returned true since the last truncate; synced,  *)
(* how many of them the kernel had written back; and exposed, the ones a   *)
(* crash of the machine met before they were.  No failure and no crash     *)
(* takes a record out of acked.                                            *)
(***************************************************************************)
EXTENDS Integers, SequencesExt

CONSTANTS
    JournalRecords, \* what callers append: [id, version], a few of each
    MaxBatch,   \* bound: records of one append_records call
    MaxPieces,  \* bound: no call starts that would make the file longer
    MaxAcked,   \* bound: no call starts that might acknowledge more records
    MaxFaults   \* bound: failures and crashes of one behaviour

ASSUME JournalAssumption ==
    /\ \A r \in JournalRecords : r.version \in Nat
    /\ {MaxBatch, MaxPieces, MaxAcked, MaxFaults} \subseteq Nat

VARIABLES
    file,   \* the file as processes see it
    disk,   \* the copy that survives a crash of the machine
    call,   \* how many records the running append_records has yet to write
    faults, \* failures and crashes so far
    acked,  \* the records acknowledged since the last truncate
    synced, \* how many of them had been written back, or were exposed
    exposed \* which of them a machine crash met before they were written back

history == <<acked, synced, exposed>>
vars == <<file, disk, call, faults, history>>

\* The cuts in the order of the text they keep; a text cut inside one token may
\* hold more or less than one cut after another.
CutLength ==
    [key |-> 1, value |-> 2, space |-> 3, token |-> 3,
     digits |-> 4, whole |-> 5, line |-> 6]

Cuts == DOMAIN CutLength

Pieces == [record: JournalRecords, cut: Cuts]

Copies == [exists: BOOLEAN, data: Seq(Pieces)]

NoFile == [exists |-> FALSE, data |-> <<>>]

Forget ==
    /\ acked' = <<>>
    /\ synced' = 0
    /\ exposed' = {}

Init ==
    /\ file = NoFile
    /\ disk = NoFile
    /\ call = 0
    /\ faults = 0
    /\ acked = <<>>
    /\ synced = 0
    /\ exposed = {}

----------------------------------------------------------------------------
(* read_all                                                                 *)

\* The line of the file that ends with piece e is the pieces s .. e.
LineStart(d, e) == 1 + Max({0} \cup {i \in 1 .. e - 1 : d[i].cut = "line"})

\* The pieces that end a line; the last one does with or without a newline.
Ends(d) == {i \in 1 .. Len(d) : d[i].cut = "line" \/ i = Len(d)}

\* The lines in the order getline yields them, each by the piece it ends with:
\* the k-th is the one with k ends up to its own.
LineEnds(d) ==
    [k \in 1 .. Cardinality(Ends(d)) |->
        CHOOSE e \in Ends(d) : Cardinality({i \in Ends(d) : i <= e}) = k]

\* The pieces of a line whose first token is a version token of its own.
VersionPieces(d, s, e) ==
    {j \in s .. e : (j = s \/ d[j - 1].cut = "space") /\ d[j].cut # "key"}

\* The fields after version are the ones of the last piece of the line: its
\* tokens replace earlier ones of the same key.  They are all there, and all
\* have values that parse, when the text reaches the last token's number.
FieldsParse(piece) == piece.cut \in {"digits", "whole", "line"}

parse_record_line(d, e) ==
    LET versions == VersionPieces(d, LineStart(d, e), e)
        v == d[Max(versions)]
    IN  /\ FieldsParse(d[e])
        /\ versions # {}
        /\ v.cut # "value"
        /\ v.record.version = 1

\* Mutant of ParsedRecord: a token does not replace an earlier one.
ParsedRecord_FirstWins(d, e) ==
    LET first == d[LineStart(d, e)]
    IN  [id |-> first.record.id, version |-> 1, complete |-> first.cut # "digits"]

\* What is read may be complete, or have lost digits of its last number.
ParsedRecord(d, e) ==
    [id |-> d[e].record.id, version |-> 1, complete |-> d[e].cut # "digits"]

\* The loop stops at the first line that does not parse.  An error of the
\* device also gives io_error and no records; it is left out.
read_all(f) ==
    LET ends == LineEnds(f.data)
        bad  == {k \in DOMAIN ends : ~parse_record_line(f.data, ends[k])}
        good == Min(bad \cup {Len(ends) + 1}) - 1
    IN  IF ~f.exists THEN [status |-> "io_error", records |-> <<>>]
        ELSE [status  |-> IF bad = {} THEN "ok" ELSE "malformed_record",
              records |-> [k \in 1 .. good |-> ParsedRecord(f.data, ends[k])]]

----------------------------------------------------------------------------
(* append_record and append_records                                         *)

CutPoints == {"none"} \cup Cuts

\* serialize_record of r up to a cut; "none" is the empty prefix.
Text(r, cut) ==
    IF cut = "none" THEN <<>> ELSE <<[record |-> r, cut |-> cut]>>

Fault(n) ==
    /\ faults + n <= MaxFaults
    /\ faults' = faults + n

\* A call with n records.  Which ones is chosen as they are written.
append_records(n) ==
    /\ call = 0
    /\ Len(file.data) + n <= MaxPieces
    /\ Len(acked) + n <= MaxAcked
    /\ call' = n
    /\ UNCHANGED <<file, disk, faults, history>>

\* The file is opened for appending, and created when it is missing.
Written(text) == [exists |-> TRUE, data |-> file.data \o text]

Acknowledge(r) ==
    /\ acked' = Append(acked, r)
    /\ UNCHANGED <<synced, exposed>>

\* Mutant of append_record: no newline.
append_record_NoNewline(r) ==
    /\ call > 0
    /\ file' = Written(Text(r, "whole"))
    /\ call' = call - 1
    /\ Acknowledge(r)
    /\ UNCHANGED <<disk, faults>>

\* Mutant of append_record: the loop goes on behind the last record.
append_record_OneMore(r) ==
    /\ call >= 0
    /\ file' = Written(Text(r, "line"))
    /\ call' = call - 1
    /\ Acknowledge(r)
    /\ UNCHANGED <<disk, faults>>

\* The whole line is written and flushed: true.  append_records goes on with
\* the next record.
append_record(r) ==
    /\ call > 0
    /\ file' = Written(Text(r, "line"))
    /\ call' = call - 1
    /\ Acknowledge(r)
    /\ UNCHANGED <<disk, faults>>

\* The file cannot be opened: false, and append_records gives up.
OpenFails ==
    /\ call > 0
    /\ Fault(1)
    /\ call' = 0
    /\ UNCHANGED <<file, disk, history>>

\* The flush writes only a part of the line: false.  The stream still holds
\* the whole line, and its destructor tries to write it once more; if that
\* is cut again it counts as a second fault.
FlushFails(r) ==
    /\ call > 0
    /\ \E first \in CutPoints \ {"line"}, second \in CutPoints :
          /\ Fault(IF second \in {"none", "line"} THEN 1 ELSE 2)
          /\ file' = Written(Text(r, first) \o Text(r, second))
    /\ call' = 0
    /\ UNCHANGED <<disk, history>>

\* The process dies in append_record; nobody learns what it wrote.
ProcessCrash(r) ==
    /\ call > 0
    /\ Fault(1)
    /\ \E cut \in CutPoints : file' = Written(Text(r, cut))
    /\ call' = 0
    /\ UNCHANGED <<disk, history>>

\* Mutant of truncate: the file is opened without trunc.
truncate_Keeps ==
    /\ call = 0
    /\ file' = [file EXCEPT !.exists = TRUE]
    /\ Forget
    /\ UNCHANGED <<disk, call, faults>>

\* A truncate whose open fails returns false and changes nothing.
truncate ==
    /\ call = 0
    /\ file' = [NoFile EXCEPT !.exists = TRUE]
    /\ Forget
    /\ UNCHANGED <<disk, call, faults>>

----------------------------------------------------------------------------
(* The file system (external)                                               *)

Writeback ==
    /\ disk # file
    /\ disk' = file
    /\ synced' = Len(acked)
    /\ UNCHANGED <<file, call, faults, acked, exposed>>

\* The first n pieces of a file, of the last of them only a prefix.
Torn(d, n) ==
    {[SubSeq(d, 1, n) EXCEPT ![n].cut = cut] :
        cut \in {c \in Cuts : CutLength[c] <= CutLength[d[n].cut]}}

\* What the machine may come back with: the copy written back or, when the
\* file has only grown since, that copy with some of the text after it.
Survivors ==
    {disk} \cup
    {[exists |-> TRUE, data |-> d] :
        d \in UNION {Torn(file.data, n) :
                       n \in {k \in Len(disk.data) + 1 .. Len(file.data) :
                                IsPrefix(disk.data, file.data)}}}

\* The records acknowledged since the last write-back are exposed: their text
\* may be gone.  The ones before are on the disk.
MachineCrash ==
    /\ Fault(1)
    /\ \E f \in Survivors : file' = f /\ disk' = f
    /\ call' = 0
    /\ exposed' = exposed \cup (synced + 1 .. Len(acked))
    /\ synced' = Len(acked)
    /\ UNCHANGED acked

----------------------------------------------------------------------------

Next ==
    \/ \E n \in 1 .. MaxBatch : append_records(n)
    \/ \E r \in JournalRecords : append_record(r) \/ FlushFails(r) \/ ProcessCrash(r)
    \/ OpenFails
    \/ truncate
    \/ Writeback
    \/ MachineCrash

Spec == Init /\ [][Next]_vars

----------------------------------------------------------------------------
(* Properties.  A read can happen in every state.                           *)

\* Type correctness of the two copies, the running call and the history.
TypeOK ==
    /\ file \in Copies
    /\ disk \in Copies
    /\ call \in 0 .. MaxBatch
    /\ faults \in 0 .. MaxFaults
    /\ acked \in Seq(JournalRecords)
    /\ synced \in 0 .. Len(acked)
    /\ exposed \subseteq 1 .. synced

\* The record r as it was written.
Intact(r) == [id |-> r.id, version |-> r.version, complete |-> TRUE]

\* The line that ends with piece e starts with the remains of another one.
Continues(d, e) == LineStart(d, e) < e

\* The record read from line k is r as it was written or, when r has a version
\* that read_all does not know and a torn line before it lent its own, r with
\* that version.
ReadAs(k, r) ==
    LET record == read_all(file).records[k]
    IN  \/ record = Intact(r)
        \/ /\ record = [id |-> r.id, version |-> 1, complete |-> TRUE]
           /\ Continues(file.data, LineEnds(file.data)[k])

\* When read_all reports ok, every record append_record has acknowledged since
\* the last truncate is among the records read, complete and in the order of
\* the appends, whatever failed or crashed in between.  A torn line that a
\* later append continues may swallow the torn record but never the one
\* appended to it.  It may lend that one its version: a record that was
\* appended with version 2 then comes back with version 1.  The records a crash
\* of the machine met before the kernel had written them back are excepted:
\* append_record acknowledges without a sync, and they may be gone.
AcknowledgedAreReadBack ==
    LET result == read_all(file)
    IN  result.status = "ok" =>
            \E at \in [DOMAIN acked \ exposed -> DOMAIN result.records] :
                /\ \A k \in DOMAIN at : ReadAs(at[k], acked[k])
                /\ \A j, k \in DOMAIN at : j < k => at[j] < at[k]

\* Without failures and crashes read_all returns exactly what was appended
\* since the last truncate, up to the first record that was written with a
\* version other than 1: that one makes it report malformed_record and hides
\* everything behind it.
CleanJournalIsExact ==
    faults = 0 /\ file.exists =>
        LET foreign == {k \in DOMAIN acked : acked[k].version # 1}
            known   == Min(foreign \cup {Len(acked) + 1}) - 1
        IN  read_all(file) =
              [status  |-> IF foreign = {} THEN "ok" ELSE "malformed_record",
               records |-> [k \in 1 .. known |-> Intact(acked[k])]]

\* Every record read_all returns, with status ok or not, is one that some
\* caller had written, at that place of the file, but for two cases: the very
\* last text of the file may have lost digits of its last number, and a record
\* that continues a torn line may have taken the version of that line.
ReadRecordsWereWritten ==
    LET records == read_all(file).records
        ends    == LineEnds(file.data)
    IN  \A k \in DOMAIN records :
            \/ ReadAs(k, file.data[ends[k]].record)
            \/ /\ ~records[k].complete
               /\ k = Len(records)
               /\ ends[k] = Len(file.data)
               /\ Last(file.data).cut = "digits"
=============================================================================
