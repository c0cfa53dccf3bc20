--------------------------- MODULE SnapshotStore ---------------------------
(***************************************************************************)
(* snapshot::SnapshotStore: several writers and a reader of one path, on a *)
(* file system whose directory and file contents reach the disk when the   *)
(* kernel pleases, or when fsync asks for a file.                          *)
(*                                                                         *)
(* A file system is a record                                               *)
(*                                                                         *)
(*   temp, target   the two directory entries, path.tmp and path           *)
(*   data           the contents of each inode, a sequence of chunks: a    *)
(*                  line of the header of a snapshot, a part of a payload, *)
(*                  or Hole for the zeros left where a write starts behind *)
(*                  the end                                                *)
(*                                                                         *)
(* A chunk is what a write may end after, and overlapping writers take     *)
(* turns in; the lines of two headers are taken to be equally long, so     *)
(* that each covers the same line of the other.                            *)
(*                                                                         *)
(* fs is what processes see, disk what a crash of the machine leaves.      *)
(* Writers of one path share the temporary name, whether or not they share *)
(* a SnapshotStore: nothing in the class locks anything.                   *)
(***************************************************************************)
EXTENDS Integers, SequencesExt

CONSTANTS
    Writers,    \* threads or processes that call write
    Payload,    \* the chunks payloads are made of
    Snapshots,  \* the records they write: [version, sequence, payload]
    Inodes,     \* files; as many as there are calls of write
    MaxWrites,  \* bound: calls of write
    MaxCrashes, \* bound: crashes of a process or of the machine
    NoInode,    \* a name without a file, a thread without an open file
    NoSnapshot, \* no file, or nothing being written
    Damaged,    \* a file that read does not accept
    Hole

\* The four lines in front of a payload.  The checksum is one of the payload
\* alone; FNV-1a is taken to tell payloads apart.
Header(s) ==
    <<[version |-> s.version], [sequence |-> s.sequence],
      [payload_length |-> Len(s.payload)], [checksum |-> s.payload]>>

\* The values that stand for an absence or for zeros are no real ones.
ASSUME SnapshotAssumption ==
    /\ {MaxWrites, MaxCrashes} \subseteq Nat
    /\ Snapshots \subseteq [version: Nat, sequence: Nat, payload: Seq(Payload)]
    /\ NoInode \notin Inodes
    /\ \A s \in Snapshots, j \in 1 .. 4 : Hole # Header(s)[j]

VARIABLES
    fs,         \* the file system
    disk,       \* its copy on the disk
    writers,    \* the calls of write: pc, record, open file, chunks written
    reader,     \* the call of read: open file, chunks read
    overlapped, \* history: two calls of write have been running at once
    writes,     \* calls of write so far
    crashes     \* crashes so far

vars == <<fs, disk, writers, reader, overlapped, writes, crashes>>

\* The serialized form: the lines of the header and the chunks of the payload.
serialize_snapshot(s) == Header(s) \o s.payload

IdleWriter == [pc |-> "idle", snap |-> NoSnapshot, inode |-> NoInode, written |-> 0]

IdleReader == [inode |-> NoInode, seen |-> <<>>]

Init ==
    /\ fs = [temp |-> NoInode, target |-> NoInode, data |-> [i \in Inodes |-> <<>>]]
    /\ disk = fs
    /\ writers = [w \in Writers |-> IdleWriter]
    /\ reader = IdleReader
    /\ overlapped = FALSE
    /\ writes = 0
    /\ crashes = 0

----------------------------------------------------------------------------
(* write, through write_atomic                                              *)

\* Inodes that are neither named, on the disk or in memory, nor open.
FreeInodes ==
    Inodes \ ({fs.temp, fs.target, disk.temp, disk.target, reader.inode}
              \cup {writers[w].inode : w \in Writers})

\* Opening with trunc empties the file the temporary name has already.
open(w, s) ==
    /\ writers[w].pc = "idle"
    /\ writes < MaxWrites
    /\ writes' = writes + 1
    /\ \E i \in IF fs.temp # NoInode THEN {fs.temp} ELSE FreeInodes :
          /\ fs' = [fs EXCEPT !.temp = i, !.data[i] = <<>>]
          /\ writers' = [writers EXCEPT ![w] =
                           [pc |-> "writing", snap |-> s, inode |-> i, written |-> 0]]
          /\ disk' = IF fs.temp = NoInode THEN [disk EXCEPT !.data[i] = <<>>] ELSE disk
    /\ overlapped' = (overlapped \/ \E v \in Writers : writers[v].pc # "idle")
    /\ UNCHANGED <<reader, crashes>>

\* Chunk c written at position k.
WriteAt(d, k, c) ==
    [j \in 1 .. Max({k, Len(d)}) |->
        IF j = k THEN c ELSE IF j <= Len(d) THEN d[j] ELSE Hole]

\* Some of the content reaches the file.
WriteChunk(w) ==
    LET k == writers[w].written + 1
        content == serialize_snapshot(writers[w].snap)
    IN  /\ writers[w].pc = "writing"
        /\ k <= Len(content)
        /\ fs' = [fs EXCEPT !.data[writers[w].inode] = WriteAt(@, k, content[k])]
        /\ writers' = [writers EXCEPT ![w].written = k]
        /\ UNCHANGED <<disk, reader, overlapped, writes, crashes>>

Flushed(w) ==
    /\ writers[w].pc = "writing"
    /\ writers[w].written = Len(serialize_snapshot(writers[w].snap))

\* Mutant of sync_file_descriptor: the fsync is left out.
sync_file_descriptor_Skipped(w) ==
    /\ Flushed(w)
    /\ fs.temp # NoInode
    /\ writers' = [writers EXCEPT ![w].pc = "synced"]
    /\ UNCHANGED <<fs, disk, reader, overlapped, writes, crashes>>

\* fsync of whatever file has the temporary name by now.
sync_file_descriptor(w) ==
    /\ Flushed(w)
    /\ fs.temp # NoInode
    /\ disk' = [disk EXCEPT !.data[fs.temp] = fs.data[fs.temp]]
    /\ writers' = [writers EXCEPT ![w].pc = "synced"]
    /\ UNCHANGED <<fs, reader, overlapped, writes, crashes>>

\* Mutant of rename: the file is linked to the target and keeps its old name.
rename_Links(w) ==
    /\ writers[w].pc = "synced"
    /\ fs.temp # NoInode
    /\ fs' = [fs EXCEPT !.target = fs.temp]
    /\ writers' = [writers EXCEPT ![w].pc = "renamed"]
    /\ UNCHANGED <<disk, reader, overlapped, writes, crashes>>

\* Mutant of rename: its error is not looked at.
rename_Unchecked(w) ==
    /\ writers[w].pc = "synced"
    /\ \E done \in BOOLEAN :
          fs' = IF done THEN [fs EXCEPT !.temp = NoInode, !.target = fs.temp] ELSE fs
    /\ writers' = [writers EXCEPT ![w].pc = "renamed"]
    /\ UNCHANGED <<disk, reader, overlapped, writes, crashes>>

\* rename replaces the target, whoever wrote the file it moves.
rename(w) ==
    /\ writers[w].pc = "synced"
    /\ fs.temp # NoInode
    /\ fs' = [fs EXCEPT !.temp = NoInode, !.target = fs.temp]
    /\ writers' = [writers EXCEPT ![w].pc = "renamed"]
    /\ UNCHANGED <<disk, reader, overlapped, writes, crashes>>

\* Mutant of fail: the temporary file is removed only before the fsync.
fail_KeepsTemp(w) ==
    /\ writers[w].pc \in {"writing", "synced"}
    /\ fs' = IF writers[w].pc = "writing" THEN [fs EXCEPT !.temp = NoInode] ELSE fs
    /\ writers' = [writers EXCEPT ![w] = IdleWriter]
    /\ UNCHANGED <<disk, reader, overlapped, writes, crashes>>

\* The write, the fsync (also when the name is gone) or the rename fails: the
\* temporary name is removed and write returns false.
fail(w) ==
    /\ writers[w].pc \in {"writing", "synced"}
    /\ fs' = [fs EXCEPT !.temp = NoInode]
    /\ writers' = [writers EXCEPT ![w] = IdleWriter]
    /\ UNCHANGED <<disk, reader, overlapped, writes, crashes>>

\* write returns true.
return(w) ==
    /\ writers[w].pc = "renamed"
    /\ writers' = [writers EXCEPT ![w] = IdleWriter]
    /\ UNCHANGED <<fs, disk, reader, overlapped, writes, crashes>>

----------------------------------------------------------------------------
(* read                                                                     *)

\* The header is missing or overwritten with zeros, or the payload is shorter
\* than it says.
Unreadable(d) ==
    \/ Len(d) < 4
    \/ \E j \in 1 .. 4 : d[j] = Hole
    \/ d[3].payload_length > Len(d) - 4

\* Mutant of parse_snapshot_record: the checksum is not compared.
parse_snapshot_record_NoChecksum(d) ==
    IF Unreadable(d) THEN Damaged
    ELSE [version |-> d[1].version, sequence |-> d[2].sequence,
          payload |-> SubSeq(d, 5, 4 + d[3].payload_length)]

\* The result of read for the contents d.  The version is not looked at, and
\* the text behind payload_length chunks is ignored.  Zeros in the header make
\* it one line shorter, so that the checksum is taken for the length.
parse_snapshot_record(d) ==
    IF Unreadable(d) \/ SubSeq(d, 5, 4 + d[3].payload_length) # d[4].checksum
    THEN Damaged
    ELSE [version |-> d[1].version, sequence |-> d[2].sequence,
          payload |-> SubSeq(d, 5, 4 + d[3].payload_length)]

read_open ==
    /\ reader.inode = NoInode
    /\ fs.target # NoInode
    /\ reader' = [inode |-> fs.target, seen |-> <<>>]
    /\ UNCHANGED <<fs, disk, writers, overlapped, writes, crashes>>

AtEnd == Len(reader.seen) >= Len(fs.data[reader.inode])

read_chunk ==
    /\ reader.inode # NoInode
    /\ ~AtEnd
    /\ reader' = [reader EXCEPT !.seen =
                    Append(@, fs.data[reader.inode][Len(@) + 1])]
    /\ UNCHANGED <<fs, disk, writers, overlapped, writes, crashes>>

read_return ==
    /\ reader.inode # NoInode
    /\ AtEnd
    /\ reader' = IdleReader
    /\ UNCHANGED <<fs, disk, writers, overlapped, writes, crashes>>

----------------------------------------------------------------------------
(* Crashes, and the file system (external)                                  *)

Crash ==
    /\ crashes < MaxCrashes
    /\ crashes' = crashes + 1

ProcessCrash(w) ==
    /\ writers[w].pc # "idle"
    /\ writers' = [writers EXCEPT ![w] = IdleWriter]
    /\ Crash
    /\ UNCHANGED <<fs, disk, reader, overlapped, writes>>

\* The kernel writes back the directory, which the code never syncs.
WritebackNames ==
    /\ disk' = [disk EXCEPT !.temp = fs.temp, !.target = fs.target]
    /\ UNCHANGED <<fs, writers, reader, overlapped, writes, crashes>>

WritebackData(i) ==
    /\ disk' = [disk EXCEPT !.data[i] = fs.data[i]]
    /\ UNCHANGED <<fs, writers, reader, overlapped, writes, crashes>>

MachineCrash ==
    /\ fs' = disk
    /\ writers' = [w \in Writers |-> IdleWriter]
    /\ reader' = IdleReader
    /\ Crash
    /\ UNCHANGED <<disk, overlapped, writes>>

----------------------------------------------------------------------------

write(w) ==
    \/ \E s \in Snapshots : open(w, s)
    \/ WriteChunk(w)
    \/ sync_file_descriptor(w)
    \/ rename(w)
    \/ fail(w)
    \/ return(w)

read == read_open \/ read_chunk \/ read_return

Next ==
    \/ \E w \in Writers : write(w) \/ ProcessCrash(w)
    \/ read
    \/ WritebackNames
    \/ \E i \in Inodes : WritebackData(i)
    \/ MachineCrash

Spec == Init /\ [][Next]_vars

----------------------------------------------------------------------------
(* Properties                                                               *)

Chunks ==
    {Hole} \cup UNION {Range(serialize_snapshot(s)) : s \in Snapshots}

\* Type correctness of both copies of the file system and of the calls; a
\* temporary name never stays with a file that has become the target, and a
\* call of write has a record, a file, and no more chunks than the record has.
TypeOK ==
    /\ \A f \in {fs, disk} :
          /\ f \in [temp: Inodes \cup {NoInode}, target: Inodes \cup {NoInode},
                    data: [Inodes -> Seq(Chunks)]]
          /\ f.temp = f.target => f.temp = NoInode
    /\ writers \in [Writers ->
          [pc: {"idle", "writing", "synced", "renamed"},
           snap: Snapshots \cup {NoSnapshot}, inode: Inodes \cup {NoInode},
           written: Nat]]
    /\ \A w \in Writers : writers[w].pc # "idle" =>
          /\ writers[w].snap \in Snapshots
          /\ writers[w].inode \in Inodes
          /\ writers[w].written <= Len(serialize_snapshot(writers[w].snap))
    /\ reader \in [inode: Inodes \cup {NoInode}, seen: Seq(Chunks)]
    /\ overlapped \in BOOLEAN
    /\ writes \in 0 .. MaxWrites
    /\ crashes \in 0 .. MaxCrashes

\* While writes do not overlap, a read returns a record that was given to write,
\* though renames and crashes of writers happen while it is under way.  When
\* writers have mixed their chunks in one temporary file, a read that reports ok
\* still returns a payload that one of them wrote, from its first byte to its
\* last.  It need not be the payload of the version and the sequence it comes
\* with: these may be the lines of another writer, which no checksum covers.
ReadsAreWhole ==
    reader.inode # NoInode /\ AtEnd =>
        LET result == parse_snapshot_record(reader.seen)
        IN  IF overlapped
            THEN result = Damaged \/ \E s \in Snapshots : result.payload = s.payload
            ELSE result \in Snapshots

\* What read returns for a file system.
Visible(f) ==
    IF f.target = NoInode THEN NoSnapshot
    ELSE parse_snapshot_record(f.data[f.target])

Atomic == INSTANCE AtomicSnapshot
          WITH current <- Visible(fs), stable <- Visible(disk)

\* As long as no two calls of write overlap, the store is an atomic one: no
\* order of write, fsync, rename, write-back and crash shows a reader
\* anything but a whole snapshot, and a crash of the machine can only bring
\* an earlier one back.
AtomicUnlessOverlapped ==
    Atomic!Init /\ [][Atomic!Next \/ overlapped']_<<Visible(fs), Visible(disk)>>

\* When a write that overlapped no other is about to return true, read returns
\* its record: the sync and the rename, which go by name, had its file.
AckedIsInstalled ==
    \A w \in Writers :
        writers[w].pc = "renamed" /\ ~overlapped => Visible(fs) = writers[w].snap

\* A write that fails at any of its steps leaves no temporary file behind.
FailureLeavesNoTemp ==
    (\A w \in Writers : writers[w].pc = "idle") /\ ~overlapped /\ crashes = 0
        => fs.temp = NoInode
=============================================================================
