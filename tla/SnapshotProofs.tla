--------------------------- MODULE SnapshotProofs ---------------------------
(***************************************************************************)
(* Proofs of the properties of SnapshotStore for every number of writers,  *)
(* every set of snapshots and files, and every bound.                      *)
(*                                                                         *)
(* What the properties promise while no two writes overlap rests on where  *)
(* the files are: a file that has the target name, in memory or on the     *)
(* disk, or that a reader has open, is whole, is the same in memory and on *)
(* the disk, and is not the one the temporary name leads to; the one       *)
(* running write has the file of the temporary name, with the first        *)
(* written chunks of its record in it.                                     *)
(***************************************************************************)
EXTENDS SnapshotStore, SequenceTheorems, TLAPS

\* A writer is inside write.
Active(w) == writers[w].pc # "idle"

\* d begins with the chunks of s.
HasPrefix(d, s, n) ==
    /\ Len(d) = n
    /\ \A j \in 1 .. n : d[j] = serialize_snapshot(s)[j]

\* A file that is the serialized form of a snapshot.
Whole(d) == \E s \in Snapshots : d = serialize_snapshot(s)

\* A file begins with lines of headers, each in its place, whoever wrote them.
HeaderFirst(d) ==
    \A j \in 1 .. 4 :
        j <= Len(d) => d[j] = Hole \/ \E s \in Snapshots : d[j] = Header(s)[j]

\* The files that somebody relies on.
Settled == {fs.target, disk.target, reader.inode} \ {NoInode}

\* Every file, and what a reader has of one, begins with lines of headers.
HeadersFirst ==
    /\ \A i \in Inodes : HeaderFirst(fs.data[i]) /\ HeaderFirst(disk.data[i])
    /\ HeaderFirst(reader.seen)

\* Writes do not overlap.
OneWriter == \A v, w \in Writers : Active(v) /\ Active(w) => v = w

\* A file somebody relies on is whole, is on the disk and is not written to.
SettledFiles ==
    \A i \in Settled :
        i # fs.temp /\ fs.data[i] = disk.data[i] /\ Whole(fs.data[i])

\* A reader has read what its file says.
ReaderOnTrack ==
    reader.inode # NoInode =>
        /\ Len(reader.seen) <= Len(fs.data[reader.inode])
        /\ \A k \in 1 .. Len(reader.seen) :
              reader.seen[k] = fs.data[reader.inode][k]

\* How far a writer is with its file.
WriterOnTrack(w) ==
    LET i == writers[w].inode
        s == writers[w].snap
    IN  /\ writers[w].pc \in {"writing", "synced"} => i = fs.temp
        /\ writers[w].pc = "writing" => HasPrefix(fs.data[i], s, writers[w].written)
        /\ writers[w].pc = "synced" => /\ fs.data[i] = serialize_snapshot(s)
                                       /\ disk.data[i] = serialize_snapshot(s)
        /\ writers[w].pc = "renamed" => /\ fs.target # NoInode
                                        /\ fs.data[fs.target] = serialize_snapshot(s)

\* Only a crash leaves the temporary name without its writer.
TempIsOwned ==
    crashes = 0 /\ fs.temp # NoInode =>
        \E w \in Writers : writers[w].pc \in {"writing", "synced"}

\* Where the files are while no two writes have overlapped.
Orderly ==
    /\ OneWriter
    /\ SettledFiles
    /\ ReaderOnTrack
    /\ \A w \in Writers : WriterOnTrack(w)
    /\ TempIsOwned

\* The inductive invariant of the store.
IndInv == TypeOK /\ HeadersFirst /\ (~overlapped => Orderly)

----------------------------------------------------------------------------
(* The serialized form                                                      *)

\* A snapshot record and its length.
LEMMA RecordFacts ==
    ASSUME NEW s \in Snapshots
    PROVE  /\ s = [version |-> s.version, sequence |-> s.sequence, payload |-> s.payload]
           /\ s.payload \in Seq(Payload)
           /\ Len(s.payload) \in Nat
           /\ \A j \in 1 .. 4 : Hole # Header(s)[j]
    BY SnapshotAssumption

\* The lines of a header.
LEMMA HeaderFacts ==
    ASSUME NEW s
    PROVE  /\ Len(Header(s)) = 4
           /\ Header(s)[1].version = s.version
           /\ Header(s)[2].sequence = s.sequence
           /\ Header(s)[3].payload_length = Len(s.payload)
           /\ Header(s)[4].checksum = s.payload
           /\ \A S : (\A j \in 1 .. 4 : Header(s)[j] \in S) => Header(s) \in Seq(S)
<1> DEFINE a == [version |-> s.version]
           b == [sequence |-> s.sequence]
           c == [payload_length |-> Len(s.payload)]
           d == [checksum |-> s.payload]
<1>1. Header(s) = <<a, b, c, d>>
    BY DEF Header
<1>2. /\ a.version = s.version
      /\ b.sequence = s.sequence
      /\ c.payload_length = Len(s.payload)
      /\ d.checksum = s.payload
    OBVIOUS
<1> HIDE DEF a, b, c, d
<1>3. \A S : (\A j \in 1 .. 4 : <<a, b, c, d>>[j] \in S) => <<a, b, c, d>> \in Seq(S)
  <2> SUFFICES ASSUME NEW S, \A j \in 1 .. 4 : <<a, b, c, d>>[j] \in S
               PROVE  <<a, b, c, d>> \in Seq(S)
      OBVIOUS
  <2>1. a \in S /\ b \in S /\ c \in S /\ d \in S
      OBVIOUS
  <2> QED
      BY <2>1
<1> QED
    BY <1>1, <1>2, <1>3

\* The serialized form of a snapshot: the header, then the payload.
LEMMA SerializedFacts ==
    ASSUME NEW s \in Snapshots
    PROVE  /\ serialize_snapshot(s) \in Seq(Chunks)
           /\ Len(serialize_snapshot(s)) = 4 + Len(s.payload)
           /\ \A j \in 1 .. 4 : serialize_snapshot(s)[j] = Header(s)[j]
           /\ \A j \in 1 .. Len(s.payload) :
                 serialize_snapshot(s)[j + 4] = s.payload[j]
<1> DEFINE h == Header(s)
           q == s.payload
           d == serialize_snapshot(s)
           S == Payload \cup {Header(s)[j] : j \in 1 .. 4}
<1>1. d = h \o q
    BY DEF serialize_snapshot
<1>2. q \in Seq(S) /\ h \in Seq(S) /\ Len(h) = 4
  <2>1. q \in Seq(Payload) /\ Payload \subseteq S
      BY RecordFacts
  <2>2. \A j \in 1 .. 4 : h[j] \in S
      OBVIOUS
  <2>3. h \in Seq(S) /\ Len(h) = 4
    <3>1. \A T : (\A j \in 1 .. 4 : h[j] \in T) => h \in Seq(T)
        BY HeaderFacts
    <3>2. Len(h) = 4
        BY HeaderFacts
    <3> HIDE DEF S, h
    <3> QED
        BY <2>2, <3>1, <3>2
  <2>4. q \in Seq(S)
    <3> HIDE DEF S, q
    <3> QED
        BY <2>1
  <2> QED
      BY <2>3, <2>4
<1> HIDE DEF h, q, d, S
<1>3. /\ d \in Seq(S)
      /\ Len(d) = 4 + Len(q)
      /\ \A j \in 1 .. Len(d) : d[j] = IF j <= 4 THEN h[j] ELSE q[j - 4]
  <2>1. /\ h \o q \in Seq(S)
        /\ Len(h \o q) = Len(h) + Len(q)
        /\ \A i \in 1 .. Len(h) + Len(q) :
              (h \o q)[i] = IF i <= Len(h) THEN h[i] ELSE q[i - Len(h)]
      BY <1>2, ConcatProperties
  <2> QED
      BY <1>1, <1>2, <2>1
<1>4. Len(q) \in Nat
    BY <1>2
<1>5. \A j \in 1 .. 4 : d[j] = h[j]
    BY <1>3, <1>4
<1>6. \A j \in 1 .. Len(q) : d[j + 4] = q[j]
    BY <1>3, <1>4
<1>7. d \in Seq(Chunks)
  <2>1. \A j \in 1 .. Len(d) : d[j] \in Chunks
    <3>1. DOMAIN d = 1 .. Len(d)
        BY <1>3
    <3> QED
        BY <3>1 DEF Chunks, Range, d
  <2> QED
      BY <1>3, <2>1, SeqDef
<1> QED
    BY <1>3, <1>5, <1>6, <1>7 DEF d, q, h

\* What was written whole is read back as it was.
LEMMA ParseWhole ==
    ASSUME NEW s \in Snapshots
    PROVE  parse_snapshot_record(serialize_snapshot(s)) = s
<1> DEFINE d == serialize_snapshot(s)
           n == Len(s.payload)
           payload == SubSeq(d, 5, 4 + n)
<1>1. /\ d \in Seq(Chunks)
      /\ Len(d) = 4 + n
      /\ \A j \in 1 .. 4 : d[j] = Header(s)[j]
      /\ \A j \in 1 .. n : d[j + 4] = s.payload[j]
    BY SerializedFacts
<1>2. /\ s = [version |-> s.version, sequence |-> s.sequence, payload |-> s.payload]
      /\ s.payload \in Seq(Payload)
      /\ n \in Nat
      /\ \A j \in 1 .. 4 : Hole # Header(s)[j]
    BY RecordFacts
<1>3. /\ d[1].version = s.version
      /\ d[2].sequence = s.sequence
      /\ d[3].payload_length = n
      /\ d[4].checksum = s.payload
  <2>1. d[1] = Header(s)[1] /\ d[2] = Header(s)[2] /\ d[3] = Header(s)[3]
      BY <1>1
  <2>2. d[4] = Header(s)[4]
      BY <1>1
  <2> HIDE DEF d
  <2> QED
      BY <2>1, <2>2, HeaderFacts
<1> HIDE DEF d
<1>4. payload = s.payload
  <2> HIDE DEF n
  <2>1. /\ SubSeq(d, 5, 4 + n) \in Seq(Chunks)
        /\ Len(SubSeq(d, 5, 4 + n)) = IF 5 <= 4 + n THEN 4 + n - 5 + 1 ELSE 0
        /\ \A j \in 1 .. 4 + n - 5 + 1 : SubSeq(d, 5, 4 + n)[j] = d[5 + j - 1]
      BY <1>1, <1>2, SubSeqProperties
  <2>2. Len(payload) = n /\ \A j \in 1 .. n : payload[j] = s.payload[j]
      BY <1>1, <1>2, <2>1
  <2> HIDE DEF payload
  <2> QED
      BY <1>2, <2>1, <2>2, SeqEqual DEF n, payload
<1>5. ~Unreadable(d)
  <2>1. ~(Len(d) < 4) /\ ~(d[3].payload_length > Len(d) - 4)
    <3> HIDE DEF n
    <3> QED
        BY <1>1, <1>2, <1>3
  <2> QED
      BY <1>1, <1>2, <2>1 DEF Unreadable
<1>6. parse_snapshot_record(d) =
        [version |-> s.version, sequence |-> s.sequence, payload |-> s.payload]
    BY <1>3, <1>4, <1>5 DEF parse_snapshot_record
<1> QED
    BY <1>2, <1>6 DEF d

\* The checksum in a header lets no payload through but the one it is of.
LEMMA ParseFinds ==
    ASSUME NEW d \in Seq(Chunks), HeaderFirst(d)
    PROVE  \/ parse_snapshot_record(d) = Damaged
           \/ \E s \in Snapshots : parse_snapshot_record(d).payload = s.payload
<1> DEFINE payload == SubSeq(d, 5, 4 + d[3].payload_length)
<1> SUFFICES ASSUME ~Unreadable(d), payload = d[4].checksum
             PROVE  \E s \in Snapshots : parse_snapshot_record(d).payload = s.payload
    BY DEF parse_snapshot_record
<1>1. 4 <= Len(d) /\ d[4] # Hole
    BY DEF Unreadable
<1>2. PICK s \in Snapshots : d[4] = Header(s)[4]
    BY <1>1 DEF HeaderFirst
<1>3. d[4].checksum = s.payload
    BY <1>2, HeaderFacts
<1>4. parse_snapshot_record(d).payload = payload
    BY DEF parse_snapshot_record
<1> QED
    BY <1>3, <1>4

\* e is d with c at position k, and holes between them if k is far behind d.
WrittenAt(d, k, c, e) ==
    /\ e \in Seq(Chunks)
    /\ Len(e) = IF k > Len(d) THEN k ELSE Len(d)
    /\ e[k] = c
    /\ \A j \in 1 .. Len(d) : j # k => e[j] = d[j]
    /\ \A j \in 1 .. k - 1 : j > Len(d) => e[j] = Hole

\* What a write at an offset leaves in a file.
LEMMA WriteAtFacts ==
    ASSUME NEW d \in Seq(Chunks), NEW k \in Nat \ {0}, NEW c \in Chunks
    PROVE  WrittenAt(d, k, c, WriteAt(d, k, c))
<1> DEFINE n == IF k > Len(d) THEN k ELSE Len(d)
           e == WriteAt(d, k, c)
<1>1. Len(d) \in Nat /\ n \in Nat /\ k <= n /\ Len(d) <= n
    OBVIOUS
<1>2. Max({k, Len(d)}) = n
  <2>1. n \in {k, Len(d)} /\ \A y \in {k, Len(d)} : n >= y
      BY <1>1
  <2>2. \A x \in {k, Len(d)} : (\A y \in {k, Len(d)} : x >= y) => x = n
      BY <1>1
  <2> HIDE DEF n
  <2> QED
      BY <2>1, <2>2 DEF Max
<1>3. e = [j \in 1 .. n |-> IF j = k THEN c ELSE IF j <= Len(d) THEN d[j] ELSE Hole]
    BY <1>2 DEF WriteAt
<1> HIDE DEF n, e
<1>4. \A j \in 1 .. n : e[j] \in Chunks
  <2>1. Hole \in Chunks
      BY DEF Chunks
  <2> QED
      BY <1>1, <1>3, <2>1
<1>5. e \in Seq(Chunks) /\ Len(e) = n
    BY <1>1, <1>3, <1>4
<1>6. /\ e[k] = c
      /\ \A j \in 1 .. Len(d) : j # k => e[j] = d[j]
      /\ \A j \in 1 .. k - 1 : j > Len(d) => e[j] = Hole
    BY <1>1, <1>3
<1> QED
    BY <1>5, <1>6 DEF n, e, WrittenAt

----------------------------------------------------------------------------
(* Steps of write                                                           *)

\* The types TypeOK speaks of.
FileSystems == [temp: Inodes \cup {NoInode}, target: Inodes \cup {NoInode},
                data: [Inodes -> Seq(Chunks)]]

\* The locals of write.
Calls == [pc: {"idle", "writing", "synced", "renamed"},
          snap: Snapshots \cup {NoSnapshot}, inode: Inodes \cup {NoInode},
          written: Nat]

\* A running write has a snapshot, a file and a place in it.
CallTyped(c) == c.pc # "idle" =>
                    /\ c.snap \in Snapshots
                    /\ c.inode \in Inodes
                    /\ c.written <= Len(serialize_snapshot(c.snap))

\* TypeOK by its parts.
LEMMA Types ==
    TypeOK <=> /\ fs \in FileSystems /\ disk \in FileSystems
               /\ fs.temp = fs.target => fs.temp = NoInode
               /\ disk.temp = disk.target => disk.temp = NoInode
               /\ writers \in [Writers -> Calls]
               /\ \A w \in Writers : CallTyped(writers[w])
               /\ reader \in [inode: Inodes \cup {NoInode}, seen: Seq(Chunks)]
               /\ overlapped \in BOOLEAN
               /\ writes \in 0 .. MaxWrites
               /\ crashes \in 0 .. MaxCrashes
    BY DEF TypeOK, FileSystems, Calls, CallTyped

\* The same of the next state.
LEMMA TypesNext ==
    TypeOK' <=> /\ fs' \in FileSystems /\ disk' \in FileSystems
                /\ fs'.temp = fs'.target => fs'.temp = NoInode
                /\ disk'.temp = disk'.target => disk'.temp = NoInode
                /\ writers' \in [Writers -> Calls]
                /\ \A w \in Writers : CallTyped(writers'[w])
                /\ reader' \in [inode: Inodes \cup {NoInode}, seen: Seq(Chunks)]
                /\ overlapped' \in BOOLEAN
                /\ writes' \in 0 .. MaxWrites
                /\ crashes' \in 0 .. MaxCrashes
    BY DEF TypeOK, FileSystems, Calls, CallTyped

\* Opening, and truncating, the temporary file.
LEMMA OpenKeeps ==
    ASSUME IndInv, NEW w \in Writers, NEW s \in Snapshots, open(w, s)
    PROVE  IndInv'
<1> DEFINE call(i) == [pc |-> "writing", snap |-> s, inode |-> i, written |-> 0]
<1>0. TypeOK /\ HeadersFirst /\ (~overlapped => Orderly)
    BY DEF IndInv
<1>1. PICK i \in IF fs.temp # NoInode THEN {fs.temp} ELSE FreeInodes :
        /\ fs' = [fs EXCEPT !.temp = i, !.data[i] = <<>>]
        /\ writers' = [writers EXCEPT ![w] = call(i)]
        /\ disk' = IF fs.temp = NoInode THEN [disk EXCEPT !.data[i] = <<>>] ELSE disk
    BY DEF open
<1>2. /\ i \in Inodes /\ i # NoInode
      /\ i # fs.target
      /\ ~overlapped => i \notin Settled
  <2>1. CASE fs.temp # NoInode
    <3>1. i = fs.temp
        BY <1>1, <2>1
    <3> QED
        BY <1>0, <2>1, <3>1, Types DEF FileSystems, Orderly, SettledFiles
  <2>2. CASE fs.temp = NoInode
      BY <1>1, <2>2, SnapshotAssumption DEF FreeInodes, Settled
  <2> QED
      BY <2>1, <2>2
<1>3. /\ fs' \in FileSystems
      /\ fs'.temp = i /\ fs'.target = fs.target
      /\ fs'.data[i] = <<>>
      /\ \A j \in Inodes \ {i} : fs'.data[j] = fs.data[j]
  <2>1. fs \in FileSystems /\ <<>> \in Seq(Chunks)
      BY <1>0, Types
  <2> QED
      BY <1>1, <1>2, <2>1 DEF FileSystems
<1>4. /\ disk' \in FileSystems
      /\ disk'.temp = disk.temp /\ disk'.target = disk.target
      /\ disk'.data[i] \in {<<>>, disk.data[i]}
      /\ \A j \in Inodes \ {i} : disk'.data[j] = disk.data[j]
  <2>1. disk \in FileSystems /\ <<>> \in Seq(Chunks)
      BY <1>0, Types
  <2> QED
      BY <1>1, <1>2, <2>1 DEF FileSystems
<1>5. /\ writers' \in [Writers -> Calls]
      /\ writers'[w] = call(i)
      /\ \A v \in Writers \ {w} : writers'[v] = writers[v]
    BY <1>0, <1>1, <1>2, Types DEF Calls
<1>6. CallTyped(writers'[w])
  <2>1. 0 <= Len(serialize_snapshot(s))
      BY SerializedFacts
  <2> QED
      BY <1>2, <1>5, <2>1 DEF CallTyped
<1>7. /\ reader' = reader
      /\ crashes' = crashes
      /\ writes' \in 0 .. MaxWrites
      /\ overlapped' = (overlapped \/ \E v \in Writers : Active(v))
    BY <1>0, Types, SnapshotAssumption DEF open, Active
<1>8. TypeOK'
    BY <1>0, <1>2, <1>3, <1>4, <1>5, <1>6, <1>7, Types, TypesNext
<1>9. HeadersFirst'
  <2>1. HeaderFirst(<<>>)
      BY DEF HeaderFirst
  <2> QED
      BY <1>0, <1>3, <1>4, <1>7, <2>1 DEF HeadersFirst
<1>10. ASSUME ~overlapped' PROVE Orderly'
  <2>1. ~overlapped /\ Orderly /\ \A v \in Writers : ~Active(v)
      BY <1>0, <1>7, <1>10
  <2>2. \A v \in Writers \ {w} : writers'[v].pc = "idle"
      BY <1>5, <2>1 DEF Active
  <2>3. OneWriter'
      BY <2>2 DEF OneWriter, Active
  <2>4. Settled' = Settled
      BY <1>3, <1>4, <1>7 DEF Settled
  <2>5. Settled \subseteq Inodes \ {i}
      BY <1>0, <1>2, <2>1, Types DEF Settled, FileSystems
  <2>6. SettledFiles'
      BY <1>3, <1>4, <2>1, <2>4, <2>5 DEF SettledFiles, Orderly
  <2>7. ReaderOnTrack'
    <3>1. reader.inode # NoInode => fs'.data[reader.inode] = fs.data[reader.inode]
        BY <1>3, <2>5 DEF Settled
    <3> QED
        BY <1>7, <2>1, <3>1 DEF ReaderOnTrack, Orderly
  <2>8. ASSUME NEW v \in Writers PROVE WriterOnTrack(v)'
    <3>1. CASE v = w
        BY <1>3, <1>5, <3>1 DEF WriterOnTrack, HasPrefix
    <3>2. CASE v # w
        BY <2>2, <3>2 DEF WriterOnTrack
    <3> QED
        BY <3>1, <3>2
  <2>9. TempIsOwned'
      BY <1>5 DEF TempIsOwned
  <2> QED
      BY <2>3, <2>6, <2>7, <2>8, <2>9 DEF Orderly
<1> QED
    BY <1>8, <1>9, <1>10 DEF IndInv

\* With no overlap the calls of the other writers are idle.
LEMMA OthersIdle ==
    ASSUME OneWriter, NEW w \in Writers, Active(w), NEW v \in Writers \ {w}
    PROVE  writers[v].pc = "idle"
    BY DEF OneWriter, Active

\* Writing one chunk.
LEMMA ChunkKeeps ==
    ASSUME IndInv, NEW w \in Writers, WriteChunk(w)
    PROVE  IndInv'
<1> DEFINE i == writers[w].inode
           s == writers[w].snap
           k == writers[w].written + 1
           content == serialize_snapshot(s)
           call == [writers[w] EXCEPT !.written = k]
           d == fs.data[i]
           c == content[k]
           e == WriteAt(d, k, c)
<1>0. TypeOK /\ HeadersFirst /\ (~overlapped => Orderly)
    BY DEF IndInv
<1>1. /\ writers[w].pc = "writing" /\ k <= Len(content)
      /\ fs' = [fs EXCEPT !.data[i] = e]
      /\ writers' = [writers EXCEPT ![w].written = k]
      /\ UNCHANGED <<disk, reader, overlapped, writes, crashes>>
    BY DEF WriteChunk
<1>2. /\ writers[w] \in Calls
      /\ i \in Inodes /\ s \in Snapshots /\ k \in Nat \ {0}
      /\ d \in Seq(Chunks) /\ fs \in FileSystems
  <2>1. writers[w] \in Calls /\ CallTyped(writers[w]) /\ fs \in FileSystems
      BY <1>0, Types
  <2>2. i \in Inodes /\ s \in Snapshots /\ writers[w].written \in Nat
      BY <1>1, <2>1 DEF CallTyped, Calls
  <2>3. d \in Seq(Chunks)
      BY <2>1, <2>2 DEF FileSystems
  <2> QED
      BY <2>1, <2>2, <2>3
<1>3. /\ content \in Seq(Chunks) /\ Len(content) \in Nat
      /\ \A j \in 1 .. 4 : content[j] = Header(s)[j]
      /\ content[k] \in Chunks
  <2>1. content \in Seq(Chunks) /\ \A j \in 1 .. 4 : content[j] = Header(s)[j]
      BY <1>2, SerializedFacts
  <2> HIDE DEF content, k, s
  <2> QED
      BY <1>1, <1>2, <2>1
<1>4. /\ e \in Seq(Chunks)
      /\ Len(e) = IF k > Len(d) THEN k ELSE Len(d)
      /\ e[k] = c
      /\ \A j \in 1 .. Len(d) : j # k => e[j] = d[j]
      /\ \A j \in 1 .. k - 1 : j > Len(d) => e[j] = Hole
  <2>1. d \in Seq(Chunks) /\ k \in Nat \ {0} /\ c \in Chunks
      BY <1>2, <1>3
  <2>2. WrittenAt(d, k, c, e)
      BY <2>1, WriteAtFacts
  <2> HIDE DEF d, k, c, e
  <2> QED
      BY <2>2 DEF WrittenAt
<1>5. /\ call \in Calls
      /\ call.pc = "writing" /\ call.snap = s /\ call.inode = i /\ call.written = k
    BY <1>1, <1>2 DEF Calls
<1>6. /\ writers' \in [Writers -> Calls]
      /\ writers'[w] = call
      /\ \A v \in Writers \ {w} : writers'[v] = writers[v]
  <2>1. writers \in [Writers -> Calls]
      BY <1>0, Types
  <2> QED
      BY <1>1, <1>5, <2>1
<1>7. CallTyped(call)
    BY <1>1, <1>2, <1>5 DEF CallTyped
<1> HIDE DEF e
<1>8. /\ fs' \in FileSystems
      /\ fs'.temp = fs.temp /\ fs'.target = fs.target
      /\ fs'.data[i] = e
      /\ \A j \in Inodes \ {i} : fs'.data[j] = fs.data[j]
    BY <1>1, <1>2, <1>4 DEF FileSystems
<1>9. TypeOK'
    BY <1>0, <1>1, <1>6, <1>7, <1>8, Types, TypesNext
<1>10. HeadersFirst'
  <2>1. HeaderFirst(e)
    <3>1. HeaderFirst(d)
        BY <1>0, <1>2 DEF HeadersFirst
    <3>2. SUFFICES ASSUME NEW j \in 1 .. 4, j <= Len(e)
                   PROVE  e[j] = Hole \/ \E x \in Snapshots : e[j] = Header(x)[j]
        BY DEF HeaderFirst
    <3>3. CASE j = k
        BY <1>2, <1>3, <1>4, <3>3
    <3>4. CASE j # k /\ j <= Len(d)
      <4>1. e[j] = d[j]
        <5> HIDE DEF d, k
        <5> QED
            BY <1>2, <1>4, <3>4
      <4> QED
          BY <3>1, <3>4, <4>1 DEF HeaderFirst
    <3>5. CASE j # k /\ ~(j <= Len(d))
      <4>1. j \in 1 .. k - 1 /\ j > Len(d)
        <5> HIDE DEF d, k
        <5> QED
            BY <1>2, <1>4, <3>2, <3>5
      <4> QED
          BY <1>4, <4>1
    <3> QED
        BY <3>3, <3>4, <3>5
  <2> QED
      BY <1>0, <1>1, <1>8, <2>1 DEF HeadersFirst
<1>11. ASSUME ~overlapped' PROVE Orderly'
  <2>1. ~overlapped /\ Orderly
      BY <1>0, <1>1, <1>11
  <2>2. i = fs.temp /\ HasPrefix(d, s, writers[w].written)
      BY <1>1, <2>1 DEF Orderly, WriterOnTrack
  <2>3. Active(w) /\ \A v \in Writers \ {w} : writers[v].pc = "idle"
      BY <1>1, <2>1, OthersIdle DEF Orderly, Active
  <2>4. OneWriter'
      BY <1>6, <2>3 DEF OneWriter, Active
  <2>5. Settled' = Settled /\ Settled \subseteq Inodes \ {i}
    <3>1. Settled' = Settled
        BY <1>1, <1>8 DEF Settled
    <3>2. Settled \subseteq Inodes
        BY <1>0, Types DEF Settled, FileSystems
    <3>3. i \notin Settled
        BY <2>1, <2>2 DEF Orderly, SettledFiles
    <3> QED
        BY <3>1, <3>2, <3>3
  <2>6. SettledFiles'
      BY <1>1, <1>8, <2>1, <2>5 DEF SettledFiles, Orderly
  <2>7. ReaderOnTrack'
    <3>1. reader.inode # NoInode => fs'.data[reader.inode] = fs.data[reader.inode]
        BY <1>8, <2>5 DEF Settled
    <3> QED
        BY <1>1, <2>1, <3>1 DEF ReaderOnTrack, Orderly
  <2>8. HasPrefix(e, s, k)
    <3> HIDE DEF d, s
    <3>1. Len(d) = k - 1 /\ \A j \in 1 .. k - 1 : d[j] = content[j]
        BY <1>2, <2>2 DEF HasPrefix, Calls
    <3> HIDE DEF k
    <3> QED
        BY <1>2, <1>4, <3>1 DEF HasPrefix
  <2>9. ASSUME NEW v \in Writers PROVE WriterOnTrack(v)'
    <3>1. CASE v = w
        BY <1>5, <1>6, <1>8, <2>2, <2>8, <3>1 DEF WriterOnTrack
    <3>2. CASE v # w
        BY <1>6, <2>3, <3>2 DEF WriterOnTrack
    <3> QED
        BY <3>1, <3>2
  <2>10. TempIsOwned'
      BY <1>5, <1>6 DEF TempIsOwned
  <2> QED
      BY <2>4, <2>6, <2>7, <2>9, <2>10 DEF Orderly
<1> QED
    BY <1>9, <1>10, <1>11 DEF IndInv

\* A flushed file is the whole record.
LEMMA FlushedIsWhole ==
    ASSUME NEW d \in Seq(Chunks), NEW s \in Snapshots,
           HasPrefix(d, s, Len(serialize_snapshot(s)))
    PROVE  d = serialize_snapshot(s)
    BY SerializedFacts, SeqEqual DEF HasPrefix

\* Syncing the temporary file.
LEMMA SyncKeeps ==
    ASSUME IndInv, NEW w \in Writers, sync_file_descriptor(w)
    PROVE  IndInv'
<1> DEFINE i == fs.temp
           s == writers[w].snap
           call == [writers[w] EXCEPT !.pc = "synced"]
<1>0. TypeOK /\ HeadersFirst /\ (~overlapped => Orderly)
    BY DEF IndInv
<1>1. /\ writers[w].pc = "writing"
      /\ writers[w].written = Len(serialize_snapshot(s))
      /\ i # NoInode
      /\ disk' = [disk EXCEPT !.data[i] = fs.data[i]]
      /\ writers' = [writers EXCEPT ![w].pc = "synced"]
      /\ UNCHANGED <<fs, reader, overlapped, writes, crashes>>
    BY DEF sync_file_descriptor, Flushed
<1>2. /\ writers[w] \in Calls /\ CallTyped(writers[w])
      /\ i \in Inodes /\ s \in Snapshots
      /\ fs.data[i] \in Seq(Chunks) /\ disk \in FileSystems
    BY <1>0, <1>1, Types DEF CallTyped, Calls, FileSystems
<1>3. /\ call \in Calls /\ CallTyped(call)
      /\ call.pc = "synced" /\ call.snap = s /\ call.inode = writers[w].inode
    BY <1>1, <1>2 DEF Calls, CallTyped
<1>4. /\ writers' \in [Writers -> Calls]
      /\ writers'[w] = call
      /\ \A v \in Writers \ {w} : writers'[v] = writers[v]
  <2>1. writers \in [Writers -> Calls]
      BY <1>0, Types
  <2> QED
      BY <1>1, <1>3, <2>1
<1>5. /\ disk' \in FileSystems
      /\ disk'.temp = disk.temp /\ disk'.target = disk.target
      /\ disk'.data[i] = fs.data[i]
      /\ \A j \in Inodes \ {i} : disk'.data[j] = disk.data[j]
    BY <1>1, <1>2 DEF FileSystems
<1>6. TypeOK'
    BY <1>0, <1>1, <1>3, <1>4, <1>5, Types, TypesNext
<1>7. HeadersFirst'
    BY <1>0, <1>1, <1>2, <1>5 DEF HeadersFirst
<1>8. ASSUME ~overlapped' PROVE Orderly'
  <2>1. ~overlapped /\ Orderly
      BY <1>0, <1>1, <1>8
  <2>2. writers[w].inode = i /\ fs.data[i] = serialize_snapshot(s)
    <3>1. writers[w].inode = i /\ HasPrefix(fs.data[i], s, writers[w].written)
        BY <1>1, <2>1 DEF Orderly, WriterOnTrack
    <3> QED
        BY <1>1, <1>2, <3>1, FlushedIsWhole
  <2>3. Active(w) /\ \A v \in Writers \ {w} : writers[v].pc = "idle"
      BY <1>1, <2>1, OthersIdle DEF Orderly, Active
  <2>4. OneWriter'
      BY <1>4, <2>3 DEF OneWriter, Active
  <2>5. Settled' = Settled /\ Settled \subseteq Inodes \ {i}
    <3>1. Settled' = Settled
        BY <1>1, <1>5 DEF Settled
    <3>2. Settled \subseteq Inodes
        BY <1>0, Types DEF Settled, FileSystems
    <3>3. i \notin Settled
        BY <2>1 DEF Orderly, SettledFiles
    <3> QED
        BY <3>1, <3>2, <3>3
  <2>6. SettledFiles'
      BY <1>1, <1>5, <2>1, <2>5 DEF SettledFiles, Orderly
  <2>7. ReaderOnTrack'
      BY <1>1, <2>1 DEF ReaderOnTrack, Orderly
  <2>8. ASSUME NEW v \in Writers PROVE WriterOnTrack(v)'
    <3>1. CASE v = w
        BY <1>1, <1>3, <1>4, <1>5, <2>2, <3>1 DEF WriterOnTrack
    <3>2. CASE v # w
        BY <1>4, <2>3, <3>2 DEF WriterOnTrack
    <3> QED
        BY <3>1, <3>2
  <2>9. TempIsOwned'
      BY <1>3, <1>4 DEF TempIsOwned
  <2> QED
      BY <2>4, <2>6, <2>7, <2>8, <2>9 DEF Orderly
<1> QED
    BY <1>6, <1>7, <1>8 DEF IndInv

\* Renaming the temporary file onto the target.
LEMMA RenameKeeps ==
    ASSUME IndInv, NEW w \in Writers, rename(w)
    PROVE  IndInv'
<1> DEFINE i == fs.temp
           s == writers[w].snap
           call == [writers[w] EXCEPT !.pc = "renamed"]
<1>0. TypeOK /\ HeadersFirst /\ (~overlapped => Orderly)
    BY DEF IndInv
<1>1. /\ writers[w].pc = "synced"
      /\ i # NoInode
      /\ fs' = [fs EXCEPT !.temp = NoInode, !.target = i]
      /\ writers' = [writers EXCEPT ![w].pc = "renamed"]
      /\ UNCHANGED <<disk, reader, overlapped, writes, crashes>>
    BY DEF rename
<1>2. /\ writers[w] \in Calls /\ CallTyped(writers[w])
      /\ i \in Inodes /\ s \in Snapshots /\ fs \in FileSystems
    BY <1>0, <1>1, Types DEF CallTyped, Calls, FileSystems
<1>3. /\ call \in Calls /\ CallTyped(call)
      /\ call.pc = "renamed" /\ call.snap = s
    BY <1>1, <1>2 DEF Calls, CallTyped
<1>4. /\ writers' \in [Writers -> Calls]
      /\ writers'[w] = call
      /\ \A v \in Writers \ {w} : writers'[v] = writers[v]
  <2>1. writers \in [Writers -> Calls]
      BY <1>0, Types
  <2> QED
      BY <1>1, <1>3, <2>1
<1>5. /\ fs' \in FileSystems
      /\ fs'.temp = NoInode /\ fs'.target = i
      /\ fs'.data = fs.data
    BY <1>1, <1>2 DEF FileSystems
<1>6. TypeOK'
    BY <1>0, <1>1, <1>3, <1>4, <1>5, Types, TypesNext
<1>7. HeadersFirst'
    BY <1>0, <1>1, <1>5 DEF HeadersFirst
<1>8. ASSUME ~overlapped' PROVE Orderly'
  <2>1. ~overlapped /\ Orderly
      BY <1>0, <1>1, <1>8
  <2>2. fs.data[i] = serialize_snapshot(s) /\ disk.data[i] = serialize_snapshot(s)
      BY <1>1, <2>1 DEF Orderly, WriterOnTrack
  <2>3. Active(w) /\ \A v \in Writers \ {w} : writers[v].pc = "idle"
      BY <1>1, <2>1, OthersIdle DEF Orderly, Active
  <2>4. OneWriter'
      BY <1>4, <2>3 DEF OneWriter, Active
  <2>5. SettledFiles'
    <3>1. \A j \in Settled' : j # NoInode /\ (j \in Settled \/ j = i)
        BY <1>1, <1>5 DEF Settled
    <3> QED
        BY <1>1, <1>2, <1>5, <2>1, <2>2, <3>1 DEF SettledFiles, Orderly, Whole
  <2>6. ReaderOnTrack'
      BY <1>1, <1>5, <2>1 DEF ReaderOnTrack, Orderly
  <2>7. ASSUME NEW v \in Writers PROVE WriterOnTrack(v)'
    <3>1. CASE v = w
        BY <1>1, <1>3, <1>4, <1>5, <2>2, <3>1 DEF WriterOnTrack
    <3>2. CASE v # w
        BY <1>4, <2>3, <3>2 DEF WriterOnTrack
    <3> QED
        BY <3>1, <3>2
  <2>8. TempIsOwned'
      BY <1>5 DEF TempIsOwned
  <2> QED
      BY <2>4, <2>5, <2>6, <2>7, <2>8 DEF Orderly
<1> QED
    BY <1>6, <1>7, <1>8 DEF IndInv

\* fail, return and ProcessCrash end a call: nothing changes but that its
\* temporary name may be gone.
LEMMA EndKeeps ==
    ASSUME IndInv, NEW w \in Writers, Active(w),
           writers' = [writers EXCEPT ![w] = IdleWriter],
           fs' \in {fs, [fs EXCEPT !.temp = NoInode]},
           UNCHANGED <<disk, reader, overlapped, writes>>,
           crashes' \in 0 .. MaxCrashes,
           \/ crashes' > 0
           \/ crashes' = crashes /\ (fs'.temp = NoInode \/ writers[w].pc = "renamed")
    PROVE  IndInv'
<1>0. TypeOK /\ HeadersFirst /\ (~overlapped => Orderly)
    BY DEF IndInv
<1>1. /\ fs \in FileSystems
      /\ writers \in [Writers -> Calls]
    BY <1>0, Types
<1>2. /\ writers' \in [Writers -> Calls]
      /\ writers'[w] = IdleWriter /\ writers'[w].pc = "idle"
      /\ \A v \in Writers \ {w} : writers'[v] = writers[v]
      /\ CallTyped(IdleWriter)
    BY <1>1 DEF Calls, IdleWriter, CallTyped
<1>3. /\ fs' \in FileSystems
      /\ fs'.temp \in {fs.temp, NoInode}
      /\ fs'.target = fs.target
      /\ fs'.data = fs.data
    BY <1>1 DEF FileSystems
<1>4. TypeOK'
  <2>1. fs'.temp = fs'.target => fs'.temp = NoInode
      BY <1>0, <1>3, Types
  <2>2. \A v \in Writers : CallTyped(writers'[v])
      BY <1>0, <1>2, Types
  <2> QED
      BY <1>0, <1>2, <1>3, <2>1, <2>2, Types, TypesNext
<1>5. HeadersFirst'
    BY <1>0, <1>3 DEF HeadersFirst
<1>6. ASSUME ~overlapped' PROVE Orderly'
  <2>1. ~overlapped /\ Orderly
      BY <1>0, <1>6
  <2>2. \A v \in Writers : writers'[v].pc = "idle"
      BY <1>2, <2>1, OthersIdle DEF Orderly
  <2>3. OneWriter'
      BY <2>2 DEF OneWriter, Active
  <2>4. SettledFiles'
    <3>1. Settled' = Settled /\ NoInode \notin Settled
        BY <1>3 DEF Settled
    <3> QED
        BY <1>3, <2>1, <3>1 DEF SettledFiles, Orderly
  <2>5. ReaderOnTrack'
      BY <1>3, <2>1 DEF ReaderOnTrack, Orderly
  <2>6. ASSUME NEW v \in Writers PROVE WriterOnTrack(v)'
      BY <2>2 DEF WriterOnTrack
  <2>7. TempIsOwned'
    <3>1. CASE crashes' > 0
        BY <3>1 DEF TempIsOwned
    <3>2. CASE fs'.temp = NoInode
        BY <3>2 DEF TempIsOwned
    <3>3. CASE crashes' = crashes /\ writers[w].pc = "renamed"
      <4>1. \A v \in Writers : writers[v].pc \notin {"writing", "synced"}
          BY <2>1, <3>3, OthersIdle DEF Orderly
      <4> QED
          BY <1>3, <2>1, <3>3, <4>1 DEF TempIsOwned, Orderly
    <3> QED
        BY <3>1, <3>2, <3>3
  <2> QED
      BY <2>3, <2>4, <2>5, <2>6, <2>7 DEF Orderly
<1> QED
    BY <1>4, <1>5, <1>6 DEF IndInv

----------------------------------------------------------------------------
(* Steps of read, of the file system, and the crash of the machine          *)

\* A step of the reader.
LEMMA ReadKeeps ==
    ASSUME IndInv, read
    PROVE  IndInv'
<1> DEFINE i == reader.inode
           d == fs.data[i]
<1>0. TypeOK /\ HeadersFirst /\ (~overlapped => Orderly)
    BY DEF IndInv
<1>1. UNCHANGED <<fs, disk, writers, overlapped, writes, crashes>>
    BY DEF read, read_open, read_chunk, read_return
<1>2. SUFFICES /\ reader' \in [inode: Inodes \cup {NoInode}, seen: Seq(Chunks)]
               /\ HeaderFirst(reader'.seen)
               /\ ~overlapped => ReaderOnTrack'
               /\ reader'.inode \in {NoInode, fs.target, reader.inode}
  <2>1. TypeOK'
      BY <1>0, <1>1, <1>2, Types, TypesNext
  <2>2. HeadersFirst'
      BY <1>0, <1>1, <1>2 DEF HeadersFirst
  <2>3. ASSUME ~overlapped PROVE Orderly'
    <3>1. Settled' \subseteq Settled
        BY <1>1, <1>2 DEF Settled
    <3>2. OneWriter' /\ TempIsOwned' /\ \A w \in Writers : WriterOnTrack(w)'
        BY <1>0, <1>1, <2>3 DEF Orderly, OneWriter, Active, TempIsOwned, WriterOnTrack
    <3>3. SettledFiles'
        BY <1>0, <1>1, <2>3, <3>1 DEF Orderly, SettledFiles
    <3> QED
        BY <1>2, <2>3, <3>2, <3>3 DEF Orderly
  <2> QED
      BY <1>1, <2>1, <2>2, <2>3 DEF IndInv
<1>3. /\ reader \in [inode: Inodes \cup {NoInode}, seen: Seq(Chunks)]
      /\ fs \in FileSystems
    BY <1>0, Types
<1>4. CASE read_open
  <2>1. reader'.inode = fs.target /\ reader'.seen = <<>>
      BY <1>4 DEF read_open
  <2>2. fs.target \in Inodes
      BY <1>3, <1>4 DEF read_open, FileSystems
  <2>3. reader' \in [inode: Inodes \cup {NoInode}, seen: Seq(Chunks)]
      BY <1>4, <2>2 DEF read_open
  <2>4. ReaderOnTrack'
    <3>1. Len(fs.data[fs.target]) \in Nat
        BY <1>3, <2>2 DEF FileSystems
    <3> QED
        BY <1>1, <2>1, <3>1 DEF ReaderOnTrack
  <2> QED
      BY <2>1, <2>3, <2>4 DEF HeaderFirst
<1>5. CASE read_chunk
  <2> DEFINE n == Len(reader.seen) + 1
             seen == Append(reader.seen, d[n])
  <2>1. /\ i \in Inodes
        /\ reader' = [reader EXCEPT !.seen = seen]
        /\ ~(Len(reader.seen) >= Len(d))
      BY <1>3, <1>5 DEF read_chunk, AtEnd
  <2>2. d \in Seq(Chunks) /\ Len(d) \in Nat /\ reader.seen \in Seq(Chunks)
      BY <1>3, <2>1 DEF FileSystems
  <2> HIDE DEF d
  <2>3. n \in 1 .. Len(d) /\ d[n] \in Chunks
      BY <2>1, <2>2
  <2>4. /\ seen \in Seq(Chunks) /\ Len(seen) = n
        /\ \A k \in 1 .. n : seen[k] = IF k < n THEN reader.seen[k] ELSE d[n]
      BY <2>2, <2>3
  <2> HIDE DEF seen
  <2>5. reader'.inode = i /\ reader'.seen = seen
      BY <1>3, <2>1
  <2>6. reader' \in [inode: Inodes \cup {NoInode}, seen: Seq(Chunks)]
      BY <1>3, <2>1, <2>4
  <2>7. HeaderFirst(seen)
    <3>1. HeaderFirst(d) /\ HeaderFirst(reader.seen)
        BY <1>0, <2>1 DEF HeadersFirst, d
    <3>2. SUFFICES ASSUME NEW j \in 1 .. 4, j <= Len(seen)
                   PROVE  seen[j] = Hole \/ \E x \in Snapshots : seen[j] = Header(x)[j]
        BY DEF HeaderFirst
    <3>3. CASE j < n
      <4>1. seen[j] = reader.seen[j] /\ j <= Len(reader.seen)
          BY <2>2, <2>3, <2>4, <3>2, <3>3
      <4> QED
          BY <3>1, <4>1 DEF HeaderFirst
    <3>4. CASE j = n
      <4>1. seen[j] = d[j] /\ j <= Len(d)
          BY <2>2, <2>3, <2>4, <3>4
      <4> QED
          BY <3>1, <4>1 DEF HeaderFirst
    <3> QED
        BY <2>2, <2>4, <3>2, <3>3, <3>4
  <2>8. ASSUME ~overlapped PROVE ReaderOnTrack'
    <3>1. \A k \in 1 .. Len(reader.seen) : reader.seen[k] = d[k]
        BY <1>0, <2>1, <2>8, SnapshotAssumption DEF Orderly, ReaderOnTrack, d
    <3>2. Len(seen) <= Len(d) /\ \A k \in 1 .. Len(seen) : seen[k] = d[k]
      <4>1. ASSUME NEW k \in 1 .. n PROVE seen[k] = d[k]
        <5>1. CASE k < n
          <6>1. k \in 1 .. Len(reader.seen)
              BY <2>2, <5>1
          <6> QED
              BY <2>4, <3>1, <5>1, <6>1
        <5>2. CASE k = n
            BY <2>4, <5>2
        <5> QED
            BY <2>2, <5>1, <5>2
      <4> QED
          BY <2>3, <2>4, <4>1
    <3> QED
        BY <1>1, <2>5, <3>2 DEF ReaderOnTrack, d
  <2> QED
      BY <2>5, <2>6, <2>7, <2>8
<1>6. CASE read_return
    BY <1>6 DEF read_return, IdleReader, HeaderFirst, ReaderOnTrack
<1> QED
    BY <1>4, <1>5, <1>6 DEF read

\* The kernel writes the names back.
LEMMA WritebackNamesKeeps ==
    ASSUME IndInv, WritebackNames
    PROVE  IndInv'
<1>0. TypeOK /\ HeadersFirst /\ (~overlapped => Orderly)
    BY DEF IndInv
<1>1. UNCHANGED <<fs, writers, reader, overlapped, writes, crashes>>
    BY DEF WritebackNames
<1>2. /\ disk' \in FileSystems
      /\ disk'.temp = fs.temp /\ disk'.target = fs.target
      /\ disk'.data = disk.data
    BY <1>0, Types DEF WritebackNames, FileSystems
<1>3. TypeOK'
    BY <1>0, <1>1, <1>2, Types, TypesNext
<1>4. HeadersFirst'
    BY <1>0, <1>1, <1>2 DEF HeadersFirst
<1>5. ASSUME ~overlapped PROVE Orderly'
  <2>1. Settled' \subseteq Settled
      BY <1>1, <1>2 DEF Settled
  <2>2. OneWriter' /\ TempIsOwned' /\ ReaderOnTrack'
      BY <1>0, <1>1, <1>5
         DEF Orderly, OneWriter, Active, TempIsOwned, ReaderOnTrack
  <2>3. \A w \in Writers : WriterOnTrack(w)'
      BY <1>0, <1>1, <1>2, <1>5 DEF Orderly, WriterOnTrack
  <2>4. SettledFiles'
      BY <1>0, <1>1, <1>2, <1>5, <2>1 DEF Orderly, SettledFiles
  <2> QED
      BY <2>2, <2>3, <2>4 DEF Orderly
<1> QED
    BY <1>1, <1>3, <1>4, <1>5 DEF IndInv

\* The kernel writes the data of a file back.
LEMMA WritebackDataKeeps ==
    ASSUME IndInv, NEW i \in Inodes, WritebackData(i)
    PROVE  IndInv'
<1>0. TypeOK /\ HeadersFirst /\ (~overlapped => Orderly)
    BY DEF IndInv
<1>1. UNCHANGED <<fs, writers, reader, overlapped, writes, crashes>>
    BY DEF WritebackData
<1>2. /\ disk' \in FileSystems
      /\ disk'.temp = disk.temp /\ disk'.target = disk.target
      /\ disk'.data[i] = fs.data[i]
      /\ \A j \in Inodes \ {i} : disk'.data[j] = disk.data[j]
    BY <1>0, Types DEF WritebackData, FileSystems
<1>3. TypeOK'
    BY <1>0, <1>1, <1>2, Types, TypesNext
<1>4. HeadersFirst'
    BY <1>0, <1>1, <1>2 DEF HeadersFirst
<1>5. ASSUME ~overlapped PROVE Orderly'
  <2>1. Settled' = Settled /\ Settled \subseteq Inodes
      BY <1>0, <1>1, <1>2, Types DEF Settled, FileSystems
  <2>2. OneWriter' /\ TempIsOwned' /\ ReaderOnTrack'
      BY <1>0, <1>1, <1>5
         DEF Orderly, OneWriter, Active, TempIsOwned, ReaderOnTrack
  <2>3. ASSUME NEW w \in Writers PROVE WriterOnTrack(w)'
    <3>1. WriterOnTrack(w)
        BY <1>0, <1>5 DEF Orderly
    <3>2. writers[w].pc # "idle" => writers[w].inode \in Inodes
        BY <1>0, Types DEF CallTyped
    <3> QED
        BY <1>1, <1>2, <3>1, <3>2 DEF WriterOnTrack
  <2>4. SettledFiles'
      BY <1>0, <1>1, <1>2, <1>5, <2>1 DEF Orderly, SettledFiles
  <2> QED
      BY <2>2, <2>3, <2>4 DEF Orderly
<1> QED
    BY <1>1, <1>3, <1>4, <1>5 DEF IndInv

\* A crash of the machine leaves what is on the disk.
LEMMA MachineCrashKeeps ==
    ASSUME IndInv, MachineCrash
    PROVE  IndInv'
<1>0. TypeOK /\ HeadersFirst /\ (~overlapped => Orderly)
    BY DEF IndInv
<1>1. /\ fs' = disk /\ disk' = disk
      /\ writers' = [w \in Writers |-> IdleWriter]
      /\ reader' = IdleReader
      /\ overlapped' = overlapped /\ writes' = writes
    BY DEF MachineCrash
<1>2. crashes' \in 0 .. MaxCrashes /\ crashes' > 0
    BY <1>0, Types, SnapshotAssumption DEF MachineCrash, Crash
<1>3. /\ writers' \in [Writers -> Calls]
      /\ \A w \in Writers : writers'[w].pc = "idle" /\ CallTyped(writers'[w])
    BY <1>1 DEF IdleWriter, Calls, CallTyped
<1>4. /\ reader' \in [inode: Inodes \cup {NoInode}, seen: Seq(Chunks)]
      /\ reader'.inode = NoInode /\ reader'.seen = <<>>
    BY <1>1 DEF IdleReader
<1>5. TypeOK'
    BY <1>0, <1>1, <1>2, <1>3, <1>4, Types, TypesNext
<1>6. HeadersFirst'
    BY <1>0, <1>1, <1>4 DEF HeadersFirst, HeaderFirst
<1>7. ASSUME ~overlapped PROVE Orderly'
  <2>1. \A i \in Settled' : i = disk.target /\ i \in Settled
      BY <1>1, <1>4 DEF Settled
  <2>2. disk.target # NoInode => disk.target # disk.temp
      BY <1>0, Types
  <2>3. SettledFiles'
      BY <1>0, <1>1, <1>7, <2>1, <2>2 DEF Orderly, SettledFiles, Settled
  <2>4. OneWriter' /\ TempIsOwned' /\ ReaderOnTrack'
      BY <1>2, <1>3, <1>4 DEF OneWriter, Active, TempIsOwned, ReaderOnTrack
  <2>5. \A w \in Writers : WriterOnTrack(w)'
      BY <1>3 DEF WriterOnTrack
  <2> QED
      BY <2>3, <2>4, <2>5 DEF Orderly
<1> QED
    BY <1>1, <1>5, <1>6, <1>7 DEF IndInv

----------------------------------------------------------------------------
(* The invariant and what follows from it                                   *)

\* The invariant holds of an empty directory.
LEMMA InitIndInv == Init => IndInv
<1> SUFFICES ASSUME Init PROVE IndInv
    OBVIOUS
<1>1. /\ fs.temp = NoInode /\ fs.target = NoInode /\ disk = fs
      /\ fs \in FileSystems
      /\ \A i \in Inodes : fs.data[i] = <<>>
    BY DEF Init, FileSystems
<1>2. /\ writers \in [Writers -> Calls]
      /\ \A w \in Writers : writers[w].pc = "idle" /\ CallTyped(writers[w])
    BY DEF Init, IdleWriter, Calls, CallTyped
<1>3. /\ reader \in [inode: Inodes \cup {NoInode}, seen: Seq(Chunks)]
      /\ reader.inode = NoInode /\ reader.seen = <<>>
    BY DEF Init, IdleReader
<1>4. /\ overlapped \in BOOLEAN /\ writes \in 0 .. MaxWrites
      /\ crashes \in 0 .. MaxCrashes
  <2>1. overlapped \in BOOLEAN
      BY DEF Init
  <2>2. writes \in 0 .. MaxWrites /\ crashes \in 0 .. MaxCrashes
      BY SnapshotAssumption DEF Init
  <2> QED
      BY <2>1, <2>2
<1>5. TypeOK
    BY <1>1, <1>2, <1>3, <1>4, Types
<1>6. HeadersFirst
    BY <1>1, <1>3 DEF HeadersFirst, HeaderFirst
<1>7. Orderly
  <2>1. Settled = {}
      BY <1>1, <1>3 DEF Settled
  <2> QED
      BY <1>1, <1>2, <1>3, <2>1 DEF Orderly, OneWriter, Active, SettledFiles,
         ReaderOnTrack, WriterOnTrack, TempIsOwned
<1> QED
    BY <1>5, <1>6, <1>7 DEF IndInv

\* Every step of the store keeps the invariant.
LEMMA NextIndInv == IndInv /\ [Next]_vars => IndInv'
<1> SUFFICES ASSUME IndInv, [Next]_vars PROVE IndInv'
    OBVIOUS
<1>1. ASSUME NEW w \in Writers, NEW s \in Snapshots, open(w, s) PROVE IndInv'
    BY <1>1, OpenKeeps
<1>2. ASSUME NEW w \in Writers, WriteChunk(w) PROVE IndInv'
    BY <1>2, ChunkKeeps
<1>3. ASSUME NEW w \in Writers, sync_file_descriptor(w) PROVE IndInv'
    BY <1>3, SyncKeeps
<1>4. ASSUME NEW w \in Writers, rename(w) PROVE IndInv'
    BY <1>4, RenameKeeps
<1>5. crashes \in 0 .. MaxCrashes
    BY Types DEF IndInv
<1>6. ASSUME NEW w \in Writers, fail(w) PROVE IndInv'
  <2>1. fs'.temp = NoInode
      BY <1>6, Types DEF fail, IndInv, FileSystems
  <2> QED
      BY <1>5, <1>6, <2>1, EndKeeps DEF fail, Active
<1>7. ASSUME NEW w \in Writers, return(w) PROVE IndInv'
    BY <1>5, <1>7, EndKeeps DEF return, Active
<1>8. ASSUME NEW w \in Writers, ProcessCrash(w) PROVE IndInv'
  <2>1. crashes' \in 0 .. MaxCrashes /\ crashes' > 0
      BY <1>5, <1>8, SnapshotAssumption DEF ProcessCrash, Crash
  <2> QED
      BY <1>8, <2>1, EndKeeps DEF ProcessCrash, Active
<1>9. CASE read
    BY <1>9, ReadKeeps
<1>10. CASE WritebackNames
    BY <1>10, WritebackNamesKeeps
<1>11. ASSUME NEW i \in Inodes, WritebackData(i) PROVE IndInv'
    BY <1>11, WritebackDataKeeps
<1>12. CASE MachineCrash
    BY <1>12, MachineCrashKeeps
<1>13. CASE UNCHANGED vars
  <2>1. TypeOK' /\ HeadersFirst'
      BY <1>13 DEF IndInv, vars, TypeOK, HeadersFirst
  <2>2. ASSUME ~overlapped PROVE Orderly'
    <3>1. Orderly /\ Settled' = Settled
        BY <1>13, <2>2 DEF IndInv, vars, Settled
    <3>2. OneWriter' /\ SettledFiles' /\ ReaderOnTrack' /\ TempIsOwned'
        BY <1>13, <3>1 DEF vars, Orderly, OneWriter, Active, SettledFiles,
           ReaderOnTrack, TempIsOwned
    <3>3. \A w \in Writers : WriterOnTrack(w)'
        BY <1>13, <3>1 DEF vars, Orderly, WriterOnTrack
    <3> QED
        BY <3>2, <3>3 DEF Orderly
  <2> QED
      BY <1>13, <2>1, <2>2 DEF IndInv, vars
<1> QED
    BY <1>1, <1>2, <1>3, <1>4, <1>6, <1>7, <1>8, <1>9, <1>10, <1>11, <1>12, <1>13
       DEF Next, write

\* The inductive invariant holds in every state of the store.
THEOREM IndInvHolds == Spec => []IndInv
    BY InitIndInv, NextIndInv, PTL DEF Spec

\* Both copies of the file system and the calls keep their types, overlapping
\* writes and crashes included.
THEOREM TypeCorrect == Spec => []TypeOK
<1>1. IndInv => TypeOK
    BY DEF IndInv
<1> QED
    BY IndInvHolds, <1>1, PTL

\* read returns a record that was written while writes do not overlap; however
\* writers share the temporary file, the payload it returns was written whole.
THEOREM ReadsStayWhole == Spec => []ReadsAreWhole
<1>1. IndInv => ReadsAreWhole
  <2> DEFINE result == parse_snapshot_record(reader.seen)
  <2> SUFFICES ASSUME IndInv, reader.inode # NoInode, AtEnd
               PROVE  IF overlapped
                      THEN \/ result = Damaged
                           \/ \E s \in Snapshots : result.payload = s.payload
                      ELSE result \in Snapshots
      BY DEF ReadsAreWhole
  <2>0. TypeOK /\ HeadersFirst /\ (~overlapped => Orderly)
      BY DEF IndInv
  <2>1. reader.seen \in Seq(Chunks) /\ reader.inode \in Inodes /\ fs \in FileSystems
      BY <2>0, Types
  <2>2. CASE overlapped
      BY <2>0, <2>1, <2>2, ParseFinds DEF HeadersFirst
  <2>3. CASE ~overlapped
    <3> DEFINE d == fs.data[reader.inode]
    <3>1. /\ d \in Seq(Chunks)
          /\ Len(reader.seen) <= Len(d)
          /\ Len(reader.seen) >= Len(d)
          /\ \A k \in 1 .. Len(reader.seen) : reader.seen[k] = d[k]
        BY <2>0, <2>1, <2>3 DEF Orderly, ReaderOnTrack, AtEnd, FileSystems
    <3>2. PICK s \in Snapshots : d = serialize_snapshot(s)
        BY <2>0, <2>1, <2>3, SnapshotAssumption
           DEF Orderly, SettledFiles, Settled, Whole
    <3> HIDE DEF d
    <3>3. reader.seen = d
      <4>1. Len(reader.seen) = Len(d)
          BY <2>1, <3>1
      <4> QED
          BY <2>1, <3>1, <4>1, SeqEqual
    <3> QED
        BY <3>2, <3>3, ParseWhole
  <2> QED
      BY <2>2, <2>3
<1> QED
    BY IndInvHolds, <1>1, PTL

\* A write that overlapped no other and is about to return true has installed
\* its own record.
THEOREM AckedStaysInstalled == Spec => []AckedIsInstalled
<1>1. IndInv => AckedIsInstalled
  <2> SUFFICES ASSUME IndInv, NEW w \in Writers,
                      writers[w].pc = "renamed", ~overlapped
               PROVE  Visible(fs) = writers[w].snap
      BY DEF AckedIsInstalled
  <2>1. writers[w].snap \in Snapshots
      BY Types DEF IndInv, CallTyped
  <2>2. /\ fs.target # NoInode
        /\ fs.data[fs.target] = serialize_snapshot(writers[w].snap)
      BY DEF IndInv, Orderly, WriterOnTrack
  <2> QED
      BY <2>1, <2>2, ParseWhole DEF Visible
<1> QED
    BY IndInvHolds, <1>1, PTL

\* A write that fails removes the temporary name, at whichever step it fails.
THEOREM FailureCleansUp == Spec => []FailureLeavesNoTemp
<1>1. IndInv => FailureLeavesNoTemp
    BY DEF IndInv, Orderly, TempIsOwned, FailureLeavesNoTemp
<1> QED
    BY IndInvHolds, <1>1, PTL

----------------------------------------------------------------------------
(* The store implements an atomic one                                       *)

\* As long as no two writes overlap, every step of the store is a step of
\* AtomicSnapshot or leaves what is visible, now and after a crash, as it is.
LEMMA StepIsAtomic ==
    ASSUME IndInv, [Next]_vars, ~overlapped'
    PROVE  \/ Atomic!Next
           \/ UNCHANGED <<Visible(fs), Visible(disk)>>
<1>1. ~overlapped
    BY DEF Next, write, vars, open, WriteChunk, sync_file_descriptor, rename, fail,
           return, ProcessCrash, read, read_open, read_chunk, read_return,
           WritebackNames, WritebackData, MachineCrash
<1>2. /\ TypeOK /\ Orderly
      /\ fs \in FileSystems /\ disk \in FileSystems
    BY <1>1, Types DEF IndInv
<1>3. /\ fs.target # NoInode =>
            /\ fs.target \in Inodes /\ fs.target # fs.temp
            /\ disk.data[fs.target] = fs.data[fs.target]
      /\ disk.target # NoInode =>
            /\ disk.target \in Inodes /\ disk.target # fs.temp
            /\ disk.data[disk.target] = fs.data[disk.target]
    BY <1>2 DEF Orderly, SettledFiles, Settled, FileSystems
<1> DEFINE Still == UNCHANGED <<Visible(fs), Visible(disk)>>
<1>4. ASSUME fs'.target = fs.target, disk'.target = disk.target,
             fs.target # NoInode => fs'.data[fs.target] = fs.data[fs.target],
             disk.target # NoInode => disk'.data[disk.target] = disk.data[disk.target]
      PROVE  Still
    BY <1>4 DEF Visible
<1> HIDE DEF Still
<1>5. ASSUME UNCHANGED disk, fs'.target = fs.target, fs'.data = fs.data
      PROVE  Still
    BY <1>4, <1>5
<1>6. ASSUME NEW w \in Writers, NEW s \in Snapshots, open(w, s) PROVE Still
  <2>1. PICK i \in IF fs.temp # NoInode THEN {fs.temp} ELSE FreeInodes :
          /\ fs' = [fs EXCEPT !.temp = i, !.data[i] = <<>>]
          /\ disk' = IF fs.temp = NoInode THEN [disk EXCEPT !.data[i] = <<>>] ELSE disk
      BY <1>6 DEF open
  <2>2. i \notin {fs.target, disk.target}
    <3>1. CASE fs.temp # NoInode
        BY <1>3, <2>1, <3>1
    <3>2. CASE fs.temp = NoInode
        BY <2>1, <3>2 DEF FreeInodes
    <3> QED
        BY <3>1, <3>2
  <2>3. /\ fs'.target = fs.target
        /\ fs.target # NoInode => fs'.data[fs.target] = fs.data[fs.target]
      BY <1>2, <1>3, <2>1, <2>2 DEF FileSystems
  <2>4. /\ disk'.target = disk.target
        /\ disk.target # NoInode => disk'.data[disk.target] = disk.data[disk.target]
      BY <1>2, <1>3, <2>1, <2>2 DEF FileSystems
  <2> QED
      BY <1>4, <2>3, <2>4
<1>7. ASSUME NEW w \in Writers, WriteChunk(w) PROVE Still
  <2>1. PICK d : fs' = [fs EXCEPT !.data[writers[w].inode] = d]
      BY <1>7 DEF WriteChunk
  <2>2. writers[w].inode = fs.temp /\ disk' = disk
      BY <1>2, <1>7 DEF WriteChunk, Orderly, WriterOnTrack
  <2>3. /\ fs'.target = fs.target
        /\ fs.target # NoInode => fs'.data[fs.target] = fs.data[fs.target]
      BY <1>2, <1>3, <2>1, <2>2 DEF FileSystems
  <2> QED
      BY <1>4, <2>2, <2>3
<1>8. ASSUME NEW w \in Writers, sync_file_descriptor(w) PROVE Still
  <2>1. /\ disk'.target = disk.target
        /\ disk.target # NoInode => disk'.data[disk.target] = disk.data[disk.target]
      BY <1>2, <1>3, <1>8 DEF sync_file_descriptor, FileSystems
  <2>2. fs' = fs
      BY <1>8 DEF sync_file_descriptor
  <2> QED
      BY <1>4, <2>1, <2>2
<1>9. ASSUME NEW w \in Writers, rename(w) PROVE Atomic!Next
  <2> DEFINE s == writers[w].snap
  <2>1. s \in Snapshots
      BY <1>2, <1>9, Types DEF rename, CallTyped
  <2>2. fs.data[fs.temp] = serialize_snapshot(s) /\ fs.temp # NoInode
      BY <1>2, <1>9 DEF rename, Orderly, WriterOnTrack
  <2>3. fs'.target = fs.temp /\ fs'.data = fs.data /\ disk' = disk
      BY <1>2, <1>9 DEF rename, FileSystems
  <2>4. Visible(fs') = s
      BY <2>1, <2>2, <2>3, ParseWhole DEF Visible
  <2>5. Visible(fs)' = s /\ Visible(disk)' = Visible(disk)
      BY <2>3, <2>4 DEF Visible
  <2> HIDE DEF s
  <2> QED
      BY <2>1, <2>5 DEF Atomic!Next, Atomic!Install
<1>10. ASSUME NEW w \in Writers, fail(w) PROVE Still
  <2>1. fs'.target = fs.target /\ fs'.data = fs.data /\ disk' = disk
      BY <1>2, <1>10 DEF fail, FileSystems
  <2> QED
      BY <1>5, <2>1
<1>11. ASSUME \/ \E w \in Writers : return(w) \/ ProcessCrash(w)
              \/ read
              \/ UNCHANGED vars
       PROVE  Still
  <2>1. fs' = fs /\ disk' = disk
      BY <1>11 DEF return, ProcessCrash, read, read_open, read_chunk, read_return, vars
  <2> QED
      BY <1>5, <2>1
<1>12. ASSUME WritebackNames PROVE Atomic!Next
  <2>1. disk'.target = fs.target /\ disk'.data = disk.data /\ fs' = fs
      BY <1>2, <1>12 DEF WritebackNames, FileSystems
  <2>2. Visible(disk)' = Visible(fs) /\ Visible(fs)' = Visible(fs)
      BY <1>3, <2>1 DEF Visible
  <2> QED
      BY <2>2 DEF Atomic!Next, Atomic!Settle
<1>13. ASSUME NEW i \in Inodes, WritebackData(i) PROVE Still
  <2>1. /\ fs' = fs
        /\ disk'.target = disk.target
        /\ disk.target # NoInode => disk'.data[disk.target] = disk.data[disk.target]
      BY <1>2, <1>3, <1>13 DEF WritebackData, FileSystems
  <2> QED
      BY <1>4, <2>1
<1>14. ASSUME MachineCrash PROVE Atomic!Next
  <2>1. fs' = disk /\ disk' = disk
      BY <1>14 DEF MachineCrash
  <2>2. Visible(fs)' = Visible(disk) /\ Visible(disk)' = Visible(disk)
      BY <2>1 DEF Visible
  <2> QED
      BY <2>2 DEF Atomic!Next, Atomic!Crash
<1> QED
    BY <1>6, <1>7, <1>8, <1>9, <1>10, <1>11, <1>12, <1>13, <1>14
       DEF Next, write, Still

\* The store is a refinement of AtomicSnapshot until two writes overlap: under
\* the mapping current <- Visible(fs), stable <- Visible(disk) it starts as an
\* atomic store and takes the steps of one.
THEOREM StoreIsAtomic == Spec => AtomicUnlessOverlapped
<1>1. Init => Atomic!Init
    BY DEF Init, Atomic!Init, Visible
<1>2. IndInv /\ [Next]_vars
        => [Atomic!Next \/ overlapped']_<<Visible(fs), Visible(disk)>>
    BY StepIsAtomic
<1> QED
    BY <1>1, <1>2, IndInvHolds, PTL DEF Spec, AtomicUnlessOverlapped
=============================================================================
