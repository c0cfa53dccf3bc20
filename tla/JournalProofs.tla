--------------------------- MODULE JournalProofs ---------------------------
(***************************************************************************)
(* The invariants of FileJournal, for every set of records and every bound *)
(* on batches, pieces and faults.                                          *)
(*                                                                         *)
(* What read_all sees is an enumeration of the pieces that end a line; the *)
(* first part shows that LineEnds is that enumeration.  The second part    *)
(* shows where the acknowledged records are in a copy of the file, which   *)
(* is inductive, and the third what read_all makes of it.                  *)
(***************************************************************************)
EXTENDS FileJournal, TLAPS, FiniteSetTheorems, WellFoundedInduction, SequenceTheorems

----------------------------------------------------------------------------
(* The elements of a finite set of numbers, counted from the smallest       *)

\* How many elements of E there are up to e.
Rank(E, e) == Cardinality({i \in E : i <= e})

\* The ranks of the elements of E are the numbers from 1 to its cardinality,
\* in the order of the elements.
LEMMA RankFacts ==
    ASSUME NEW n \in Nat, NEW E, E \subseteq 1 .. n
    PROVE  /\ IsFiniteSet(E)
           /\ Cardinality(E) \in Nat
           /\ \A e \in E : Rank(E, e) \in 1 .. Cardinality(E)
           /\ \A d, e \in E : d < e => Rank(E, d) < Rank(E, e)
           /\ \A k \in 1 .. Cardinality(E) : \E e \in E : Rank(E, e) = k
<1>1. IsFiniteSet(E) /\ Cardinality(E) \in Nat
  <2>1. IsFiniteSet(1 .. n)
      BY FS_Interval
  <2> QED
      BY <2>1, FS_Subset, FS_CardinalityType
<1> DEFINE upto(e) == {i \in E : i <= e}
<1>2. ASSUME NEW e \in E
      PROVE  /\ IsFiniteSet(upto(e))
             /\ Cardinality(upto(e)) \in Nat
             /\ Cardinality(upto(e)) <= Cardinality(E)
             /\ Cardinality(upto(e)) # 0
  <2>1. upto(e) \in SUBSET E /\ e \in upto(e)
      OBVIOUS
  <2> HIDE DEF upto
  <2>2. IsFiniteSet(upto(e)) /\ Cardinality(upto(e)) <= Cardinality(E)
      BY <1>1, <2>1, FS_Subset
  <2> QED
      BY <2>1, <2>2, FS_CardinalityType, FS_EmptySet
<1>3. \A e \in E : Rank(E, e) \in 1 .. Cardinality(E)
  <2>1. \A e \in E : Rank(E, e) = Cardinality(upto(e))
      BY DEF Rank
  <2> HIDE DEF upto
  <2> QED
      BY <1>1, <1>2, <2>1
<1>4. ASSUME NEW d \in E, NEW e \in E, d < e PROVE Rank(E, d) < Rank(E, e)
  <2>1. upto(d) \subseteq upto(e) /\ e \in upto(e) /\ e \notin upto(d)
    <3>1. e \in Int /\ d \in Int /\ \A i \in E : i \in Int
        OBVIOUS
    <3>2. \A i \in E : i <= d => i <= e
        BY <1>4, <3>1
    <3>3. ~(e <= d) /\ e <= e
        BY <1>4, <3>1
    <3> QED
        BY <3>2, <3>3
  <2>2. Rank(E, d) = Cardinality(upto(d)) /\ Rank(E, e) = Cardinality(upto(e))
      BY DEF Rank
  <2> HIDE DEF upto
  <2>3. Cardinality(upto(d)) <= Cardinality(upto(e))
      BY <1>2, <2>1, FS_Subset
  <2>4. Cardinality(upto(d)) # Cardinality(upto(e))
      BY <1>2, <2>1, FS_Subset
  <2> QED
      BY <1>2, <2>2, <2>3, <2>4
<1>5. ASSUME NEW k \in 1 .. Cardinality(E) PROVE \E e \in E : Rank(E, e) = k
  <2> DEFINE T == 1 .. Cardinality(E)
             f == [e \in E |-> Rank(E, e)]
  <2>1. IsFiniteSet(T) /\ Cardinality(T) = Cardinality(E)
      BY <1>1, FS_Interval
  <2>2. f \in [E -> T]
      BY <1>3
  <2>3. \A d, e \in E : f[d] = f[e] => d = e
    <3>1. \A d, e \in E : d # e => d < e \/ e < d
        OBVIOUS
    <3>2. \A d, e \in E : d < e => f[d] < f[e]
        BY <1>4
    <3>3. \A e \in E : f[e] \in Int
        BY <1>3, <1>1
    <3> HIDE DEF f
    <3> QED
        BY <3>1, <3>2, <3>3
  <2> HIDE DEF f, T
  <2>4. f \in Injection(E, T)
      BY <2>2, <2>3 DEF Injection, IsInjective
  <2>5. f \in Surjection(E, T)
      BY <2>1, <2>4, FS_Injection
  <2>6. \E e \in E : f[e] = k
      BY <2>5 DEF Surjection, T
  <2> QED
      BY <2>6 DEF f
<1> QED
    BY <1>1, <1>3, <1>4, <1>5

\* The smallest element of a set of natural numbers.
LEMMA MinFacts ==
    ASSUME NEW S, S \subseteq Nat, S # {}
    PROVE  /\ Min(S) \in S
           /\ \A x \in S : Min(S) <= x
<1> DEFINE R == OpToRel(<, Nat)
<1>1. IsWellFoundedOn(R, Nat)
    BY NatLessThanWellFounded
<1>2. \A x, y \in Nat : x < y => <<x, y>> \in R
    BY DEF OpToRel
<1> HIDE DEF R
<1>3. PICK x \in S : \A y \in S : ~(<<y, x>> \in R)
    BY <1>1, WFMin
<1>4. ASSUME NEW y \in S PROVE x <= y
  <2>1. x \in Nat /\ y \in Nat /\ ~(y < x)
      BY <1>2, <1>3
  <2> QED
      BY <2>1
<1> QED
    BY <1>4 DEF Min

\* The largest element of a bounded set of natural numbers.
LEMMA MaxFacts ==
    ASSUME NEW n \in Nat, NEW S, S \subseteq 0 .. n, S # {}
    PROVE  Max(S) \in S
<1> DEFINE T == {n - x : x \in S}
<1>1. T \subseteq Nat /\ T # {}
  <2>1. \A x \in 0 .. n : n - x \in Nat
      OBVIOUS
  <2>2. \A x \in S : n - x \in T
      OBVIOUS
  <2>3. \A y \in T : \E x \in S : y = n - x
      OBVIOUS
  <2> HIDE DEF T
  <2> QED
      BY <2>1, <2>2, <2>3
<1>2. Min(T) \in T /\ \A y \in T : Min(T) <= y
  <2> HIDE DEF T
  <2> QED
      BY <1>1, MinFacts
<1>3. PICK m \in S : Min(T) = n - m
    BY <1>2
<1>4. \A x \in S : n - m <= n - x
    BY <1>2, <1>3
<1> HIDE DEF T
<1>5. \A x \in S : m >= x
    BY <1>4
<1> QED
    BY <1>5 DEF Max
----------------------------------------------------------------------------
(* The lines of a file                                                      *)

\* LineEnds lists the pieces that end a line, in file order.
LEMMA LineEndsFacts ==
    ASSUME NEW d \in Seq(Pieces)
    PROVE  /\ Cardinality(Ends(d)) \in Nat
           /\ DOMAIN LineEnds(d) = 1 .. Cardinality(Ends(d))
           /\ Len(LineEnds(d)) = Cardinality(Ends(d))
           /\ \A k \in DOMAIN LineEnds(d) :
                 LineEnds(d)[k] \in Ends(d) /\ Rank(Ends(d), LineEnds(d)[k]) = k
           /\ \A e \in Ends(d) :
                 /\ Rank(Ends(d), e) \in DOMAIN LineEnds(d)
                 /\ LineEnds(d)[Rank(Ends(d), e)] = e
           /\ \A e, f \in Ends(d) : e < f => Rank(Ends(d), e) < Rank(Ends(d), f)
<1> DEFINE E == Ends(d)
           n == Cardinality(E)
<1>1. Len(d) \in Nat /\ E \subseteq 1 .. Len(d)
    BY DEF Ends
<1>2. LineEnds(d) = [j \in 1 .. n |-> CHOOSE x \in E : Rank(E, x) = j]
    BY DEF LineEnds, Rank
<1> HIDE DEF E
<1>3. /\ n \in Nat
      /\ \A e \in E : Rank(E, e) \in 1 .. n
      /\ \A e, f \in E : e < f => Rank(E, e) < Rank(E, f)
      /\ \A k \in 1 .. n : \E e \in E : Rank(E, e) = k
    BY <1>1, RankFacts
<1> HIDE DEF n
<1>4. DOMAIN LineEnds(d) = 1 .. n /\ Len(LineEnds(d)) = n
    BY <1>2, <1>3
<1>5. ASSUME NEW k \in 1 .. n
      PROVE  LineEnds(d)[k] \in E /\ Rank(E, LineEnds(d)[k]) = k
    BY <1>2, <1>3
<1>6. ASSUME NEW e \in E
      PROVE  Rank(E, e) \in 1 .. n /\ LineEnds(d)[Rank(E, e)] = e
  <2> DEFINE k == Rank(E, e)
             f == LineEnds(d)[k]
  <2>1. k \in 1 .. n
      BY <1>3
  <2>2. f \in E /\ Rank(E, f) = k
      BY <1>5, <2>1
  <2>3. Rank(E, e) = k
      OBVIOUS
  <2> HIDE DEF k, f
  <2>4. e \in Int /\ f \in Int /\ k \in Int
      BY <1>1, <1>3, <2>1, <2>2
  <2>5. ~(e < f) /\ ~(f < e)
    <3>1. ~(k < k)
        BY <2>4
    <3> QED
        BY <1>3, <2>2, <2>3, <3>1
  <2>6. e = f
      BY <2>4, <2>5
  <2> QED
      BY <2>1, <2>6 DEF k, f
<1> QED
    BY <1>3, <1>4, <1>5, <1>6 DEF E, n

\* The last line is the one that ends with the last piece.
LEMMA LastLine ==
    ASSUME NEW d \in Seq(Pieces), NEW k \in DOMAIN LineEnds(d),
           LineEnds(d)[k] = Len(d)
    PROVE  k = Len(LineEnds(d))
<1> DEFINE E == Ends(d)
<1>1. Rank(E, Len(d)) = k
    BY LineEndsFacts
<1>2. {i \in E : i <= Len(d)} = E
    BY DEF Ends
<1> QED
    BY <1>1, <1>2, LineEndsFacts DEF Rank
----------------------------------------------------------------------------
(* Where the acknowledged records are                                       *)

\* Piece i of the file is the whole line of record r.
IsLine(d, i, r) == d[i] = [record |-> r, cut |-> "line"]

\* Every acknowledged record that S numbers has a whole line of its own, in
\* their order.
Placed(d, a, S) ==
    \E pos \in [S -> DOMAIN d] :
        /\ \A k \in S : IsLine(d, pos[k], a[k])
        /\ \A j, k \in S : j < k => pos[j] < pos[k]

\* The file is the lines of the acknowledged records and nothing else.
Clean(d, a) ==
    /\ Len(d) = Len(a)
    /\ \A k \in DOMAIN a : IsLine(d, k, a[k])

\* The inductive invariant.  That read_all gives the acknowledged records back
\* is not inductive: it says nothing of the copy on the disk, which a crash of
\* the machine puts in the place of the file.
JournalInv ==
    /\ TypeOK
    /\ Placed(file.data, acked, DOMAIN acked \ exposed)
    /\ Placed(disk.data, acked, (1 .. synced) \ exposed)
    /\ faults = 0 => Clean(file.data, acked)

\* Text that grows at its end keeps the lines it has.
LEMMA PlacedGrows ==
    ASSUME NEW d \in Seq(Pieces), NEW d2 \in Seq(Pieces), NEW a, NEW S,
           Len(d) <= Len(d2), \A i \in 1 .. Len(d) : d2[i] = d[i],
           Placed(d, a, S)
    PROVE  Placed(d2, a, S)
<1>1. PICK pos \in [S -> DOMAIN d] :
        /\ \A k \in S : IsLine(d, pos[k], a[k])
        /\ \A j, k \in S : j < k => pos[j] < pos[k]
    BY DEF Placed
<1>2. DOMAIN d = 1 .. Len(d) /\ DOMAIN d \subseteq DOMAIN d2
    BY LenProperties
<1>3. pos \in [S -> DOMAIN d2]
    BY <1>2
<1>4. \A k \in S : IsLine(d2, pos[k], a[k])
    BY <1>1, <1>2 DEF IsLine
<1> QED
    BY <1>1, <1>3, <1>4 DEF Placed

\* Only the records that S numbers count.
LEMMA PlacedSame ==
    ASSUME NEW d, NEW a, NEW b, NEW S, \A k \in S : b[k] = a[k], Placed(d, a, S)
    PROVE  Placed(d, b, S)
    BY DEF Placed, IsLine

\* append_record puts the line of the record behind all others.
LEMMA PlacedAppend ==
    ASSUME NEW d \in Seq(Pieces), NEW a \in Seq(JournalRecords),
           NEW r \in JournalRecords, NEW d2 \in Seq(Pieces),
           d2 = Append(d, [record |-> r, cut |-> "line"]),
           NEW X, X \subseteq 1 .. Len(a),
           Placed(d, a, DOMAIN a \ X)
    PROVE  Placed(d2, Append(a, r), DOMAIN Append(a, r) \ X)
<1> DEFINE n == Len(a)
           a2 == Append(a, r)
           S  == DOMAIN a \ X
           S2 == DOMAIN a2 \ X
<1>1. PICK pos \in [S -> DOMAIN d] :
        /\ \A k \in S : IsLine(d, pos[k], a[k])
        /\ \A j, k \in S : j < k => pos[j] < pos[k]
    BY DEF Placed
<1>2. /\ n \in Nat /\ Len(d) \in Nat
      /\ DOMAIN a = 1 .. n /\ DOMAIN d = 1 .. Len(d)
      /\ DOMAIN a2 = 1 .. n + 1 /\ DOMAIN d2 = 1 .. Len(d) + 1
      /\ a2[n + 1] = r /\ \A k \in 1 .. n : a2[k] = a[k]
      /\ d2[Len(d) + 1] = [record |-> r, cut |-> "line"]
      /\ \A i \in 1 .. Len(d) : d2[i] = d[i]
    BY LenProperties, AppendProperties
<1>3. /\ S \subseteq 1 .. n
      /\ S2 = S \cup {n + 1}
      /\ n + 1 \notin S
  <2> HIDE DEF n, a2
  <2>1. X \subseteq 1 .. n
      BY DEF n
  <2>2. n + 1 \notin 1 .. n /\ 1 .. n + 1 = (1 .. n) \cup {n + 1}
      BY <1>2
  <2> QED
      BY <1>2, <2>1, <2>2, Zenon
<1> DEFINE q == [k \in S2 |-> IF k = n + 1 THEN Len(d) + 1 ELSE pos[k]]
<1> HIDE DEF n, a2, S, S2
<1>4. /\ q[n + 1] = Len(d) + 1
      /\ \A k \in S : q[k] = pos[k] /\ pos[k] \in 1 .. Len(d)
    BY <1>1, <1>2, <1>3
<1>5. q \in [S2 -> DOMAIN d2]
    BY <1>1, <1>2, <1>3
<1> HIDE DEF q
<1>6. ASSUME NEW k \in S2 PROVE IsLine(d2, q[k], a2[k])
  <2>1. CASE k = n + 1
      BY <1>2, <1>4, <2>1 DEF IsLine
  <2>2. CASE k \in S
      BY <1>1, <1>2, <1>3, <1>4, <2>2 DEF IsLine
  <2> QED
      BY <1>3, <2>1, <2>2
<1>7. ASSUME NEW j \in S2, NEW k \in S2, j < k PROVE q[j] < q[k]
  <2>1. j \in S /\ q[j] \in 1 .. Len(d) /\ q[j] = pos[j]
      BY <1>2, <1>3, <1>4, <1>7
  <2>2. CASE k = n + 1
      BY <1>2, <1>4, <2>1, <2>2
  <2>3. CASE k \in S
      BY <1>1, <1>2, <1>4, <1>7, <2>1, <2>3
  <2> QED
      BY <1>3, <2>2, <2>3
<1> QED
    BY <1>5, <1>6, <1>7 DEF Placed, a2, S2
----------------------------------------------------------------------------
(* What a write and a crash leave                                           *)

\* A copy of the file and its parts.
LEMMA CopyFacts ==
    ASSUME NEW f \in Copies
    PROVE  /\ f.exists \in BOOLEAN
           /\ f.data \in Seq(Pieces)
    BY DEF Copies

\* The text of a record up to a cut.
LEMMA TextFacts ==
    ASSUME NEW r \in JournalRecords, NEW cut \in CutPoints
    PROVE  Text(r, cut) \in Seq(Pieces)
<1>1. CASE cut = "none"
    BY <1>1 DEF Text
<1>2. CASE cut # "none"
  <2>1. cut \in Cuts
      BY <1>2 DEF CutPoints
  <2>2. [record |-> r, cut |-> cut] \in Pieces
      BY <2>1 DEF Pieces
  <2> QED
      BY <1>2, <2>2 DEF Text
<1> QED
    BY <1>1, <1>2

\* Writing text leaves a file that exists, with the text at its end.
LEMMA WrittenFacts ==
    ASSUME TypeOK, NEW text \in Seq(Pieces), NEW S
    PROVE  /\ Written(text) \in Copies
           /\ Written(text).data = file.data \o text
           /\ Placed(file.data, acked, S) => Placed(Written(text).data, acked, S)
<1> DEFINE d  == file.data
           d2 == file.data \o text
<1>1. d \in Seq(Pieces)
    BY CopyFacts DEF TypeOK
<1>2. /\ d2 \in Seq(Pieces)
      /\ Len(d2) = Len(d) + Len(text)
      /\ \A i \in 1 .. Len(d) + Len(text) :
            d2[i] = IF i <= Len(d) THEN d[i] ELSE text[i - Len(d)]
    BY <1>1, ConcatProperties
<1>3. Written(text) = [exists |-> TRUE, data |-> d2]
    BY DEF Written
<1>4. Written(text) \in Copies
    BY <1>2, <1>3 DEF Copies
<1>5. Len(d) \in Nat /\ Len(text) \in Nat
    BY <1>1
<1> HIDE DEF d, d2
<1>6. Len(d) <= Len(d2) /\ \A i \in 1 .. Len(d) : d2[i] = d[i]
    BY <1>2, <1>5
<1>7. Placed(d, acked, S) => Placed(d2, acked, S)
    BY <1>1, <1>2, <1>6, PlacedGrows
<1> QED
    BY <1>3, <1>4, <1>7 DEF d, d2

\* A torn file has the pieces of the file up to the torn one.
LEMMA TornFacts ==
    ASSUME NEW d \in Seq(Pieces), NEW n \in 1 .. Len(d), NEW t \in Torn(d, n)
    PROVE  /\ t \in Seq(Pieces)
           /\ Len(t) = n
           /\ \A i \in 1 .. n - 1 : t[i] = d[i]
<1> DEFINE s == SubSeq(d, 1, n)
<1>1. PICK cut \in Cuts : t = [s EXCEPT ![n].cut = cut]
    BY DEF Torn
<1>2. n \in Nat /\ \A i \in 1 .. n : d[i] \in Pieces
    BY ElementOfSeq
<1>3. /\ s \in Seq(Pieces)
      /\ Len(s) = n
      /\ \A i \in 1 .. n : s[i] = d[i]
  <2>1. /\ SubSeq(d, 1, n) \in Seq(Pieces)
        /\ Len(SubSeq(d, 1, n)) = IF 1 <= n THEN n - 1 + 1 ELSE 0
        /\ \A i \in 1 .. n - 1 + 1 : SubSeq(d, 1, n)[i] = d[1 + i - 1]
      BY <1>2, SubSeqProperties
  <2> QED
      BY <1>2, <2>1
<1> DEFINE e == [s[n] EXCEPT !.cut = cut]
<1>4. t = [s EXCEPT ![n] = e]
    BY <1>1
<1> HIDE DEF s
<1>5. e \in Pieces
    BY <1>2, <1>3 DEF Pieces
<1> HIDE DEF e
<1>6. /\ [s EXCEPT ![n] = e] \in Seq(Pieces)
      /\ Len([s EXCEPT ![n] = e]) = Len(s)
      /\ \A j \in 1 .. Len(s) : [s EXCEPT ![n] = e][j] = IF j = n THEN e ELSE s[j]
    BY <1>2, <1>3, <1>5, ExceptSeq
<1> QED
    BY <1>2, <1>3, <1>4, <1>6

\* Whatever a crash of the machine leaves has the lines acknowledged before the
\* last write-back.
LEMMA SurvivorFacts ==
    ASSUME TypeOK, NEW S, Placed(disk.data, acked, S), NEW f \in Survivors
    PROVE  f \in Copies /\ Placed(f.data, acked, S)
<1>1. CASE f = disk
    BY <1>1 DEF TypeOK
<1>2. CASE f # disk
  <2> DEFINE d == file.data
             b == disk.data
  <2>0. PICK n \in {k \in Len(b) + 1 .. Len(d) : IsPrefix(b, d)} :
            \E t \in Torn(d, n) :
                f = [exists |-> TRUE, data |-> t]
      BY <1>2 DEF Survivors
  <2>1. PICK t \in Torn(d, n) :
            f = [exists |-> TRUE, data |-> t]
      BY <2>0
  <2>2. d \in Seq(Pieces) /\ b \in Seq(Pieces)
      BY CopyFacts DEF TypeOK
  <2>3. IsPrefix(b, d) /\ n \in Len(b) + 1 .. Len(d)
      BY <2>0
  <2> HIDE DEF d, b
  <2>4. Len(b) \in Nat /\ Len(d) \in Nat
      BY <2>2
  <2>5. n \in 1 .. Len(d)
      BY <2>3, <2>4
  <2>6. t \in Seq(Pieces) /\ Len(t) = n /\ \A i \in 1 .. n - 1 : t[i] = d[i]
      BY <2>1, <2>2, <2>5, TornFacts
  <2>7. \A i \in 1 .. Len(b) : d[i] = b[i]
    <3>1. SubSeq(b, 1, Len(b)) = SubSeq(d, 1, Len(b)) /\ Len(b) <= Len(d)
        BY <2>3 DEF IsPrefix
    <3>2. \A i \in 1 .. Len(b) : SubSeq(b, 1, Len(b))[i] = b[i]
        BY <2>2, <2>4
    <3>3. \A i \in 1 .. Len(b) : SubSeq(d, 1, Len(b))[i] = d[i]
        BY <2>2, <2>4, <3>1
    <3> QED
        BY <3>1, <3>2, <3>3
  <2>8. Len(b) <= Len(t) /\ \A i \in 1 .. Len(b) : t[i] = b[i]
      BY <2>3, <2>4, <2>6, <2>7
  <2>9. Placed(t, acked, S)
      BY <2>2, <2>6, <2>8, PlacedGrows DEF b
  <2>10. f \in Copies
      BY <2>1, <2>2, <2>6 DEF Copies
  <2> QED
      BY <2>1, <2>9, <2>10
<1> QED
    BY <1>1, <1>2
----------------------------------------------------------------------------
(* The inductive invariant                                                  *)

\* Nothing acknowledged, nothing to place.
LEMMA NothingPlaced ==
    /\ \A d, a : Placed(d, a, {})
    /\ DOMAIN <<>> \ {} = {}
    /\ Clean(<<>>, <<>>)
<1>1. DOMAIN <<>> = {}
    OBVIOUS
<1>2. ASSUME NEW d, NEW a PROVE Placed(d, a, {})
  <2>1. [k \in {} |-> k] \in [{} -> DOMAIN d]
      OBVIOUS
  <2> QED
      BY <2>1 DEF Placed
<1> QED
    BY <1>1, <1>2 DEF Clean

\* Init: no file, nothing acknowledged.
LEMMA JournalInit == Init => JournalInv
<1> SUFFICES ASSUME Init PROVE JournalInv
    OBVIOUS
<1>1. NoFile \in Copies /\ NoFile.data = <<>>
    BY DEF NoFile, Copies
<1>2. TypeOK
    BY <1>1, JournalAssumption DEF Init, TypeOK
<1>3. (1 .. 0) \ {} = {}
    OBVIOUS
<1> QED
    BY <1>1, <1>2, <1>3, NothingPlaced DEF Init, JournalInv

\* A fault is counted.
LEMMA FaultFacts ==
    ASSUME TypeOK, NEW n \in {1, 2}, Fault(n)
    PROVE  faults' \in 0 .. MaxFaults /\ faults' # 0
    BY JournalAssumption DEF Fault, TypeOK

\* append_record
LEMMA AppendKeeps ==
    ASSUME JournalInv, NEW r \in JournalRecords, append_record(r)
    PROVE  JournalInv'
<1> DEFINE line == [record |-> r, cut |-> "line"]
           text == Text(r, "line")
           d  == file.data
           a2 == Append(acked, r)
<1>1. /\ d \in Seq(Pieces) /\ acked \in Seq(JournalRecords)
      /\ Placed(d, acked, DOMAIN acked \ exposed)
      /\ Placed(disk.data, acked, (1 .. synced) \ exposed)
      /\ faults = 0 => Clean(d, acked)
      /\ synced \in 0 .. Len(acked) /\ exposed \subseteq 1 .. synced
    BY CopyFacts DEF JournalInv, TypeOK
<1>2. line \in Pieces /\ text = <<line>>
    BY DEF Pieces, Cuts, CutLength, Text
<1>3. file' = [exists |-> TRUE, data |-> Append(d, line)]
  <2>1. d \o text = Append(d, line)
      BY <1>1, <1>2, AppendIsConcat
  <2> QED
      BY <2>1 DEF append_record, Written
<1>4. /\ file'.data = Append(d, line)
      /\ acked' = a2 /\ synced' = synced /\ exposed' = exposed
    BY <1>3 DEF append_record, Acknowledge
<1>5. /\ Append(d, line) \in Seq(Pieces)
      /\ a2 \in Seq(JournalRecords)
      /\ Len(acked) \in Nat /\ Len(a2) = Len(acked) + 1
      /\ \A k \in 1 .. Len(acked) : a2[k] = acked[k]
    BY <1>1, <1>2, AppendProperties
<1>6. TypeOK'
  <2>1. file' \in Copies
      BY <1>3, <1>5 DEF Copies
  <2>2. call' \in 0 .. MaxBatch
      BY JournalAssumption DEF append_record, JournalInv, TypeOK
  <2>3. synced' \in 0 .. Len(acked')
    <3> HIDE DEF a2
    <3> QED
        BY <1>1, <1>4, <1>5
  <2> QED
      BY <1>1, <1>4, <1>5, <2>1, <2>2, <2>3 DEF append_record, JournalInv, TypeOK
<1>7. Placed(file'.data, acked', DOMAIN acked' \ exposed')
  <2>1. exposed \subseteq 1 .. Len(acked)
      BY <1>1, <1>5
  <2> HIDE DEF d
  <2>2. Placed(Append(d, line), Append(acked, r), DOMAIN Append(acked, r) \ exposed)
      BY <1>1, <1>5, <2>1, PlacedAppend
  <2> QED
      BY <1>4, <2>2
<1>8. Placed(disk'.data, acked', (1 .. synced') \ exposed')
  <2>1. \A k \in (1 .. synced) \ exposed : a2[k] = acked[k]
      BY <1>1, <1>5
  <2> HIDE DEF a2
  <2>2. Placed(disk.data, a2, (1 .. synced) \ exposed)
      BY <1>1, <2>1, PlacedSame
  <2> QED
      BY <1>4, <2>2 DEF append_record
<1>9. faults = 0 => Clean(file'.data, acked')
  <2> HIDE DEF d, text
  <2> SUFFICES ASSUME Clean(d, acked) PROVE Clean(Append(d, line), a2)
      BY <1>1, <1>4
  <2>1. /\ Len(d) = Len(acked) /\ Len(acked) \in Nat
        /\ \A k \in 1 .. Len(acked) : d[k] = [record |-> acked[k], cut |-> "line"]
      BY <1>1 DEF Clean, IsLine
  <2>2. /\ DOMAIN a2 = 1 .. Len(acked) + 1
        /\ Len(a2) = Len(acked) + 1
        /\ a2[Len(acked) + 1] = r
        /\ \A k \in 1 .. Len(acked) : a2[k] = acked[k]
      BY <1>1
  <2>3. /\ Len(Append(d, line)) = Len(acked) + 1
        /\ Append(d, line)[Len(acked) + 1] = line
        /\ \A k \in 1 .. Len(acked) : Append(d, line)[k] = d[k]
      BY <1>1, <1>2, <2>1
  <2> HIDE DEF a2
  <2>4. ASSUME NEW k \in 1 .. Len(acked) + 1
        PROVE  IsLine(Append(d, line), k, a2[k])
    <3>1. CASE k = Len(acked) + 1
        BY <2>2, <2>3, <3>1 DEF IsLine
    <3>2. CASE k \in 1 .. Len(acked)
        BY <2>1, <2>2, <2>3, <3>2 DEF IsLine
    <3>3. k = Len(acked) + 1 \/ k \in 1 .. Len(acked)
        BY <2>1
    <3> QED
        BY <3>1, <3>2, <3>3
  <2> QED
      BY <2>2, <2>3, <2>4 DEF Clean
<1> QED
    BY <1>6, <1>7, <1>8, <1>9 DEF append_record, JournalInv

\* A write that append_record does not acknowledge: FlushFails, ProcessCrash.
LEMMA UnacknowledgedKeeps ==
    ASSUME JournalInv, NEW text \in Seq(Pieces), NEW n \in {1, 2}, Fault(n),
           file' = Written(text), call' = 0, UNCHANGED <<disk, history>>
    PROVE  JournalInv'
<1>1. TypeOK /\ Placed(file.data, acked, DOMAIN acked \ exposed)
    BY DEF JournalInv
<1>2. file' \in Copies /\ Placed(file'.data, acked, DOMAIN acked \ exposed)
    BY <1>1, WrittenFacts
<1>3. faults' \in 0 .. MaxFaults /\ faults' # 0
    BY <1>1, FaultFacts
<1>4. TypeOK'
    BY <1>1, <1>2, <1>3, JournalAssumption DEF TypeOK, history
<1> QED
    BY <1>2, <1>3, <1>4 DEF JournalInv, history

\* MachineCrash: what was written back stays, the rest is exposed.
LEMMA MachineCrashKeeps ==
    ASSUME JournalInv, MachineCrash
    PROVE  JournalInv'
<1> DEFINE n == Len(acked)
           S == (1 .. synced) \ exposed
<1>1. /\ TypeOK /\ Placed(disk.data, acked, S)
      /\ n \in Nat /\ synced \in 0 .. n /\ exposed \subseteq 1 .. synced
      /\ DOMAIN acked = 1 .. n
    BY DEF JournalInv, TypeOK
<1>2. PICK f \in Survivors : file' = f /\ disk' = f
    BY DEF MachineCrash
<1>3. f \in Copies /\ Placed(f.data, acked, S)
  <2> HIDE DEF S
  <2> QED
      BY <1>1, <1>2, SurvivorFacts
<1>4. faults' \in 0 .. MaxFaults /\ faults' # 0 /\ call' = 0
    BY <1>1, FaultFacts DEF MachineCrash
<1>5. /\ acked' = acked /\ synced' = n
      /\ exposed' = exposed \cup (synced + 1 .. n)
    BY DEF MachineCrash
<1> HIDE DEF n
<1>6. (1 .. n) \ exposed' = S /\ exposed' \subseteq 1 .. n
    BY <1>1, <1>5
<1>7. n \in 0 .. n /\ n = Len(acked')
    BY <1>1, <1>5 DEF n
<1>8. TypeOK'
    BY <1>1, <1>2, <1>3, <1>4, <1>5, <1>6, <1>7, JournalAssumption DEF TypeOK
<1> HIDE DEF S
<1>9. /\ DOMAIN acked' \ exposed' = S
      /\ (1 .. synced') \ exposed' = S
    BY <1>1, <1>5, <1>6
<1> QED
    BY <1>2, <1>3, <1>4, <1>5, <1>8, <1>9 DEF JournalInv

\* Every step keeps the invariant.
LEMMA JournalStep == JournalInv /\ [Next]_vars => JournalInv'
<1> SUFFICES ASSUME JournalInv, [Next]_vars PROVE JournalInv'
    OBVIOUS
<1>0. TypeOK
    BY DEF JournalInv
<1>1. ASSUME NEW n \in 1 .. MaxBatch, append_records(n) PROVE JournalInv'
    BY <1>1 DEF append_records, JournalInv, TypeOK, history
<1>2. ASSUME NEW r \in JournalRecords, append_record(r) PROVE JournalInv'
    BY <1>2, AppendKeeps
<1>3. ASSUME NEW r \in JournalRecords, FlushFails(r) PROVE JournalInv'
  <2>1. PICK first \in CutPoints \ {"line"}, second \in CutPoints :
          /\ Fault(IF second \in {"none", "line"} THEN 1 ELSE 2)
          /\ file' = Written(Text(r, first) \o Text(r, second))
      BY <1>3 DEF FlushFails
  <2> DEFINE text == Text(r, first) \o Text(r, second)
  <2>2. text \in Seq(Pieces)
      BY TextFacts, ConcatProperties
  <2>3. PICK n \in {1, 2} : Fault(n)
      BY <2>1
  <2> QED
      BY <1>3, <2>1, <2>2, <2>3, UnacknowledgedKeeps DEF FlushFails
<1>4. ASSUME NEW r \in JournalRecords, ProcessCrash(r) PROVE JournalInv'
  <2>1. PICK cut \in CutPoints : file' = Written(Text(r, cut))
      BY <1>4 DEF ProcessCrash
  <2>2. Text(r, cut) \in Seq(Pieces)
      BY TextFacts
  <2>3. PICK n \in {1, 2} : Fault(n)
      BY <1>4 DEF ProcessCrash
  <2> QED
      BY <1>4, <2>1, <2>2, <2>3, UnacknowledgedKeeps DEF ProcessCrash
<1>5. ASSUME OpenFails PROVE JournalInv'
  <2>1. faults' \in 0 .. MaxFaults /\ faults' # 0
      BY <1>0, <1>5, FaultFacts DEF OpenFails
  <2> QED
      BY <1>5, <2>1, JournalAssumption DEF OpenFails, JournalInv, TypeOK, history
<1>6. ASSUME truncate PROVE JournalInv'
  <2>1. file' = [exists |-> TRUE, data |-> <<>>]
    <3>1. \A x, y, u : [[exists |-> x, data |-> y] EXCEPT !.exists = u]
                          = [exists |-> u, data |-> y]
        OBVIOUS
    <3> QED
        BY <1>6, <3>1, Zenon DEF truncate, NoFile
  <2>2. file' \in Copies /\ file'.data = <<>>
      BY <2>1 DEF Copies
  <2>3. acked' = <<>> /\ synced' = 0 /\ exposed' = {}
      BY <1>6 DEF truncate, Forget
  <2>4. /\ (1 .. synced') \ exposed' = {}
        /\ DOMAIN acked' \ exposed' = {}
    <3>1. (1 .. 0) \ {} = {}
        OBVIOUS
    <3> QED
        BY <2>3, <3>1, NothingPlaced
  <2>5. TypeOK'
      BY <1>6, <2>2, <2>3 DEF truncate, JournalInv, TypeOK
  <2> QED
      BY <2>2, <2>3, <2>4, <2>5, NothingPlaced DEF JournalInv
<1>7. ASSUME Writeback PROVE JournalInv'
  <2>1. DOMAIN acked = 1 .. Len(acked) /\ Len(acked) \in Nat
      BY <1>0 DEF TypeOK
  <2>2. /\ disk' = file /\ file' = file /\ acked' = acked /\ exposed' = exposed
        /\ synced' = Len(acked) /\ call' = call /\ faults' = faults
      BY <1>7 DEF Writeback
  <2>3. synced' \in 0 .. Len(acked') /\ exposed' \subseteq 1 .. synced'
    <3> DEFINE n == Len(acked)
    <3>1. n \in Nat /\ synced \in 0 .. n /\ exposed \subseteq 1 .. synced
        BY <1>0 DEF TypeOK
    <3>2. synced' = n /\ Len(acked') = n /\ exposed' = exposed
        BY <2>2
    <3> HIDE DEF n
    <3> QED
        BY <3>1, <3>2
  <2>4. TypeOK'
      BY <1>0, <2>2, <2>3 DEF TypeOK
  <2> QED
      BY <2>1, <2>2, <2>4 DEF JournalInv
<1>8. ASSUME MachineCrash PROVE JournalInv'
    BY <1>8, MachineCrashKeeps
<1>9. ASSUME UNCHANGED vars PROVE JournalInv'
    BY <1>9 DEF vars, history, JournalInv, TypeOK
<1> QED
    BY <1>1, <1>2, <1>3, <1>4, <1>5, <1>6, <1>7, <1>8, <1>9 DEF Next

\* JournalInv in every state: wherever the system fails or crashes, the records
\* acknowledged since the last truncate have whole lines of their own, but for
\* those that a crash of the machine met before they were written back.
THEOREM JournalInvHolds == Spec => []JournalInv
    BY JournalInit, JournalStep, PTL DEF Spec

\* Type correctness of the two copies of the file and of the running call.
THEOREM TypeCorrect == Spec => []TypeOK
<1>1. JournalInv => TypeOK
    BY DEF JournalInv
<1> QED
    BY <1>1, JournalInvHolds, PTL
----------------------------------------------------------------------------
(* What read_all makes of a file                                            *)

\* The parts of read_all: the lines, the ones that do not parse, and how many
\* there are before the first of these.
BadLines(d) == {k \in DOMAIN LineEnds(d) : ~parse_record_line(d, LineEnds(d)[k])}

GoodCount(d) == Min(BadLines(d) \cup {Len(LineEnds(d)) + 1}) - 1

\* The records read are those of the lines before the first bad one.
LEMMA ReadFacts ==
    ASSUME NEW f \in Copies, f.exists
    PROVE  /\ GoodCount(f.data) \in 0 .. Len(LineEnds(f.data))
           /\ read_all(f).status =
                 IF BadLines(f.data) = {} THEN "ok" ELSE "malformed_record"
           /\ read_all(f).records =
                 [k \in 1 .. GoodCount(f.data) |->
                     ParsedRecord(f.data, LineEnds(f.data)[k])]
           /\ BadLines(f.data) = {} =>
                 GoodCount(f.data) = Len(LineEnds(f.data))
           /\ \A k \in 1 .. GoodCount(f.data) :
                 /\ k \in DOMAIN LineEnds(f.data)
                 /\ parse_record_line(f.data, LineEnds(f.data)[k])
<1> DEFINE d == f.data
           n == Len(LineEnds(d))
           S == BadLines(d) \cup {n + 1}
<1>1. n \in Nat /\ DOMAIN LineEnds(d) = 1 .. n
    BY CopyFacts, LineEndsFacts
<1>2. Min(S) \in S /\ S \subseteq 1 .. n + 1 /\ \A x \in S : Min(S) <= x
  <2>1. S \subseteq 1 .. n + 1 /\ S # {}
      BY <1>1 DEF BadLines
  <2>2. S \subseteq Nat
      BY <1>1, <2>1
  <2> HIDE DEF S
  <2> QED
      BY <2>1, <2>2, MinFacts
<1>3. GoodCount(d) = Min(S) - 1
    BY DEF GoodCount
<1>4. GoodCount(d) \in 0 .. n
  <2> DEFINE m == Min(S)
  <2>1. m \in 1 .. n + 1 /\ GoodCount(d) = m - 1
      BY <1>2, <1>3
  <2> HIDE DEF m, n
  <2> QED
      BY <1>1, <2>1
<1>5. BadLines(d) = {} => GoodCount(d) = n
  <2> SUFFICES ASSUME BadLines(d) = {} PROVE Min(S) = n + 1
      BY <1>1, <1>3
  <2>1. S = {n + 1}
      OBVIOUS
  <2> QED
      BY <1>2, <2>1
<1>6. read_all(f) =
        [status  |-> IF BadLines(d) = {} THEN "ok" ELSE "malformed_record",
         records |-> [k \in 1 .. GoodCount(d) |-> ParsedRecord(d, LineEnds(d)[k])]]
    BY DEF read_all, BadLines, GoodCount
<1>7. ASSUME NEW k \in 1 .. GoodCount(d)
      PROVE  k \in DOMAIN LineEnds(d) /\ parse_record_line(d, LineEnds(d)[k])
  <2>1. k \in 1 .. n
      BY <1>1, <1>4
  <2>2. k \notin S
    <3> DEFINE m == Min(S)
    <3>1. m \in 1 .. n + 1 /\ GoodCount(d) = m - 1
        BY <1>2, <1>3
    <3>2. ~(m <= k)
      <4> HIDE DEF m, n
      <4> QED
          BY <1>1, <1>7, <3>1
    <3> QED
        BY <1>2, <3>2
  <2> QED
      BY <1>1, <2>1, <2>2 DEF BadLines
<1> QED
    BY <1>4, <1>5, <1>6, <1>7

\* A line that does not continue another one has the version of its record.
LEMMA OwnVersion ==
    ASSUME NEW d \in Seq(Pieces), NEW e \in 1 .. Len(d),
           parse_record_line(d, e), ~Continues(d, e)
    PROVE  d[e].record.version = 1
<1>1. e \in Nat /\ e >= 1
    OBVIOUS
<1>2. LineStart(d, e) \in 1 .. e
  <2> DEFINE S == {0} \cup {i \in 1 .. e - 1 : d[i].cut = "line"}
             m == Max(S)
  <2>1. S \subseteq 0 .. e - 1 /\ S # {} /\ e - 1 \in Nat
      BY <1>1
  <2>2. LineStart(d, e) = 1 + m
      BY DEF LineStart
  <2> HIDE DEF S
  <2>3. m \in 0 .. e - 1
      BY <2>1, MaxFacts
  <2> HIDE DEF m
  <2> QED
      BY <1>1, <2>2, <2>3
<1>3. LineStart(d, e) = e
    BY <1>1, <1>2 DEF Continues
<1> DEFINE V == VersionPieces(d, e, e)
<1>4. V \subseteq {e}
    BY <1>1 DEF VersionPieces
<1>5. V # {} /\ d[Max(V)].record.version = 1
    BY <1>3 DEF parse_record_line
<1> HIDE DEF V
<1>6. V = {e}
    BY <1>4, <1>5
<1>7. Max({e}) = e
    BY <1>1 DEF Max
<1> QED
    BY <1>5, <1>6, <1>7

\* A record that has lost no digits is read as it was written, or with the
\* version of the torn line that it continues.
LEMMA ReadAsFacts ==
    ASSUME file \in Copies, file.exists,
           NEW k \in 1 .. GoodCount(file.data),
           file.data[LineEnds(file.data)[k]].cut # "digits"
    PROVE  ReadAs(k, file.data[LineEnds(file.data)[k]].record)
<1> DEFINE d == file.data
           e == LineEnds(d)[k]
           w == d[e].record
           record == read_all(file).records[k]
<1>1. d \in Seq(Pieces)
    BY CopyFacts
<1>2. k \in DOMAIN LineEnds(d) /\ parse_record_line(d, e)
    BY ReadFacts
<1>3. e \in 1 .. Len(d)
    BY <1>1, <1>2, LineEndsFacts DEF Ends
<1>4. record = [id |-> w.id, version |-> 1, complete |-> TRUE]
  <2>1. record = ParsedRecord(d, e)
      BY ReadFacts
  <2>2. (d[e].cut # "digits") = TRUE
      OBVIOUS
  <2> QED
      BY <2>1, <2>2, Zenon DEF ParsedRecord
<1>5. CASE Continues(d, e)
    BY <1>4, <1>5, Zenon DEF ReadAs
<1>6. CASE ~Continues(d, e)
  <2>1. w.version = 1
    <3> HIDE DEF d, e
    <3>1. d[e].record.version = 1
        BY <1>1, <1>2, <1>3, <1>6, OwnVersion
    <3> QED
        BY <3>1
  <2>2. record = Intact(w)
      BY <1>4, <2>1, Zenon DEF Intact
  <2> QED
      BY <2>2 DEF ReadAs
<1> QED
    BY <1>5, <1>6

\* ReadRecordsWereWritten: whatever the file is, read_all takes a record that
\* lost digits only from the last piece of the file.
LEMMA WrittenIsRead ==
    ASSUME file \in Copies
    PROVE  ReadRecordsWereWritten
<1>1. CASE ~file.exists
  <2>1. read_all(file).records = <<>>
      BY <1>1 DEF read_all
  <2>2. DOMAIN <<>> = {}
      OBVIOUS
  <2> QED
      BY <2>1, <2>2 DEF ReadRecordsWereWritten
<1>2. CASE file.exists
  <2> DEFINE d == file.data
             ends == LineEnds(d)
             n == GoodCount(d)
             records == read_all(file).records
  <2>1. d \in Seq(Pieces)
      BY CopyFacts
  <2>2. /\ Len(ends) \in Nat /\ DOMAIN ends = 1 .. Len(ends)
        /\ \A k \in DOMAIN ends : ends[k] \in Ends(d)
      BY <2>1, LineEndsFacts
  <2>3. n \in 0 .. Len(ends) /\ records = [k \in 1 .. n |-> ParsedRecord(d, ends[k])]
      BY <1>2, ReadFacts
  <2>4. DOMAIN records = 1 .. n /\ n \in Nat
      BY <2>2, <2>3
  <2> SUFFICES ASSUME NEW k \in 1 .. n
               PROVE  \/ ReadAs(k, d[ends[k]].record)
                      \/ /\ ~records[k].complete
                         /\ k = Len(records)
                         /\ ends[k] = Len(d)
                         /\ Last(d).cut = "digits"
      BY <2>4 DEF ReadRecordsWereWritten
  <2>5. CASE d[ends[k]].cut # "digits"
      BY <1>2, <2>5, ReadAsFacts
  <2>6. CASE d[ends[k]].cut = "digits"
    <3> HIDE DEF d, ends, n, records
    <3>1. k \in DOMAIN ends /\ Len(records) = n
        BY <2>2, <2>3
    <3>2. ~records[k].complete
      <4>1. records[k].complete = (d[ends[k]].cut # "digits")
          BY <2>3 DEF ParsedRecord
      <4> QED
          BY <2>6, <4>1
    <3>3. ends[k] = Len(d)
        BY <2>2, <2>6, <3>1 DEF Ends
    <3>4. k = Len(ends)
        BY <2>1, <3>1, <3>3, LastLine DEF ends
    <3>5. k = n
      <4> DEFINE l == Len(ends)
      <4>1. n \in 0 .. l /\ l \in Nat /\ k \in 1 .. n /\ k = l
          BY <2>2, <2>3, <3>4
      <4> HIDE DEF l
      <4> QED
          BY <4>1
    <3> QED
        BY <2>6, <3>1, <3>2, <3>3, <3>5 DEF Last
  <2> QED
      BY <2>5, <2>6
<1> QED
    BY <1>1, <1>2, CopyFacts

\* ReadRecordsWereWritten: a record read_all returns was written at that place
\* of the file; only the last text of the file may have lost digits, and only a
\* record that continues a torn line may have another version.
THEOREM WrittenHolds == Spec => []ReadRecordsWereWritten
<1>1. TypeOK => ReadRecordsWereWritten
    BY WrittenIsRead DEF TypeOK
<1> QED
    BY <1>1, TypeCorrect, PTL

\* A record with a line of its own is read back from it when every line parses.
LEMMA PlacedIsReadBack ==
    ASSUME file \in Copies, file.exists, read_all(file).status = "ok",
           NEW a, NEW S, Placed(file.data, a, S)
    PROVE  \E at \in [S -> DOMAIN read_all(file).records] :
              /\ \A k \in DOMAIN at : ReadAs(at[k], a[k])
              /\ \A j, k \in DOMAIN at : j < k => at[j] < at[k]
<1> DEFINE d == file.data
           E == Ends(d)
           ends == LineEnds(d)
           records == read_all(file).records
<1>1. d \in Seq(Pieces) /\ DOMAIN d = 1 .. Len(d)
    BY CopyFacts
<1>2. PICK pos \in [S -> DOMAIN d] :
        /\ \A k \in S : IsLine(d, pos[k], a[k])
        /\ \A j, k \in S : j < k => pos[j] < pos[k]
    BY DEF Placed
<1>3. ASSUME NEW k \in S
      PROVE  pos[k] \in E /\ d[pos[k]].record = a[k] /\ d[pos[k]].cut = "line"
  <2>1. d[pos[k]] = [record |-> a[k], cut |-> "line"]
      BY <1>2 DEF IsLine
  <2>2. /\ d[pos[k]].cut = "line" /\ d[pos[k]].record = a[k]
        /\ pos[k] \in 1 .. Len(d)
      BY <1>1, <1>2, <2>1
  <2> QED
      BY <2>2 DEF Ends
<1>4. /\ DOMAIN ends = 1 .. Len(ends)
      /\ \A e \in E : Rank(E, e) \in DOMAIN ends /\ ends[Rank(E, e)] = e
      /\ \A e, g \in E : e < g => Rank(E, e) < Rank(E, g)
    BY <1>1, LineEndsFacts
<1>5. /\ records = [k \in DOMAIN ends |-> ParsedRecord(d, ends[k])]
      /\ DOMAIN ends = 1 .. GoodCount(d)
  <2>1. BadLines(d) = {}
      BY ReadFacts
  <2> QED
      BY <1>4, <2>1, ReadFacts
<1> DEFINE at == [k \in S |-> Rank(E, pos[k])]
<1>6. ASSUME NEW k \in S PROVE ReadAs(at[k], a[k])
  <2> DEFINE i == at[k]
  <2>1. i \in 1 .. GoodCount(d) /\ ends[i] = pos[k]
      BY <1>3, <1>4, <1>5
  <2>2. d[ends[i]].cut # "digits" /\ d[ends[i]].record = a[k]
      BY <1>3, <2>1
  <2> HIDE DEF i
  <2>3. ReadAs(i, d[ends[i]].record)
      BY <2>1, <2>2, ReadAsFacts
  <2> QED
      BY <2>2, <2>3 DEF i
<1> HIDE DEF d, E, ends, records
<1>7. at \in [S -> DOMAIN records]
    BY <1>3, <1>4, <1>5
<1>8. \A j, k \in S : j < k => at[j] < at[k]
    BY <1>2, <1>3, <1>4
<1>9. DOMAIN at = S
    OBVIOUS
<1> HIDE DEF at
<1>10. \E q \in [S -> DOMAIN records] :
         /\ \A k \in DOMAIN q : ReadAs(q[k], a[k])
         /\ \A j, k \in DOMAIN q : j < k => q[j] < q[k]
    BY <1>6, <1>7, <1>8, <1>9
<1> QED
    BY <1>10 DEF records

\* AcknowledgedAreReadBack: when read_all reports ok, every record acknowledged
\* since the last truncate is among the records read, complete and in order,
\* whatever failed or crashed, but for the ones that a crash of the machine met
\* before they were written back.
THEOREM AcknowledgedHolds == Spec => []AcknowledgedAreReadBack
<1>1. ASSUME JournalInv PROVE AcknowledgedAreReadBack
  <2> DEFINE S == DOMAIN acked \ exposed
  <2> SUFFICES ASSUME read_all(file).status = "ok"
               PROVE  \E at \in [S -> DOMAIN read_all(file).records] :
                        /\ \A k \in DOMAIN at : ReadAs(at[k], acked[k])
                        /\ \A j, k \in DOMAIN at : j < k => at[j] < at[k]
      BY DEF AcknowledgedAreReadBack
  <2>1. file \in Copies /\ Placed(file.data, acked, S)
      BY <1>1 DEF JournalInv, TypeOK
  <2>2. file.exists
    <3> SUFFICES ASSUME ~file.exists PROVE FALSE
        OBVIOUS
    <3>1. read_all(file).status = "io_error"
        BY DEF read_all
    <3> QED
        BY <3>1
  <2> HIDE DEF S
  <2> QED
      BY <2>1, <2>2, PlacedIsReadBack
<1> QED
    BY <1>1, JournalInvHolds, PTL
----------------------------------------------------------------------------
(* A journal without failures                                               *)

\* Every piece of a clean file is a line of its own, and parses exactly when
\* the record was written in the version read_all knows.
LEMMA CleanLines ==
    ASSUME NEW d \in Seq(Pieces), NEW a \in Seq(JournalRecords), Clean(d, a)
    PROVE  /\ Len(LineEnds(d)) = Len(a) /\ DOMAIN LineEnds(d) = 1 .. Len(a)
           /\ \A k \in 1 .. Len(a) :
                 /\ LineEnds(d)[k] = k
                 /\ parse_record_line(d, k) <=> a[k].version = 1
                 /\ a[k].version = 1 => ParsedRecord(d, k) = Intact(a[k])
<1> DEFINE n == Len(a)
<1>1. /\ n \in Nat /\ Len(d) = n /\ DOMAIN a = 1 .. n /\ DOMAIN d = 1 .. n
      /\ \A k \in 1 .. n : d[k].record = a[k] /\ d[k].cut = "line"
  <2>1. n \in Nat /\ Len(d) = n /\ DOMAIN a = 1 .. n /\ DOMAIN d = 1 .. n
      BY LenProperties DEF Clean
  <2>2. \A k \in 1 .. n : d[k] = [record |-> a[k], cut |-> "line"]
      BY <2>1 DEF Clean, IsLine
  <2>3. ASSUME NEW k \in 1 .. n PROVE d[k].record = a[k] /\ d[k].cut = "line"
    <3>1. d[k] = [record |-> a[k], cut |-> "line"]
        BY <2>2
    <3> QED
        BY <3>1
  <2> QED
      BY <2>1, <2>3
<1> HIDE DEF n
<1>2. Ends(d) = 1 .. n
    BY <1>1 DEF Ends
<1>3. ASSUME NEW e \in 1 .. n PROVE Rank(1 .. n, e) = e
  <2>1. {i \in 1 .. n : i <= e} = 1 .. e
      BY <1>1
  <2>2. Cardinality(1 .. e) = e
      BY <1>1, FS_Interval
  <2> QED
      BY <2>1, <2>2 DEF Rank
<1>4. Cardinality(1 .. n) = n
    BY <1>1, FS_Interval
<1>5. Len(LineEnds(d)) = n /\ DOMAIN LineEnds(d) = 1 .. n
    BY <1>2, <1>4, LineEndsFacts
<1>6. ASSUME NEW k \in 1 .. n PROVE LineEnds(d)[k] = k
  <2>1. LineEnds(d)[k] \in 1 .. n /\ Rank(1 .. n, LineEnds(d)[k]) = k
      BY <1>2, <1>5, LineEndsFacts
  <2> QED
      BY <1>3, <2>1
<1>7. ASSUME NEW k \in 1 .. n
      PROVE  /\ parse_record_line(d, k) <=> a[k].version = 1
             /\ a[k].version = 1 => ParsedRecord(d, k) = Intact(a[k])
  <2>0. k \in Nat /\ k >= 1
      BY <1>1
  <2>1. LineStart(d, k) = k
    <3> DEFINE S == {0} \cup {i \in 1 .. k - 1 : d[i].cut = "line"}
    <3>1. S = 0 .. k - 1
        BY <1>1, <2>0
    <3>2. \A x \in 0 .. k - 1 : (\A y \in 0 .. k - 1 : x >= y) <=> x = k - 1
        BY <2>0
    <3>3. k - 1 \in 0 .. k - 1
        BY <2>0
    <3> HIDE DEF S
    <3>4. Max(S) = k - 1
        BY <3>1, <3>2, <3>3 DEF Max
    <3>5. LineStart(d, k) = 1 + Max(S)
        BY DEF LineStart, S
    <3> QED
        BY <2>0, <3>4, <3>5
  <2>2. VersionPieces(d, k, k) = {k}
      BY <1>1, <2>0 DEF VersionPieces
  <2>3. Max({k}) = k
      BY <2>0 DEF Max
  <2>4. d[k].record = a[k] /\ d[k].cut = "line"
      BY <1>1
  <2>5. parse_record_line(d, k) <=> a[k].version = 1
      BY <2>1, <2>2, <2>3, <2>4 DEF parse_record_line, FieldsParse
  <2>6. (d[k].cut # "digits") = TRUE
      BY <2>4
  <2>7. a[k].version = 1 => ParsedRecord(d, k) = Intact(a[k])
      BY <2>4, <2>6, Zenon DEF ParsedRecord, Intact
  <2> QED
      BY <2>5, <2>7
<1> QED
    BY <1>5, <1>6, <1>7 DEF n

\* CleanJournalIsExact: without failures and crashes read_all returns what was
\* appended, up to the first record of another version.
THEOREM CleanHolds == Spec => []CleanJournalIsExact
<1>1. ASSUME JournalInv PROVE CleanJournalIsExact
  <2> SUFFICES ASSUME faults = 0, file.exists PROVE CleanJournalIsExact
      BY DEF CleanJournalIsExact
  <2> DEFINE d == file.data
             a == acked
             foreign == {k \in DOMAIN a : a[k].version # 1}
             known == Min(foreign \cup {Len(a) + 1}) - 1
  <2>1. /\ file \in Copies /\ d \in Seq(Pieces) /\ a \in Seq(JournalRecords)
        /\ Clean(d, a) /\ DOMAIN a = 1 .. Len(a) /\ Len(a) \in Nat
      BY <1>1, CopyFacts DEF JournalInv, TypeOK
  <2>2. /\ Len(LineEnds(d)) = Len(a) /\ DOMAIN LineEnds(d) = 1 .. Len(a)
        /\ \A k \in 1 .. Len(a) :
              /\ LineEnds(d)[k] = k
              /\ parse_record_line(d, k) <=> a[k].version = 1
              /\ a[k].version = 1 => ParsedRecord(d, k) = Intact(a[k])
      BY <2>1, CleanLines
  <2>3. BadLines(d) = foreign
      BY <2>1, <2>2 DEF BadLines
  <2>4. GoodCount(d) = known
      BY <2>2, <2>3 DEF GoodCount
  <2>5. GoodCount(d) \in 0 .. Len(a)
      BY <2>1, <2>2, ReadFacts
  <2>6. [k \in 1 .. GoodCount(d) |-> ParsedRecord(d, LineEnds(d)[k])]
          = [k \in 1 .. known |-> Intact(a[k])]
    <3>1. ASSUME NEW k \in 1 .. GoodCount(d)
          PROVE  ParsedRecord(d, LineEnds(d)[k]) = Intact(a[k])
      <4>1. k \in 1 .. Len(a) /\ LineEnds(d)[k] = k
          BY <2>1, <2>2, <2>5
      <4>2. parse_record_line(d, k)
          BY <2>1, <4>1, ReadFacts
      <4> QED
          BY <2>2, <4>1, <4>2
    <3> HIDE DEF d, a, known
    <3> QED
        BY <2>4, <3>1
  <2>7. read_all(file) =
          [status  |-> IF BadLines(d) = {} THEN "ok" ELSE "malformed_record",
           records |-> [k \in 1 .. GoodCount(d) |-> ParsedRecord(d, LineEnds(d)[k])]]
      BY DEF read_all, BadLines, GoodCount
  <2> QED
      BY <2>3, <2>6, <2>7 DEF CleanJournalIsExact
<1> QED
    BY <1>1, JournalInvHolds, PTL
=============================================================================
