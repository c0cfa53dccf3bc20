--------------------------- MODULE MetricsProofs ---------------------------
(***************************************************************************)
(* The counters of the metrics collector and the book it listens to, for   *)
(* every set of ids, accounts and latencies and every bound.  What the     *)
(* counters say about the book is exact only between two calls; the        *)
(* inductive invariant carries it through a call by adding the events of   *)
(* the batch that are not counted yet.                                     *)
(***************************************************************************)
EXTENDS Metrics, OrderBookProofs, FiniteSetTheorems

----------------------------------------------------------------------------
(* Counting the events of a batch from some point on.                       *)

\* Where the events of a kind stand in a batch, and how many they are.
PositionsOf(batch, from, kind) ==
    {k \in from + 1 .. Len(batch) : batch[k].kind = kind}

CountOf(batch, from, kind) == Cardinality(PositionsOf(batch, from, kind))

\* One for an event of the kind, zero for any other.
Is(e, kind) == IF e.kind = kind THEN 1 ELSE 0

\* The events of a batch are finitely many.
LEMMA CountType ==
    ASSUME NEW S, NEW batch \in Seq(S), NEW from \in Nat, NEW kind
    PROVE  /\ IsFiniteSet(PositionsOf(batch, from, kind))
           /\ CountOf(batch, from, kind) \in Nat
<1>1. from + 1 \in Int /\ Len(batch) \in Int
    OBVIOUS
<1>2. IsFiniteSet(from + 1 .. Len(batch))
    BY <1>1, FS_Interval
<1>3. IsFiniteSet(PositionsOf(batch, from, kind))
    BY <1>2, FS_Subset DEF PositionsOf
<1> QED
    BY <1>3, FS_CardinalityType DEF CountOf

\* Nothing is left after the last event.
LEMMA CountEnd ==
    ASSUME NEW S, NEW batch \in Seq(S), NEW kind
    PROVE  CountOf(batch, Len(batch), kind) = 0
<1>1. PositionsOf(batch, Len(batch), kind) = {}
    BY DEF PositionsOf
<1> QED
    BY <1>1, FS_EmptySet DEF CountOf

\* An event added at the end counts for its kind.
LEMMA CountAppend ==
    ASSUME NEW S, NEW batch \in Seq(S), NEW e \in S, NEW kind,
           NEW from \in 0 .. Len(batch)
    PROVE  CountOf(Append(batch, e), from, kind) =
             CountOf(batch, from, kind) + Is(e, kind)
<1> DEFINE n == Len(batch)
           A == PositionsOf(batch, from, kind)
           B == PositionsOf(Append(batch, e), from, kind)
<1>1. /\ n \in Nat /\ Len(Append(batch, e)) = n + 1
      /\ \A k \in 1 .. n : Append(batch, e)[k] = batch[k]
      /\ Append(batch, e)[n + 1] = e
    BY AppendProperties
<1>2. IsFiniteSet(A) /\ Cardinality(A) \in Nat
    BY CountType, FS_CardinalityType
<1>3. CASE e.kind = kind
  <2>1. B = A \cup {n + 1}
      BY <1>1, <1>3 DEF PositionsOf
  <2>2. n + 1 \notin A
      BY <1>1 DEF PositionsOf
  <2> HIDE DEF A, B, n
  <2>3. Cardinality(B) = Cardinality(A) + 1
      BY <1>2, <2>1, <2>2, FS_AddElement
  <2> QED
      BY <1>2, <1>3, <2>3 DEF CountOf, Is, A, B
<1>4. CASE e.kind # kind
  <2>1. B = A
      BY <1>1, <1>4 DEF PositionsOf
  <2> HIDE DEF A, B, n
  <2> QED
      BY <1>2, <1>4, <2>1 DEF CountOf, Is, A, B
<1> QED
    BY <1>3, <1>4

\* Counting an event takes it off what is left of its kind.
LEMMA CountNext ==
    ASSUME NEW S, NEW batch \in Seq(S), NEW kind,
           NEW from \in 0 .. Len(batch) - 1
    PROVE  CountOf(batch, from, kind) =
             CountOf(batch, from + 1, kind) + Is(batch[from + 1], kind)
<1> DEFINE A == PositionsOf(batch, from, kind)
           B == PositionsOf(batch, from + 1, kind)
<1>1. Len(batch) \in Nat /\ from + 1 \in Nat
    OBVIOUS
<1>2. IsFiniteSet(B) /\ Cardinality(B) \in Nat
    BY <1>1, CountType, FS_CardinalityType
<1>3. CASE batch[from + 1].kind = kind
  <2>1. A = B \cup {from + 1}
      BY <1>1, <1>3 DEF PositionsOf
  <2>2. from + 1 \notin B
      BY <1>1 DEF PositionsOf
  <2> HIDE DEF A, B
  <2>3. Cardinality(A) = Cardinality(B) + 1
      BY <1>2, <2>1, <2>2, FS_AddElement
  <2> QED
      BY <1>2, <1>3, <2>3 DEF CountOf, Is, A, B
<1>4. CASE batch[from + 1].kind # kind
  <2>1. A = B
      BY <1>1, <1>4 DEF PositionsOf
  <2> HIDE DEF A, B
  <2> QED
      BY <1>2, <1>4, <2>1 DEF CountOf, Is, A, B
<1> QED
    BY <1>3, <1>4

\* A batch of one event.
LEMMA CountSingle ==
    ASSUME NEW S, NEW e \in S, NEW kind
    PROVE  CountOf(<<e>>, 0, kind) = Is(e, kind)
<1> DEFINE one == <<e>>
<1>1. Len(one) = 1 /\ one[1] = e
    OBVIOUS
<1> HIDE DEF one
<1>2. 0 + 1 .. Len(one) = {1}
    BY <1>1
<1>3. PositionsOf(one, 0, kind) = IF e.kind = kind THEN {1} ELSE {}
    BY <1>1, <1>2 DEF PositionsOf
<1>4. CountOf(one, 0, kind) = Is(e, kind)
    BY <1>3, FS_EmptySet, FS_Singleton DEF CountOf, Is
<1> QED
    BY <1>4 DEF one

----------------------------------------------------------------------------
(* The inductive invariant                                                  *)

\* The events of a kind that the book has reported and nobody has counted.
Uncounted(kind) ==
    IF Idle /\ ~publishing THEN 0 ELSE CountOf(events, counted, kind)

\* How far the counting is.
LockInv ==
    /\ ~Counting => counted = 0
    /\ publishing => Idle

\* The size of the batch is added at once, the kinds one by one.
SumInv ==
    metrics.events_seen =
        metrics.accepted_orders + metrics.rejected_orders
        + metrics.trades_executed + metrics.canceled_orders
        + (IF Counting THEN Len(events) - counted ELSE 0)

\* The maximum and the sum of the latencies bound each other, and the total is
\* that sum while it fits.
LatencyInv ==
    /\ metrics.command_latency_ns_max <= recorded
    /\ recorded
         <= metrics.command_latency_samples * metrics.command_latency_ns_max
    /\ recorded <= UIntMax => metrics.command_latency_ns_total = recorded

\* Until a reset: a trade for each execution id, and an accepted order that was
\* not canceled for each open order and for the order being matched.
TradesCounted ==
    metrics.trades_executed + Uncounted("trade") = book.next_execution_id - 1

\* Every open order was counted as accepted and not as canceled.
OpenOrdersCounted ==
    /\ IsFiniteSet(Locs)
    /\ ~was_reset =>
         metrics.accepted_orders + Uncounted("accepted")
           >= metrics.canceled_orders + Uncounted("canceled")
                + Cardinality(Locs) + (IF Idle THEN 0 ELSE 1)

\* The inductive invariant of the collector and the book it listens to.
MetricsInv ==
    /\ IndInv
    /\ MetricsTypeOK
    /\ LockInv
    /\ SumInv
    /\ LatencyInv
    /\ SnapshotIsConsistent
    /\ ~was_reset => TradesCounted
    /\ OpenOrdersCounted

\* The counters of the collector.
LEMMA Fields ==
    DOMAIN ZeroMetrics =
      {"events_seen", "accepted_orders", "rejected_orders", "trades_executed",
       "canceled_orders", "command_latency_samples",
       "command_latency_ns_total", "command_latency_ns_max"}
    BY DEF ZeroMetrics

\* What is not counted yet is a natural number.
LEMMA UncountedType ==
    ASSUME TypeOK, MetricsTypeOK, NEW kind PROVE Uncounted(kind) \in Nat
<1>1. events \in Seq(Events) /\ counted \in Nat
    BY DEF TypeOK, MetricsTypeOK
<1>2. CountOf(events, counted, kind) \in Nat
    BY <1>1, CountType
<1> QED
    BY <1>2 DEF Uncounted

\* The invariant holds of a new book and a new collector.
LEMMA InitMetricsInv == MetricsInit => MetricsInv
<1> SUFFICES ASSUME MetricsInit PROVE MetricsInv
    OBVIOUS
<1>1. IndInv
    BY InitIndInv DEF MetricsInit
<1>2. /\ metrics = ZeroMetrics /\ mutex = "none" /\ publishing = FALSE
      /\ counted = 0 /\ report = NoReport /\ was_reset = FALSE /\ calls = 0
      /\ recorded = 0 /\ events = <<>> /\ Idle
    BY DEF MetricsInit, Init, Idle
<1>0. ~Counting
    BY <1>2 DEF Counting
<1>3. metrics \in [DOMAIN ZeroMetrics -> Nat]
    BY <1>2 DEF ZeroMetrics
<1>4. MetricsTypeOK
  <2>1. counted \in 0 .. Len(events) /\ calls \in 0 .. MaxCalls
      BY <1>2, MetricsAssumption
  <2>2. /\ report \in [DOMAIN ZeroMetrics -> Nat] \cup {NoReport}
        /\ Counting => publishing
      BY <1>0, <1>2, Zenon
  <2>4. mutex \in {"none", "trader", "monitor"} /\ recorded \in Nat
      BY <1>2
  <2>3. <<publishing, was_reset>> \in BOOLEAN \X BOOLEAN
      BY <1>2
  <2> QED
      BY <1>3, <2>1, <2>2, <2>3, <2>4, Zenon DEF MetricsTypeOK
<1>5. LockInv /\ SumInv /\ LatencyInv /\ SnapshotIsConsistent
  <2>1. LockInv /\ SnapshotIsConsistent
      BY <1>2, Zenon DEF LockInv, SnapshotIsConsistent
  <2>2. LatencyInv
      BY <1>2 DEF LatencyInv, ZeroMetrics
  <2>4. SumInv
      BY <1>0, <1>2 DEF SumInv, ZeroMetrics
  <2> QED
      BY <2>1, <2>2, <2>4
<1>6. \A kind : Uncounted(kind) = 0
    BY <1>2 DEF Uncounted
<1>7. TradesCounted
    BY <1>2, <1>6 DEF TradesCounted, ZeroMetrics, MetricsInit, Init, EmptyBook
<1>8. OpenOrdersCounted
  <2>1. Locs = {}
      BY DEF Locs, MetricsInit, Init, EmptyBook
  <2>2. IsFiniteSet(Locs) /\ Cardinality(Locs) = 0
      BY <2>1, FS_EmptySet
  <2> QED
      BY <1>2, <1>6, <2>2 DEF OpenOrdersCounted, ZeroMetrics
<1> QED
    BY <1>1, <1>4, <1>5, <1>7, <1>8 DEF MetricsInv

----------------------------------------------------------------------------
(* The steps                                                                *)

\* Every counter is a natural number.
LEMMA FieldTypes ==
    ASSUME MetricsTypeOK
    PROVE  /\ metrics.events_seen \in Nat
           /\ metrics.accepted_orders \in Nat
           /\ metrics.rejected_orders \in Nat
           /\ metrics.trades_executed \in Nat
           /\ metrics.canceled_orders \in Nat
           /\ metrics.command_latency_samples \in Nat
           /\ metrics.command_latency_ns_total \in Nat
           /\ metrics.command_latency_ns_max \in Nat
    BY Fields DEF MetricsTypeOK

\* A subset of a finite set is finite and no larger; at most one more element
\* makes it at most one larger.
LEMMA FewerLocs ==
    ASSUME NEW A, IsFiniteSet(A), NEW B, NEW x, B \subseteq A \cup {x}
    PROVE  /\ IsFiniteSet(B)
           /\ Cardinality(A) \in Nat /\ Cardinality(B) \in Nat
           /\ Cardinality(B) <= Cardinality(A) + 1
           /\ B \subseteq A => Cardinality(B) <= Cardinality(A)
<1>1. /\ IsFiniteSet(A \cup {x}) /\ Cardinality(A) \in Nat
      /\ \/ Cardinality(A \cup {x}) = Cardinality(A)
         \/ Cardinality(A \cup {x}) = Cardinality(A) + 1
    BY FS_AddElement, FS_CardinalityType
<1>2. /\ IsFiniteSet(B) /\ Cardinality(B) <= Cardinality(A \cup {x})
      /\ B \subseteq A => Cardinality(B) <= Cardinality(A)
    BY <1>1, FS_Subset
<1>3. Cardinality(B) \in Nat
    BY <1>2, FS_CardinalityType
<1> QED
    BY <1>1, <1>2, <1>3

\* What every step of the book does to the events to count and to the open
\* orders.
BookEffect ==
    /\ IsFiniteSet(Locs')
    /\ Uncounted("trade")' - Uncounted("trade") =
         book'.next_execution_id - book.next_execution_id
    /\ Uncounted("accepted")' - Uncounted("canceled")'
         - Cardinality(Locs') - (IF Idle' THEN 0 ELSE 1)
       >= Uncounted("accepted") - Uncounted("canceled")
            - Cardinality(Locs) - (IF Idle THEN 0 ELSE 1)

\* The effect of a step of the book, action by action.
LEMMA BookEffectHolds ==
    ASSUME MetricsInv, BookStep PROVE BookEffect
<1>1. /\ ~publishing /\ counted = 0 /\ counted' = 0 /\ Next
      /\ taker' = NoOrder => publishing'
  <2>1. /\ ~publishing /\ Next /\ counted' = counted
        /\ taker' = NoOrder => publishing'
      BY Zenon DEF BookStep
  <2>2. ~Counting => counted = 0
      BY Zenon DEF MetricsInv, LockInv
  <2>3. ~Counting
      BY <2>1, Zenon DEF MetricsInv, MetricsTypeOK
  <2> QED
      BY <2>1, <2>2, <2>3
<1>2. IndInv /\ TypeOK /\ TypeOK' /\ MetricsTypeOK /\ IsFiniteSet(Locs)
  <2>1. IndInv /\ MetricsTypeOK /\ IsFiniteSet(Locs)
      BY DEF MetricsInv, OpenOrdersCounted
  <2>2. IndInv'
      BY <1>1, <2>1, NextIndInv
  <2> QED
      BY <2>1, <2>2 DEF IndInv
<1>3. /\ \A kind : Idle => Uncounted(kind) = 0
      /\ \A kind : ~Idle => Uncounted(kind) = CountOf(events, 0, kind)
      /\ \A kind : Uncounted(kind)' = CountOf(events', 0, kind)
  <2>1. \A kind : Idle => Uncounted(kind) = 0
      BY <1>1 DEF Uncounted
  <2>2. \A kind : ~Idle => Uncounted(kind) = CountOf(events, 0, kind)
      BY <1>1 DEF Uncounted
  <2>3. \A kind : Uncounted(kind)' = CountOf(events', 0, kind)
      BY <1>1 DEF Uncounted, Idle
  <2> QED
      BY <2>1, <2>2, <2>3
<1>4. /\ book.next_execution_id \in Nat
      /\ Cardinality(Locs) \in Nat
      /\ events \in Seq(Events) /\ 0 \in 0 .. Len(events)
    BY <1>2, FS_CardinalityType DEF TypeOK, IsBook
<1>5. \A kind : Uncounted(kind) \in Nat
    BY <1>2, UncountedType
<1>6. CASE Rejects
  <2>1. PICK e \in Events : events' = <<e>> /\ e.kind = "rejected"
      BY <1>6 DEF Rejects
  <2>2. \A kind : Uncounted(kind)' = Is(e, kind)
      BY <1>3, <2>1, CountSingle
  <2>3. Idle /\ Idle' /\ book' = book /\ Locs' = Locs
      BY <1>6 DEF Rejects, Idle, Locs
  <2> QED
      BY <1>2, <1>3, <1>4, <2>1, <2>2, <2>3 DEF BookEffect, Is
<1>7. CASE Accepts
  <2> DEFINE e == Accepted(taker')
  <2>1. e \in Events /\ events' = <<e>> /\ e.kind = "accepted"
      BY <1>7 DEF Accepts, Events, Accepted
  <2> HIDE DEF e
  <2>2. \A kind : Uncounted(kind)' = Is(e, kind)
      BY <1>3, <2>1, CountSingle
  <2>3. Idle /\ ~Idle' /\ book' = book /\ Locs' = Locs
      BY <1>7, OrderBookAssumption DEF Accepts, Idle, Locs
  <2>4. /\ Uncounted("trade")' = 0 /\ Uncounted("accepted")' = 1
        /\ Uncounted("canceled")' = 0
      BY <2>1, <2>2 DEF Is
  <2>5. /\ Uncounted("trade") = 0 /\ Uncounted("accepted") = 0
        /\ Uncounted("canceled") = 0
      BY <1>3, <2>3
  <2> QED
      BY <1>2, <1>4, <2>3, <2>4, <2>5 DEF BookEffect
<1>8. CASE Trades
  <2>1. PICK e \in TradeEvents : events' = Append(events, e)
      BY <1>8 DEF Trades
  <2>2. e \in Events /\ e.kind = "trade"
      BY DEF Events, TradeEvents
  <2>3. \A kind : CountOf(events', 0, kind) = CountOf(events, 0, kind) + Is(e, kind)
      BY <1>4, <2>1, <2>2, CountAppend
  <2>4. /\ ~Idle /\ ~Idle' /\ Locs' \subseteq Locs
        /\ book'.next_execution_id = book.next_execution_id + 1
      BY <1>8 DEF Trades, Idle
  <2>5. /\ IsFiniteSet(Locs') /\ Cardinality(Locs') \in Nat
        /\ Cardinality(Locs') <= Cardinality(Locs)
    <3> DEFINE A == Locs
               B == Locs'
    <3>1. B \subseteq A \cup {NoOrder} /\ IsFiniteSet(A) /\ B \subseteq A
        BY <1>2, <2>4
    <3> HIDE DEF A, B
    <3>2. /\ IsFiniteSet(B) /\ Cardinality(B) \in Nat
          /\ Cardinality(B) <= Cardinality(A)
        BY <3>1, FewerLocs
    <3> QED
        BY <3>2 DEF A, B
  <2>6. /\ Uncounted("trade")' = Uncounted("trade") + 1
        /\ Uncounted("accepted")' = Uncounted("accepted")
        /\ Uncounted("canceled")' = Uncounted("canceled")
      BY <1>3, <1>5, <2>2, <2>3, <2>4 DEF Is
  <2> QED
      BY <1>4, <1>5, <2>4, <2>5, <2>6 DEF BookEffect
<1>9. CASE Returns
  <2>1. /\ ~Idle /\ Idle' /\ events' = events
        /\ Locs' \subseteq Locs \cup {taker.order_id}
        /\ book'.next_execution_id = book.next_execution_id
      BY <1>9 DEF Returns, Idle
  <2>2. \A kind : Uncounted(kind)' = Uncounted(kind)
      BY <1>3, <2>1
  <2>3. /\ IsFiniteSet(Locs') /\ Cardinality(Locs') \in Nat
        /\ Cardinality(Locs') <= Cardinality(Locs) + 1
    <3> DEFINE A == Locs
               B == Locs'
    <3>1. B \subseteq A \cup {taker.order_id} /\ IsFiniteSet(A)
        BY <1>2, <2>1
    <3> HIDE DEF A, B
    <3>2. /\ IsFiniteSet(B) /\ Cardinality(B) \in Nat
          /\ Cardinality(B) <= Cardinality(A) + 1
        BY <3>1, FewerLocs
    <3> QED
        BY <3>2 DEF A, B
  <2> QED
      BY <1>4, <1>5, <2>1, <2>2, <2>3 DEF BookEffect
<1>10. CASE Cancels
  <2>1. PICK e \in CanceledEvents : events' = <<e>>
      BY <1>10 DEF Cancels
  <2>2. e \in Events /\ e.kind = "canceled"
      BY DEF Events, CanceledEvents
  <2>3. \A kind : Uncounted(kind)' = Is(e, kind)
      BY <1>3, <2>1, <2>2, CountSingle
  <2>4. /\ Idle /\ Idle'
        /\ book'.next_execution_id = book.next_execution_id
      BY <1>10 DEF Cancels, Idle
  <2>5. PICK id \in Locs : Locs' = Locs \ {id}
      BY <1>10 DEF Cancels
  <2>6. /\ IsFiniteSet(Locs')
        /\ Cardinality(Locs') = Cardinality(Locs) - 1
    <3> DEFINE A == Locs
               B == Locs'
    <3>1. IsFiniteSet(A) /\ id \in A /\ B = A \ {id}
        BY <1>2, <2>5
    <3> HIDE DEF A, B
    <3>2. IsFiniteSet(B) /\ Cardinality(B) = Cardinality(A) - 1
        BY <3>1, FS_RemoveElement
    <3> QED
        BY <3>2 DEF A, B
  <2> QED
      BY <1>3, <1>4, <2>2, <2>3, <2>4, <2>6 DEF BookEffect, Is
<1> QED
    BY <1>1, <1>2, <1>6, <1>7, <1>8, <1>9, <1>10, StepEffect

\* A step of the book keeps the invariant: what it reports is not counted yet.
LEMMA BookStepKeeps == ASSUME MetricsInv, BookStep PROVE MetricsInv'
<1>1. /\ IndInv /\ MetricsTypeOK /\ LockInv /\ SumInv /\ LatencyInv
      /\ ~was_reset => TradesCounted
      /\ OpenOrdersCounted
    BY DEF MetricsInv
<1>2. /\ metrics' = metrics /\ counted' = counted
      /\ report' = NoReport /\ Next
      /\ Idle => calls < MaxCalls
      /\ calls' = IF Idle THEN calls + 1 ELSE calls
    BY DEF BookStep
<1>3. /\ ~Counting /\ ~Counting' /\ mutex' = mutex /\ was_reset' = was_reset
      /\ recorded' = recorded
      /\ publishing' = (taker' = NoOrder)
      /\ counted = 0
  <2>1. ~Counting
      BY <1>1, Zenon DEF BookStep, MetricsTypeOK
  <2>2. mutex' = mutex /\ was_reset' = was_reset /\ recorded' = recorded
      BY Zenon DEF BookStep, history
  <2>3. ~Counting'
      BY <2>1, <2>2 DEF Counting
  <2> QED
      BY <1>1, <2>1, <2>2, <2>3, Zenon DEF BookStep, LockInv
<1>4. IndInv'
    BY <1>1, <1>2, NextIndInv
<1>5. MetricsTypeOK'
  <2>1. counted' \in 0 .. Len(events') /\ calls' \in 0 .. MaxCalls
    <3>1. events' \in Seq(Events)
        BY <1>4 DEF IndInv, TypeOK
    <3>2. Len(events') \in Nat
        BY <3>1
    <3> QED
        BY <1>1, <1>2, <1>3, <3>2, MetricsAssumption DEF MetricsTypeOK
  <2>2. /\ metrics' \in [DOMAIN ZeroMetrics -> Nat]
        /\ report' \in [DOMAIN ZeroMetrics -> Nat] \cup {NoReport}
      BY <1>1, <1>2 DEF MetricsTypeOK
  <2>3. <<publishing', was_reset'>> \in BOOLEAN \X BOOLEAN
    <3>1. publishing' \in BOOLEAN /\ was_reset \in BOOLEAN
        BY <1>1, <1>3 DEF MetricsTypeOK
    <3> QED
        BY <1>3, <3>1
  <2>4. mutex' \in {"none", "trader", "monitor"} /\ recorded' \in Nat
      BY <1>1, <1>3 DEF MetricsTypeOK
  <2> QED
      BY <1>3, <2>1, <2>2, <2>3, <2>4, Zenon DEF MetricsTypeOK
<1>6. LockInv'
    BY <1>1, <1>2, <1>3, Zenon DEF LockInv, Idle
<1>7. SumInv' /\ LatencyInv'
    BY <1>1, <1>2, <1>3 DEF SumInv, LatencyInv
<1>8. SnapshotIsConsistent'
    BY <1>2 DEF SnapshotIsConsistent
<1>9. BookEffect
    BY BookEffectHolds
<1>10. /\ TypeOK /\ TypeOK'
       /\ book.next_execution_id \in Nat /\ book'.next_execution_id \in Nat
       /\ \A kind : Uncounted(kind) \in Nat
  <2>1. TypeOK /\ TypeOK'
      BY <1>1, <1>4 DEF IndInv
  <2> QED
      BY <1>1, <2>1, UncountedType DEF TypeOK, IsBook
<1>11. \A kind : Uncounted(kind)' \in Nat
  <2>1. events' \in Seq(Events) /\ counted' \in Nat
      BY <1>5, <1>10 DEF TypeOK, MetricsTypeOK
  <2>2. \A kind : CountOf(events', counted', kind) \in Nat
      BY <2>1, CountType
  <2> QED
      BY <2>2 DEF Uncounted
<1>12. metrics.trades_executed \in Nat /\ metrics.accepted_orders \in Nat
       /\ metrics.canceled_orders \in Nat
    BY <1>1, FieldTypes
<1>13. ~was_reset' => TradesCounted'
    BY <1>1, <1>2, <1>3, <1>9, <1>10, <1>11, <1>12 DEF TradesCounted, BookEffect
<1>14. OpenOrdersCounted'
  <2>1. IsFiniteSet(Locs) /\ IsFiniteSet(Locs')
      BY <1>1, <1>9 DEF OpenOrdersCounted, BookEffect
  <2>2. Cardinality(Locs) \in Nat /\ Cardinality(Locs') \in Nat
      BY <2>1, FS_CardinalityType
  <2> QED
      BY <1>1, <1>2, <1>3, <1>9, <1>10, <1>11, <1>12, <2>1, <2>2
         DEF OpenOrdersCounted, BookEffect
<1> QED
    BY <1>4, <1>5, <1>6, <1>7, <1>8, <1>13, <1>14 DEF MetricsInv

\* Steps that leave the book alone.
LEMMA BookUnchanged ==
    ASSUME MetricsInv, UNCHANGED vars
    PROVE  /\ IndInv' /\ TypeOK
           /\ book' = book /\ taker' = taker /\ events' = events
           /\ Locs' = Locs /\ Idle' = Idle
           /\ events \in Seq(Events) /\ Len(events) \in Nat
<1>1. IndInv'
    BY NextIndInv DEF MetricsInv
<1>2. TypeOK
    BY DEF MetricsInv, IndInv
<1> QED
    BY <1>1, <1>2 DEF TypeOK, vars, Locs, Idle

\* on_events takes the lock and adds the size of the batch.
LEMMA OnEventsKeeps == ASSUME MetricsInv, on_events PROVE MetricsInv'
<1>1. /\ MetricsTypeOK /\ LockInv /\ SumInv /\ LatencyInv
      /\ ~was_reset => TradesCounted
      /\ OpenOrdersCounted
    BY DEF MetricsInv
<1>2. /\ metrics' = [metrics EXCEPT !.events_seen = @ + Len(events)]
      /\ UNCHANGED vars /\ counted' = counted
      /\ report' = NoReport /\ calls' = calls
    BY DEF on_events
<1>3. /\ publishing /\ ~Counting /\ Counting'
      /\ publishing' = publishing /\ was_reset' = was_reset
      /\ mutex' = "trader" /\ recorded' = recorded
      /\ counted = 0
  <2>1. mutex = "none" /\ mutex' = "trader"
      BY Zenon DEF on_events
  <2>2. ~Counting /\ Counting'
      BY <2>1 DEF Counting
  <2> QED
      BY <1>1, <2>1, <2>2, Zenon DEF on_events, LockInv, history
<1>4. /\ IndInv' /\ events' = events /\ Idle' = Idle /\ Len(events) \in Nat
      /\ book' = book /\ Locs' = Locs
    BY <1>2, BookUnchanged
<1>5. /\ metrics' \in [DOMAIN ZeroMetrics -> Nat]
      /\ metrics'.events_seen = metrics.events_seen + Len(events)
      /\ metrics'.accepted_orders = metrics.accepted_orders
      /\ metrics'.rejected_orders = metrics.rejected_orders
      /\ metrics'.trades_executed = metrics.trades_executed
      /\ metrics'.canceled_orders = metrics.canceled_orders
      /\ metrics'.command_latency_samples = metrics.command_latency_samples
      /\ metrics'.command_latency_ns_total = metrics.command_latency_ns_total
      /\ metrics'.command_latency_ns_max = metrics.command_latency_ns_max
    BY <1>1, <1>2, <1>4, Fields, SMTT(30) DEF MetricsTypeOK
<1>6. MetricsTypeOK'
  <2>1. counted' \in 0 .. Len(events') /\ calls' \in 0 .. MaxCalls
      BY <1>1, <1>2, <1>4 DEF MetricsTypeOK
  <2>2. <<publishing', was_reset'>> \in BOOLEAN \X BOOLEAN
      BY <1>1, <1>3 DEF MetricsTypeOK
  <2>3. mutex' \in {"none", "trader", "monitor"} /\ recorded' \in Nat
      BY <1>1, <1>3 DEF MetricsTypeOK
  <2> QED
      BY <1>2, <1>3, <1>5, <2>1, <2>2, <2>3, Zenon DEF MetricsTypeOK
<1>7. LockInv'
    BY <1>1, <1>3, <1>4, Zenon DEF LockInv
<1>8. SumInv'
  <2> DEFINE t == metrics.accepted_orders + metrics.rejected_orders
                  + metrics.trades_executed + metrics.canceled_orders
  <2>1. metrics.events_seen = t + 0
      BY <1>1, <1>3 DEF SumInv
  <2>2. t \in Nat
      BY <1>1, FieldTypes
  <2>3. metrics'.events_seen = t + (Len(events') - counted') => SumInv'
      BY <1>3, <1>5 DEF SumInv
  <2> HIDE DEF t
  <2>4. t + 0 + Len(events) = t + (Len(events) - 0)
      BY <1>4, <2>2
  <2> QED
      BY <1>2, <1>3, <1>4, <1>5, <2>1, <2>3, <2>4
<1>9. LatencyInv'
    BY <1>1, <1>3, <1>5 DEF LatencyInv
<1>10. SnapshotIsConsistent'
    BY <1>2 DEF SnapshotIsConsistent
<1>11. \A kind : Uncounted(kind)' = Uncounted(kind)
    BY <1>2, <1>3, <1>4 DEF Uncounted
<1>12. /\ ~was_reset' => TradesCounted'
       /\ OpenOrdersCounted'
    BY <1>1, <1>3, <1>4, <1>5, <1>11 DEF TradesCounted, OpenOrdersCounted
<1> QED
    BY <1>4, <1>6, <1>7, <1>8, <1>9, <1>10, <1>12 DEF MetricsInv

\* Counting one event of the batch.
LEMMA CountEventKeeps == ASSUME MetricsInv, CountEvent PROVE MetricsInv'
<1> DEFINE e == events[counted + 1]
           field == CounterOf[e.kind]
<1>1. /\ MetricsTypeOK /\ LockInv /\ SumInv /\ LatencyInv
      /\ ~was_reset => TradesCounted
      /\ OpenOrdersCounted
    BY DEF MetricsInv
<1>2. /\ metrics' = [metrics EXCEPT ![field] = @ + 1]
      /\ UNCHANGED vars /\ counted' = counted + 1 /\ counted < Len(events)
      /\ report' = NoReport /\ calls' = calls
    BY DEF CountEvent
<1>3. /\ publishing /\ Counting /\ Counting' /\ mutex' = mutex
      /\ publishing' = publishing /\ was_reset' = was_reset
      /\ recorded' = recorded
  <2>1. Counting /\ mutex' = mutex
      BY Zenon DEF CountEvent
  <2>2. Counting'
      BY <2>1 DEF Counting
  <2> QED
      BY <1>1, <2>1, <2>2, Zenon DEF CountEvent, MetricsTypeOK, history
<1>4. /\ IndInv' /\ events' = events /\ Idle' = Idle /\ Len(events) \in Nat
      /\ book' = book /\ Locs' = Locs /\ events \in Seq(Events)
      /\ TypeOK
    BY <1>2, BookUnchanged
<1>5. counted \in 0 .. Len(events) - 1 /\ e \in Events
    BY <1>1, <1>2, <1>4 DEF MetricsTypeOK
<1>6. e.kind \in {"accepted", "rejected", "trade", "canceled"}
  <2> HIDE DEF e
  <2> QED
      BY <1>5 DEF Events, TradeEvents, CanceledEvents
<1> HIDE DEF e
<1>7. /\ field \in {"accepted_orders", "rejected_orders",
                    "trades_executed", "canceled_orders"}
      /\ field = "accepted_orders" <=> e.kind = "accepted"
      /\ field = "trades_executed" <=> e.kind = "trade"
      /\ field = "canceled_orders" <=> e.kind = "canceled"
    BY <1>6 DEF CounterOf
<1> HIDE DEF field
<1>8. /\ metrics' \in [DOMAIN ZeroMetrics -> Nat]
      /\ metrics'.events_seen = metrics.events_seen
      /\ metrics'.accepted_orders = metrics.accepted_orders + Is(e, "accepted")
      /\ metrics'.trades_executed = metrics.trades_executed + Is(e, "trade")
      /\ metrics'.canceled_orders = metrics.canceled_orders + Is(e, "canceled")
      /\ metrics'.command_latency_samples = metrics.command_latency_samples
      /\ metrics'.command_latency_ns_total = metrics.command_latency_ns_total
      /\ metrics'.command_latency_ns_max = metrics.command_latency_ns_max
    BY <1>1, <1>2, <1>7, Fields, FieldTypes, SMTT(30) DEF MetricsTypeOK, Is
<1>9. metrics'.accepted_orders + metrics'.rejected_orders
        + metrics'.trades_executed + metrics'.canceled_orders
      = metrics.accepted_orders + metrics.rejected_orders
        + metrics.trades_executed + metrics.canceled_orders + 1
    BY <1>1, <1>2, <1>7, Fields, FieldTypes, SMTT(30) DEF MetricsTypeOK
<1>10. MetricsTypeOK'
  <2>1. counted' \in 0 .. Len(events') /\ calls' \in 0 .. MaxCalls
      BY <1>1, <1>2, <1>4 DEF MetricsTypeOK
  <2>2. <<publishing', was_reset'>> \in BOOLEAN \X BOOLEAN
      BY <1>1, <1>3 DEF MetricsTypeOK
  <2>3. mutex' \in {"none", "trader", "monitor"} /\ recorded' \in Nat
      BY <1>1, <1>3 DEF MetricsTypeOK
  <2> QED
      BY <1>2, <1>3, <1>8, <2>1, <2>2, <2>3, Zenon DEF MetricsTypeOK
<1>11. LockInv'
    BY <1>1, <1>3, <1>4, Zenon DEF LockInv
<1>12. SumInv'
  <2> DEFINE t == metrics.accepted_orders + metrics.rejected_orders
                  + metrics.trades_executed + metrics.canceled_orders
             u == metrics'.accepted_orders + metrics'.rejected_orders
                  + metrics'.trades_executed + metrics'.canceled_orders
  <2>1. metrics.events_seen = t + (Len(events) - counted)
      BY <1>1, <1>3 DEF SumInv
  <2>2. t \in Nat /\ u = t + 1
      BY <1>1, <1>9, FieldTypes
  <2>3. metrics'.events_seen = u + (Len(events') - counted') => SumInv'
      BY <1>3 DEF SumInv
  <2> HIDE DEF t, u
  <2>4. t + (Len(events) - counted) = (t + 1) + (Len(events) - (counted + 1))
      BY <1>4, <1>5, <2>2
  <2> QED
      BY <1>2, <1>4, <1>8, <2>1, <2>2, <2>3, <2>4
<1>13. LatencyInv'
    BY <1>1, <1>3, <1>8 DEF LatencyInv
<1>14. SnapshotIsConsistent'
    BY <1>2 DEF SnapshotIsConsistent
<1>15. ASSUME NEW kind
       PROVE  /\ Uncounted(kind) \in Nat /\ Uncounted(kind)' \in Nat
              /\ Uncounted(kind) = Uncounted(kind)' + Is(e, kind)
  <2>1. /\ Uncounted(kind) = CountOf(events, counted, kind)
        /\ Uncounted(kind)' = CountOf(events, counted + 1, kind)
      BY <1>2, <1>3, <1>4 DEF Uncounted
  <2>2. CountOf(events, counted, kind) =
          CountOf(events, counted + 1, kind) + Is(e, kind)
      BY <1>4, <1>5, CountNext DEF e
  <2>3. counted \in Nat /\ counted + 1 \in Nat
      BY <1>4, <1>5
  <2>4. /\ CountOf(events, counted, kind) \in Nat
        /\ CountOf(events, counted + 1, kind) \in Nat
      BY <1>4, <2>3, CountType
  <2> QED
      BY <2>1, <2>2, <2>4
<1>16. \A kind : Is(e, kind) \in Nat
    BY DEF Is
<1>17. ~was_reset' => TradesCounted'
    BY <1>1, <1>3, <1>4, <1>8, <1>15, <1>16, FieldTypes DEF TradesCounted
<1>18. OpenOrdersCounted'
  <2>1. IsFiniteSet(Locs) /\ Cardinality(Locs) \in Nat
      BY <1>1, FS_CardinalityType DEF OpenOrdersCounted
  <2> QED
      BY <1>1, <1>3, <1>4, <1>8, <1>15, <1>16, <2>1, FieldTypes
         DEF OpenOrdersCounted
<1> QED
    BY <1>4, <1>10, <1>11, <1>12, <1>13, <1>14, <1>17, <1>18 DEF MetricsInv

\* on_events gives the lock back once every event is counted.
LEMMA EndEventsKeeps == ASSUME MetricsInv, EndEvents PROVE MetricsInv'
<1>1. /\ MetricsTypeOK /\ LockInv /\ SumInv /\ LatencyInv
      /\ ~was_reset => TradesCounted
      /\ OpenOrdersCounted
    BY DEF MetricsInv
<1>2. /\ metrics' = metrics /\ UNCHANGED vars /\ counted = Len(events)
      /\ counted' = 0 /\ report' = NoReport /\ calls' = calls
    BY DEF EndEvents
<1>3. /\ publishing /\ Counting /\ ~Counting'
      /\ publishing' = FALSE /\ ~publishing' /\ was_reset' = was_reset /\ Idle
      /\ mutex' = "none" /\ recorded' = recorded
  <2>1. Counting /\ mutex' = "none"
      BY Zenon DEF EndEvents
  <2>2. ~Counting'
      BY <2>1 DEF Counting
  <2> QED
      BY <1>1, <2>1, <2>2, Zenon DEF EndEvents, MetricsTypeOK, LockInv, history
<1>4. /\ IndInv' /\ events' = events /\ Idle' = Idle /\ Len(events) \in Nat
      /\ book' = book /\ Locs' = Locs /\ events \in Seq(Events)
    BY <1>2, BookUnchanged
<1>5. MetricsTypeOK'
  <2>1. counted' \in 0 .. Len(events') /\ calls' \in 0 .. MaxCalls
      BY <1>1, <1>2, <1>4 DEF MetricsTypeOK
  <2>2. <<publishing', was_reset'>> \in BOOLEAN \X BOOLEAN
      BY <1>1, <1>3 DEF MetricsTypeOK
  <2>3. mutex' \in {"none", "trader", "monitor"} /\ recorded' \in Nat
      BY <1>1, <1>3 DEF MetricsTypeOK
  <2> QED
      BY <1>1, <1>2, <1>3, <2>1, <2>2, <2>3, Zenon DEF MetricsTypeOK
<1>6. LockInv'
    BY <1>2, <1>3, Zenon DEF LockInv
<1>7. SumInv'
  <2>1. Len(events) - counted = 0
      BY <1>2, <1>4
  <2> QED
      BY <1>1, <1>2, <1>3, <2>1 DEF SumInv
<1>8. LatencyInv' /\ SnapshotIsConsistent'
    BY <1>1, <1>2, <1>3 DEF LatencyInv, SnapshotIsConsistent
<1>9. \A kind : Uncounted(kind)' = Uncounted(kind)
  <2>1. \A kind : CountOf(events, counted, kind) = 0
      BY <1>2, <1>4, CountEnd
  <2>2. \A kind : Uncounted(kind) = 0 /\ Uncounted(kind)' = 0
      BY <1>3, <1>4, <2>1 DEF Uncounted
  <2> QED
      BY <2>2
<1>10. /\ ~was_reset' => TradesCounted'
       /\ OpenOrdersCounted'
    BY <1>1, <1>2, <1>3, <1>4, <1>9 DEF TradesCounted, OpenOrdersCounted
<1> QED
    BY <1>4, <1>5, <1>6, <1>7, <1>8, <1>10 DEF MetricsInv

\* What the steps of the monitor have in common: the book and the delivery are
\* left alone, and so is the lock while on_events has it.
LEMMA WatcherKeeps ==
    ASSUME MetricsInv, UNCHANGED vars, Counting' <=> Counting,
           UNCHANGED <<publishing, counted, calls>>
    PROVE  /\ IndInv' /\ LockInv'
           /\ Counting' => publishing'
           /\ counted' \in 0 .. Len(events') /\ calls' \in 0 .. MaxCalls
           /\ publishing' \in BOOLEAN /\ was_reset \in BOOLEAN
           /\ Idle' = Idle /\ book' = book /\ Locs' = Locs
           /\ \A kind : Uncounted(kind)' = Uncounted(kind)
<1>1. /\ IndInv' /\ events' = events /\ Idle' = Idle /\ book' = book /\ Locs' = Locs
    BY BookUnchanged
<1>2. MetricsTypeOK /\ LockInv
    BY DEF MetricsInv
<1>3. counted' = counted /\ calls' = calls
    OBVIOUS
<1>4. publishing' = publishing
    BY Zenon
<1>5. LockInv' /\ (Counting' => publishing')
  <2>1. /\ ~Counting => counted = 0
        /\ publishing => Idle
        /\ Counting => publishing
      BY <1>2, Zenon DEF LockInv, MetricsTypeOK
  <2>3. Counting' <=> Counting
      OBVIOUS
  <2>4. publishing' <=> publishing
      BY <1>4
  <2>5. Idle' <=> Idle
      BY <1>1
  <2>6. Counting' => publishing'
      BY <2>1, <2>3, <2>4, Zenon
  <2>7. ~Counting' => counted' = 0
      BY <1>3, <2>1, <2>3
  <2>8. publishing' => Idle'
      BY <2>1, <2>4, <2>5, Zenon
  <2> QED
      BY <2>6, <2>7, <2>8, Zenon DEF LockInv
<1>6. counted' \in 0 .. Len(events') /\ calls' \in 0 .. MaxCalls
    BY <1>1, <1>2, <1>3 DEF MetricsTypeOK
<1>7. publishing' \in BOOLEAN /\ was_reset \in BOOLEAN
    BY <1>2, <1>4 DEF MetricsTypeOK
<1>8. \A kind : Uncounted(kind)' = Uncounted(kind)
    BY <1>1, <1>3, <1>4 DEF Uncounted
<1> QED
    BY <1>1, <1>5, <1>6, <1>7, <1>8

\* Taking the lock changes nothing else.
LEMMA LockGuardKeeps == ASSUME MetricsInv, LockGuard PROVE MetricsInv'
<1>1. /\ MetricsTypeOK /\ SumInv /\ LatencyInv
      /\ ~was_reset => TradesCounted
      /\ OpenOrdersCounted
    BY DEF MetricsInv
<1>2. /\ ~Counting /\ ~Counting' /\ report' = NoReport /\ metrics' = metrics
      /\ UNCHANGED vars /\ UNCHANGED <<publishing, counted, calls>>
      /\ mutex' = "monitor" /\ was_reset' = was_reset /\ recorded' = recorded
  <2>1. mutex = "none" /\ mutex' = "monitor"
      BY Zenon DEF LockGuard
  <2>2. ~Counting /\ ~Counting'
      BY <2>1 DEF Counting
  <2> QED
      BY <2>1, <2>2, Zenon DEF LockGuard, history
<1>3. /\ IndInv' /\ LockInv'
      /\ Counting' => publishing'
      /\ counted' \in 0 .. Len(events') /\ calls' \in 0 .. MaxCalls
      /\ publishing' \in BOOLEAN /\ was_reset \in BOOLEAN
      /\ Idle' = Idle /\ book' = book /\ Locs' = Locs
      /\ \A kind : Uncounted(kind)' = Uncounted(kind)
    BY <1>2, WatcherKeeps
<1>4. MetricsTypeOK'
  <2>1. <<publishing', was_reset'>> \in BOOLEAN \X BOOLEAN
      BY <1>2, <1>3
  <2>2. mutex' \in {"none", "trader", "monitor"} /\ recorded' \in Nat
      BY <1>1, <1>2 DEF MetricsTypeOK
  <2> QED
      BY <1>1, <1>2, <1>3, <2>1, <2>2, Zenon DEF MetricsTypeOK
<1>5. SumInv' /\ LatencyInv' /\ SnapshotIsConsistent'
    BY <1>1, <1>2 DEF SumInv, LatencyInv, SnapshotIsConsistent
<1>6. /\ ~was_reset' => TradesCounted'
      /\ OpenOrdersCounted'
    BY <1>1, <1>2, <1>3 DEF TradesCounted, OpenOrdersCounted
<1> QED
    BY <1>3, <1>4, <1>5, <1>6 DEF MetricsInv

\* snapshot copies the counters under the lock.
LEMMA SnapshotKeeps == ASSUME MetricsInv, snapshot PROVE MetricsInv'
<1>1. /\ MetricsTypeOK /\ LockInv /\ SumInv /\ LatencyInv
      /\ ~was_reset => TradesCounted
      /\ OpenOrdersCounted
    BY DEF MetricsInv
<1>2. /\ ~Counting /\ ~Counting' /\ report' = metrics /\ metrics' = metrics
      /\ UNCHANGED vars /\ UNCHANGED <<publishing, counted, calls>>
      /\ mutex' = "none" /\ was_reset' = was_reset /\ recorded' = recorded
  <2>1. mutex = "monitor" /\ mutex' = "none"
      BY Zenon DEF snapshot
  <2>2. ~Counting /\ ~Counting'
      BY <2>1 DEF Counting
  <2> QED
      BY <2>1, <2>2, Zenon DEF snapshot, history
<1>3. /\ IndInv' /\ LockInv'
      /\ Counting' => publishing'
      /\ counted' \in 0 .. Len(events') /\ calls' \in 0 .. MaxCalls
      /\ publishing' \in BOOLEAN /\ was_reset \in BOOLEAN
      /\ Idle' = Idle /\ book' = book /\ Locs' = Locs
      /\ \A kind : Uncounted(kind)' = Uncounted(kind)
    BY <1>2, WatcherKeeps
<1>4. MetricsTypeOK'
  <2>1. <<publishing', was_reset'>> \in BOOLEAN \X BOOLEAN
      BY <1>2, <1>3
  <2>2. mutex' \in {"none", "trader", "monitor"} /\ recorded' \in Nat
      BY <1>1, <1>2 DEF MetricsTypeOK
  <2> QED
      BY <1>1, <1>2, <1>3, <2>1, <2>2, Zenon DEF MetricsTypeOK
<1>5. SnapshotIsConsistent'
  <2>1. metrics.events_seen = metrics.accepted_orders + metrics.rejected_orders
            + metrics.trades_executed + metrics.canceled_orders
      BY <1>1, <1>2, FieldTypes DEF SumInv
  <2>2. recorded <= UIntMax =>
          /\ metrics.command_latency_ns_max <= metrics.command_latency_ns_total
          /\ metrics.command_latency_ns_total
               <= metrics.command_latency_samples * metrics.command_latency_ns_max
      BY <1>1 DEF LatencyInv
  <2> QED
      BY <1>2, <2>1, <2>2 DEF SnapshotIsConsistent
<1>6. SumInv' /\ LatencyInv'
    BY <1>1, <1>2 DEF SumInv, LatencyInv
<1>7. /\ ~was_reset' => TradesCounted'
      /\ OpenOrdersCounted'
    BY <1>1, <1>2, <1>3 DEF TradesCounted, OpenOrdersCounted
<1> QED
    BY <1>3, <1>4, <1>5, <1>6, <1>7 DEF MetricsInv

\* reset clears the counters under the lock.
LEMMA ResetKeeps == ASSUME MetricsInv, reset PROVE MetricsInv'
<1>1. OpenOrdersCounted
    BY DEF MetricsInv
<1>2. /\ ~Counting /\ ~Counting' /\ report' = NoReport /\ metrics' = ZeroMetrics
      /\ UNCHANGED vars /\ UNCHANGED <<publishing, counted, calls>>
      /\ was_reset' = TRUE /\ was_reset' /\ mutex' = "none" /\ recorded' = 0
  <2>1. mutex = "monitor" /\ mutex' = "none"
      BY Zenon DEF reset
  <2>2. ~Counting /\ ~Counting'
      BY <2>1 DEF Counting
  <2> QED
      BY <2>1, <2>2, Zenon DEF reset
<1>3. /\ IndInv' /\ LockInv'
      /\ Counting' => publishing'
      /\ counted' \in 0 .. Len(events') /\ calls' \in 0 .. MaxCalls
      /\ publishing' \in BOOLEAN
      /\ Locs' = Locs
    BY <1>2, WatcherKeeps
<1>4. MetricsTypeOK'
  <2>1. <<publishing', was_reset'>> \in BOOLEAN \X BOOLEAN
      BY <1>2, <1>3
  <2>2. metrics' \in [DOMAIN ZeroMetrics -> Nat]
      BY <1>2 DEF ZeroMetrics
  <2>3. mutex' \in {"none", "trader", "monitor"} /\ recorded' \in Nat
      BY <1>2
  <2> QED
      BY <1>2, <1>3, <2>1, <2>2, <2>3, Zenon DEF MetricsTypeOK
<1>5. SumInv' /\ LatencyInv'
    BY <1>2 DEF SumInv, LatencyInv, ZeroMetrics
<1>6. SnapshotIsConsistent'
    BY <1>2 DEF SnapshotIsConsistent
<1>7. OpenOrdersCounted'
    BY <1>1, <1>2, <1>3 DEF OpenOrdersCounted
<1> QED
    BY <1>2, <1>3, <1>4, <1>5, <1>6, <1>7 DEF MetricsInv

\* The larger of two numbers, as std::max returns it.
LEMMA MaxOfTwo ==
    ASSUME NEW a \in Nat, NEW b \in Nat
    PROVE  /\ Max({a, b}) \in {a, b}
           /\ Max({a, b}) >= a /\ Max({a, b}) >= b
<1>1. \E x \in {a, b} : \A y \in {a, b} : x >= y
  <2>1. CASE a >= b
      BY <2>1
  <2>2. CASE ~(a >= b)
      BY <2>2
  <2> QED
      BY <2>1, <2>2
<1>2. /\ Max({a, b}) \in {a, b}
      /\ \A y \in {a, b} : Max({a, b}) >= y
    BY <1>1 DEF Max
<1> QED
    BY <1>2

\* One more sample keeps the total between the maximum and samples times it.
LEMMA SampleBounds ==
    ASSUME NEW n \in Nat, NEW total \in Nat, NEW max \in Nat, NEW d \in Nat,
           max <= total, total <= n * max, NEW m \in Nat, m \in {max, d},
           m >= max, m >= d
    PROVE  m <= total + d /\ total + d <= (n + 1) * m
<1>1. m <= total + d
    OBVIOUS
<1>2. n * max <= n * m
    OBVIOUS
<1>3. (n + 1) * m = n * m + m /\ n * m \in Nat /\ n * max \in Nat
    OBVIOUS
<1> QED
    BY <1>1, <1>2, <1>3

\* The cast to an unsigned type gives a number, the same one if it fits.
LEMMA UnsignedFacts ==
    /\ \A x \in Int : Unsigned(x) \in Nat
    /\ \A x \in 0 .. UIntMax : Unsigned(x) = x
<1>1. UIntMax + 1 \in Nat /\ UIntMax + 1 > 0
    BY MetricsAssumption
<1> QED
    BY <1>1, MetricsAssumption DEF Unsigned

\* record_latency adds one sample under the lock.
LEMMA RecordKeeps ==
    ASSUME MetricsInv, NEW duration \in Latencies, record_latency(duration)
    PROVE  MetricsInv'
<1> DEFINE max == metrics.command_latency_ns_max
           ns == Unsigned(duration)
           top == Max({max, ns})
<1>1. /\ MetricsTypeOK /\ LockInv /\ SumInv /\ LatencyInv
      /\ ~was_reset => TradesCounted
      /\ OpenOrdersCounted
    BY DEF MetricsInv
<1>2. /\ ~Counting /\ ~Counting' /\ report' = NoReport
      /\ UNCHANGED vars /\ UNCHANGED <<publishing, counted, calls>>
      /\ mutex' = "none" /\ was_reset' = was_reset
      /\ recorded' = recorded + ns
  <2>1. mutex = "monitor" /\ mutex' = "none"
      BY Zenon DEF record_latency
  <2>2. ~Counting /\ ~Counting'
      BY <2>1 DEF Counting
  <2> QED
      BY <2>1, <2>2, Zenon DEF record_latency
<1>3. /\ IndInv' /\ LockInv'
      /\ Counting' => publishing'
      /\ counted' \in 0 .. Len(events') /\ calls' \in 0 .. MaxCalls
      /\ publishing' \in BOOLEAN /\ was_reset \in BOOLEAN
      /\ Idle' = Idle /\ book' = book /\ Locs' = Locs
      /\ \A kind : Uncounted(kind)' = Uncounted(kind)
    BY <1>2, WatcherKeeps
<1>4. /\ ns \in Nat /\ max \in Nat /\ recorded \in Nat
      /\ metrics.command_latency_samples \in Nat
      /\ metrics.command_latency_ns_total \in Nat
  <2>1. ns \in Nat
      BY MetricsAssumption, UnsignedFacts
  <2> QED
      BY <1>1, <2>1, FieldTypes DEF MetricsTypeOK
<1>5. top \in {max, ns} /\ top >= max /\ top >= ns /\ top \in Nat
    BY <1>4, MaxOfTwo
<1>6. metrics' = [metrics EXCEPT
                    !.command_latency_samples = @ + 1,
                    !.command_latency_ns_total = Unsigned(@ + ns),
                    !.command_latency_ns_max = top]
    BY DEF record_latency
<1> HIDE DEF top, ns
<1>7. /\ metrics' \in [DOMAIN ZeroMetrics -> Nat]
      /\ metrics'.events_seen = metrics.events_seen
      /\ metrics'.accepted_orders = metrics.accepted_orders
      /\ metrics'.rejected_orders = metrics.rejected_orders
      /\ metrics'.trades_executed = metrics.trades_executed
      /\ metrics'.canceled_orders = metrics.canceled_orders
      /\ metrics'.command_latency_samples = metrics.command_latency_samples + 1
      /\ metrics'.command_latency_ns_total =
           Unsigned(metrics.command_latency_ns_total + ns)
      /\ metrics'.command_latency_ns_max = top
  <2> DEFINE n == metrics.command_latency_samples + 1
             total == Unsigned(metrics.command_latency_ns_total + ns)
  <2>1. n \in Nat /\ total \in Nat /\ top \in Nat
      BY <1>4, <1>5, UnsignedFacts
  <2>2. metrics' = [[[metrics EXCEPT !["command_latency_samples"] = n]
                              EXCEPT !["command_latency_ns_total"] = total]
                              EXCEPT !["command_latency_ns_max"] = top]
      BY <1>1, <1>6, Fields DEF MetricsTypeOK
  <2>3. metrics \in [DOMAIN ZeroMetrics -> Nat]
      BY <1>1 DEF MetricsTypeOK
  <2> HIDE DEF n, total, max
  <2>4. metrics' \in [DOMAIN ZeroMetrics -> Nat]
      BY <2>1, <2>2, <2>3
  <2>5. /\ metrics'.command_latency_samples = n
        /\ metrics'.command_latency_ns_total = total
        /\ metrics'.command_latency_ns_max = top
      BY <2>1, <2>2, <2>3, Fields
  <2>6. /\ metrics'.events_seen = metrics.events_seen
        /\ metrics'.accepted_orders = metrics.accepted_orders
        /\ metrics'.rejected_orders = metrics.rejected_orders
        /\ metrics'.trades_executed = metrics.trades_executed
        /\ metrics'.canceled_orders = metrics.canceled_orders
      BY <2>2, <2>3, Fields
  <2> QED
      BY <2>4, <2>5, <2>6 DEF n, total
<1>8. MetricsTypeOK'
  <2>1. <<publishing', was_reset'>> \in BOOLEAN \X BOOLEAN
      BY <1>2, <1>3
  <2>2. mutex' \in {"none", "trader", "monitor"} /\ recorded' \in Nat
      BY <1>2, <1>4
  <2> QED
      BY <1>2, <1>3, <1>7, <2>1, <2>2, Zenon DEF MetricsTypeOK
<1>9. SumInv'
    BY <1>1, <1>2, <1>7 DEF SumInv
<1>10. LatencyInv'
  <2> DEFINE n == metrics.command_latency_samples
  <2>1. /\ max <= recorded /\ recorded <= n * max /\ n \in Nat
        /\ recorded <= UIntMax => metrics.command_latency_ns_total = recorded
      BY <1>1, <1>4 DEF LatencyInv
  <2> HIDE DEF n, max
  <2>2. top <= recorded + ns /\ recorded + ns <= (n + 1) * top
      BY <1>4, <1>5, <2>1, SampleBounds
  <2>3. ASSUME recorded + ns <= UIntMax
        PROVE  Unsigned(metrics.command_latency_ns_total + ns) = recorded + ns
    <3>1. recorded <= UIntMax /\ recorded + ns \in 0 .. UIntMax
        BY <1>4, <2>3, MetricsAssumption
    <3> QED
        BY <2>1, <3>1, UnsignedFacts
  <2> QED
      BY <1>2, <1>7, <2>2, <2>3 DEF LatencyInv, n
<1>11. SnapshotIsConsistent'
    BY <1>2 DEF SnapshotIsConsistent
<1>12. /\ ~was_reset' => TradesCounted'
       /\ OpenOrdersCounted'
    BY <1>1, <1>2, <1>3, <1>7 DEF TradesCounted, OpenOrdersCounted
<1> QED
    BY <1>3, <1>8, <1>9, <1>10, <1>11, <1>12 DEF MetricsInv

----------------------------------------------------------------------------
(* The theorems                                                             *)

\* No step of either thread breaks the invariant.
LEMMA NextMetricsInv == MetricsInv /\ [MetricsNext]_allVars => MetricsInv'
<1> SUFFICES ASSUME MetricsInv, [MetricsNext]_allVars PROVE MetricsInv'
    OBVIOUS
<1>1. CASE BookStep
    BY <1>1, BookStepKeeps
<1>2. CASE on_events
    BY <1>2, OnEventsKeeps
<1>3. CASE CountEvent
    BY <1>3, CountEventKeeps
<1>4. CASE EndEvents
    BY <1>4, EndEventsKeeps
<1>9. CASE LockGuard
    BY <1>9, LockGuardKeeps
<1>5. CASE snapshot
    BY <1>5, SnapshotKeeps
<1>6. CASE reset
    BY <1>6, ResetKeeps
<1>7. CASE \E duration \in Latencies : record_latency(duration)
    BY <1>7, RecordKeeps
<1>8. CASE UNCHANGED allVars
  <2>1. /\ UNCHANGED vars /\ UNCHANGED <<publishing, counted, calls>>
        /\ metrics' = metrics /\ report' = report
        /\ mutex' = mutex /\ recorded' = recorded
      BY <1>8 DEF allVars, metricsVars, history
  <2>2. (Counting' <=> Counting) /\ was_reset' = was_reset
    <3>1. Counting' <=> Counting
        BY <2>1 DEF Counting
    <3> QED
        BY <1>8, <3>1, Zenon DEF allVars, metricsVars, history
  <2>3. /\ IndInv' /\ LockInv'
        /\ Counting' => publishing'
        /\ counted' \in 0 .. Len(events') /\ calls' \in 0 .. MaxCalls
        /\ publishing' \in BOOLEAN /\ was_reset \in BOOLEAN
        /\ Idle' = Idle /\ book' = book /\ Locs' = Locs
        /\ \A kind : Uncounted(kind)' = Uncounted(kind)
      BY <2>1, <2>2, WatcherKeeps
  <2>4. /\ MetricsTypeOK /\ SumInv /\ LatencyInv /\ SnapshotIsConsistent
        /\ ~was_reset => TradesCounted
        /\ OpenOrdersCounted
      BY DEF MetricsInv
  <2>5. MetricsTypeOK'
    <3>1. <<publishing', was_reset'>> \in BOOLEAN \X BOOLEAN
        BY <2>2, <2>3
    <3>2. mutex' \in {"none", "trader", "monitor"} /\ recorded' \in Nat
        BY <2>1, <2>4 DEF MetricsTypeOK
    <3> QED
        BY <2>1, <2>3, <2>4, <3>1, <3>2, Zenon DEF MetricsTypeOK
  <2>6. events' = events /\ counted' = counted
      BY <2>1, BookUnchanged
  <2>7. SumInv' /\ LatencyInv' /\ SnapshotIsConsistent'
      BY <2>1, <2>2, <2>4, <2>6 DEF SumInv, LatencyInv, SnapshotIsConsistent
  <2>8. /\ ~was_reset' => TradesCounted'
        /\ OpenOrdersCounted'
      BY <2>1, <2>2, <2>3, <2>4 DEF TradesCounted, OpenOrdersCounted
  <2> QED
      BY <2>3, <2>5, <2>7, <2>8 DEF MetricsInv
<1> QED
    BY <1>1, <1>2, <1>3, <1>4, <1>5, <1>6, <1>7, <1>8, <1>9
       DEF MetricsNext, MonitorSteps

\* The inductive invariant of the collector and its book holds throughout.
THEOREM MetricsInvHolds == MetricsSpec => []MetricsInv
<1> QED
    BY InitMetricsInv, NextMetricsInv, PTL DEF MetricsSpec

\* The counters, the report and the progress of the delivery have their types,
\* and mutex_ is held only while a batch is being counted.
THEOREM MetricsTypeCorrect == MetricsSpec => []MetricsTypeOK
<1>1. MetricsInv => MetricsTypeOK
    BY DEF MetricsInv
<1> QED
    BY MetricsInvHolds, <1>1, PTL

\* Whatever the book does, however large its batches and however on_events,
\* reset and record_latency interleave, what snapshot returns adds up,
\* the latencies as long as their sum fits the total.
THEOREM SnapshotsAreConsistent == MetricsSpec => []SnapshotIsConsistent
<1>1. MetricsInv => SnapshotIsConsistent
    BY DEF MetricsInv
<1> QED
    BY MetricsInvHolds, <1>1, PTL

\* Until a reset, and between two calls, trades_executed is the number of
\* execution ids the book has handed out, and accepted_orders less
\* canceled_orders is at least the number of open orders.
THEOREM CountersAgreeWithBook == MetricsSpec => []CountersFollowBook
<1>1. MetricsInv => CountersFollowBook
  <2> SUFFICES ASSUME MetricsInv, Idle, ~publishing, ~was_reset
               PROVE  /\ metrics.trades_executed = book.next_execution_id - 1
                      /\ metrics.accepted_orders - metrics.canceled_orders
                           >= Cardinality(DOMAIN book.order_locations)
      BY Zenon DEF CountersFollowBook
  <2>1. MetricsTypeOK /\ TradesCounted /\ OpenOrdersCounted
      BY Zenon DEF MetricsInv
  <2>2. \A kind : Uncounted(kind) = 0
      BY Zenon DEF Uncounted
  <2>3. metrics.trades_executed = book.next_execution_id - 1
      BY <2>1, <2>2, FieldTypes DEF TradesCounted
  <2>4. IsFiniteSet(Locs) /\ Cardinality(Locs) \in Nat
      BY <2>1, FS_CardinalityType DEF OpenOrdersCounted
  <2>5. metrics.accepted_orders >= metrics.canceled_orders + Cardinality(Locs)
      BY <2>1, <2>2, <2>4, FieldTypes DEF OpenOrdersCounted
  <2> QED
      BY <2>1, <2>3, <2>4, <2>5, FieldTypes DEF Locs
<1> QED
    BY MetricsInvHolds, <1>1, PTL

----------------------------------------------------------------------------
(* Progress                                                                 *)

\* What a call of the book still has to go through before it returns: its
\* matching, the wait for the lock, the counting of its batch.
StagesLeft ==
    CASE ~Idle                   -> 3
      [] publishing /\ ~Counting -> 2
      [] Counting                -> 1
      [] OTHER                   -> 0

WorkLeft ==
    CASE ~Idle    -> remaining
      [] Counting -> Len(events) - counted
      [] OTHER    -> 0

\* While a call runs, a step of its thread gets to a later stage or does some
\* of the work of this one, and a step of the monitor takes nothing back.
DeliveryAdvances ==
    ~Idle \/ publishing =>
        /\ WorkLeft \in Nat
        /\ \/ StagesLeft' < StagesLeft
           \/ StagesLeft' = StagesLeft /\ WorkLeft' < WorkLeft
           \/ UNCHANGED <<vars, publishing, counted>> /\ (Counting' <=> Counting)

\* A call that publishes to the collector has a variant, whatever snapshot,
\* reset and record_latency do in between: on_events takes the lock once, each
\* step of its loop counts one more event, and the monitor cannot undo that.
THEOREM DeliveryVariant == MetricsSpec => [][DeliveryAdvances]_allVars
<1>1. MetricsInv /\ [LoopConsumes]_vars /\ MetricsNext => DeliveryAdvances
  <2> SUFFICES ASSUME MetricsInv, [LoopConsumes]_vars, MetricsNext, ~Idle \/ publishing
               PROVE  DeliveryAdvances
      BY DEF DeliveryAdvances
  <2>1. /\ remaining \in Nat /\ Len(events) \in Nat
        /\ counted \in 0 .. Len(events)
      BY BookAssumption DEF MetricsInv, IndInv, TypeOK, MetricsTypeOK
  <2>2. /\ Counting => publishing
        /\ publishing => Idle
        /\ publishing \in BOOLEAN
      BY DEF MetricsInv, MetricsTypeOK, LockInv
  <2>3. WorkLeft \in Nat
      BY <2>1 DEF WorkLeft
  <2>4. ASSUME BookStep PROVE DeliveryAdvances
    <3>1. /\ ~publishing /\ ~Counting /\ ~Idle /\ ~Counting'
          /\ publishing' <=> Idle'
      <4>1. /\ ~publishing /\ ~Counting /\ ~Idle /\ mutex' = mutex
            /\ publishing' <=> Idle'
          BY <2>2, <2>4 DEF BookStep, Idle
      <4> QED
          BY <4>1 DEF Counting
    <3>2. StagesLeft = 3 /\ WorkLeft = remaining
        BY <3>1 DEF StagesLeft, WorkLeft
    <3>3. CASE Idle'
      <4>1. StagesLeft' = 2
          BY <3>1, <3>3 DEF StagesLeft
      <4> QED
          BY <2>3, <3>2, <4>1 DEF DeliveryAdvances
    <3>4. CASE ~Idle' /\ remaining' < remaining
      <4>1. StagesLeft' = 3 /\ WorkLeft' = remaining'
          BY <3>1, <3>4 DEF StagesLeft, WorkLeft
      <4> QED
          BY <2>3, <3>2, <3>4, <4>1 DEF DeliveryAdvances
    <3>5. CASE UNCHANGED vars /\ ~Idle'
      <4>1. publishing = FALSE
          BY <2>2, <3>1, Zenon
      <4>2. publishing' = FALSE
        <5>1. publishing' = (taker' = NoOrder) /\ taker' # NoOrder
            BY <2>4, <3>5, Zenon DEF BookStep, Idle
        <5> QED
            BY <5>1, Zenon
      <4>3. UNCHANGED <<publishing, counted>>
          BY <2>4, <4>1, <4>2 DEF BookStep
      <4>4. UNCHANGED <<vars, publishing, counted>>
          BY <3>5, <4>3, Zenon
      <4> QED
          BY <2>3, <3>1, <4>4, Zenon DEF DeliveryAdvances
    <3> QED
        BY <3>1, <3>3, <3>4, <3>5 DEF LoopConsumes
  <2>5. ASSUME on_events PROVE DeliveryAdvances
    <3>1. /\ Idle /\ Idle' /\ publishing /\ publishing' /\ ~Counting /\ Counting'
        BY <2>2, <2>5 DEF on_events, vars, Idle, Counting
    <3>2. StagesLeft = 2 /\ StagesLeft' = 1
        BY <3>1 DEF StagesLeft
    <3> QED
        BY <2>3, <3>2 DEF DeliveryAdvances
  <2>6. ASSUME CountEvent PROVE DeliveryAdvances
    <3>1. /\ Idle /\ Idle' /\ Counting /\ Counting'
          /\ events' = events /\ counted' = counted + 1
        BY <2>2, <2>6 DEF CountEvent, vars, Idle, Counting
    <3>2. /\ StagesLeft = 1 /\ StagesLeft' = 1
          /\ WorkLeft = Len(events) - counted
          /\ WorkLeft' = Len(events') - counted'
        BY <3>1 DEF StagesLeft, WorkLeft
    <3>3. WorkLeft' < WorkLeft
        BY <2>1, <3>1, <3>2
    <3> QED
        BY <2>3, <3>2, <3>3 DEF DeliveryAdvances
  <2>7. ASSUME EndEvents PROVE DeliveryAdvances
    <3>1. /\ Idle /\ Idle' /\ Counting /\ ~Counting' /\ ~publishing'
        BY <2>2, <2>7 DEF EndEvents, vars, Idle, Counting
    <3>2. StagesLeft = 1 /\ StagesLeft' = 0
        BY <2>2, <3>1 DEF StagesLeft
    <3> QED
        BY <2>3, <3>2 DEF DeliveryAdvances
  <2>8. ASSUME LockGuard \/ MonitorSteps PROVE DeliveryAdvances
    <3>1. /\ UNCHANGED <<vars, publishing, counted>>
          /\ mutex # "trader" /\ mutex' # "trader"
        BY <2>8 DEF LockGuard, MonitorSteps, snapshot, reset, record_latency
    <3>2. Counting' <=> Counting
        BY <3>1 DEF Counting
    <3> QED
        BY <2>3, <3>1, <3>2 DEF DeliveryAdvances
  <2> QED
      BY <2>4, <2>5, <2>6, <2>7, <2>8 DEF MetricsNext
<1>2. MetricsInv /\ [MetricsNext]_allVars => [Next]_vars
    BY DEF MetricsNext, BookStep, on_events, CountEvent, EndEvents, LockGuard,
           MonitorSteps, snapshot, reset, record_latency, allVars
<1>3. MetricsSpec => Spec
  <2>1. MetricsInit => Init
      BY DEF MetricsInit
  <2> QED
      BY <1>2, <2>1, MetricsInvHolds, PTL DEF MetricsSpec, Spec
<1>4. MetricsInv /\ [LoopConsumes]_vars /\ [MetricsNext]_allVars
        => [DeliveryAdvances]_allVars
    BY <1>1
<1> HIDE DEF DeliveryAdvances, LoopConsumes
<1> QED
    BY <1>3, <1>4, LoopVariant, MetricsInvHolds, PTL DEF MetricsSpec

=============================================================================
