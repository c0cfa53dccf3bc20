------------------------------ MODULE Metrics ------------------------------
(***************************************************************************)
(* metrics::MetricsCollector as the sink of one OrderBook, and read by     *)
(* another thread, the monitor.  When a call of the book returns, the      *)
(* thread that made it hands the batch to on_events, which counts it under *)
(* mutex_, one event per step here (on_event is on_events with a batch of  *)
(* one).  Meanwhile the monitor may call snapshot, reset and               *)
(* record_latency: one step takes mutex_, the next does the work and gives *)
(* it back.  A counter that grows by one at a time does not wrap within    *)
(* the life of a process and has no width; the latencies, which are added  *)
(* up and may be negative before they are cast, have the width of UIntMax. *)
(***************************************************************************)
EXTENDS OrderBook

CONSTANTS
    Latencies,  \* durations in ns that are recorded, of a signed type
    UIntMax,    \* largest value of std::uint64_t
    MaxSamples, \* bound: samples recorded
    MaxCalls,   \* bound: calls of the book
    NoReport    \* the last step was not a snapshot

ASSUME MetricsAssumption ==
    /\ Latencies \subseteq Int
    /\ {UIntMax, MaxSamples, MaxCalls} \subseteq Nat

VARIABLES
    metrics,    \* the counters
    mutex,      \* which thread holds mutex_
    publishing, \* the batch of the last call is being handed over
    counted,    \* how many of its events are counted
    report,     \* what snapshot has just returned
    was_reset,  \* history: reset has been called
    recorded,   \* history: what the latencies add up to, as cast, since reset
    calls       \* calls of the book so far

history == <<was_reset, recorded>>
metricsVars == <<metrics, mutex, publishing, counted, report, history, calls>>
allVars == <<vars, metricsVars>>

ZeroMetrics ==
    [events_seen |-> 0, accepted_orders |-> 0, rejected_orders |-> 0,
     trades_executed |-> 0, canceled_orders |-> 0,
     command_latency_samples |-> 0, command_latency_ns_total |-> 0,
     command_latency_ns_max |-> 0]

MetricsInit ==
    /\ Init
    /\ metrics = ZeroMetrics
    /\ mutex = "none"
    /\ publishing = FALSE
    /\ counted = 0
    /\ report = NoReport
    /\ was_reset = FALSE
    /\ recorded = 0
    /\ calls = 0

\* on_events holds the lock.
Counting == mutex = "trader"

----------------------------------------------------------------------------
(* The thread that trades                                                   *)

\* A step of the book; a call that returns has its batch handed over.
BookStep ==
    /\ ~publishing
    /\ Idle => calls < MaxCalls
    /\ calls' = IF Idle THEN calls + 1 ELSE calls
    /\ Next
    /\ publishing' = (taker' = NoOrder)
    /\ report' = NoReport
    /\ UNCHANGED <<metrics, mutex, counted, history>>

on_events ==
    /\ publishing
    /\ mutex = "none"
    /\ mutex' = "trader"
    /\ metrics' = [metrics EXCEPT !.events_seen = @ + Len(events)]
    /\ report' = NoReport
    /\ UNCHANGED <<vars, publishing, counted, history, calls>>

\* Mutant of CounterOf: a trade is counted as an accepted order.
CounterOf_Swapped ==
    [accepted |-> "accepted_orders", rejected |-> "rejected_orders",
     trade |-> "accepted_orders", canceled |-> "canceled_orders"]

\* The counter of each kind of event.
CounterOf ==
    [accepted |-> "accepted_orders", rejected |-> "rejected_orders",
     trade |-> "trades_executed", canceled |-> "canceled_orders"]

\* Mutant of CountEvent: the loop does not get past a rejection.
CountEvent_Stalls ==
    /\ Counting
    /\ counted < Len(events)
    /\ IF events[counted + 1].kind = "rejected" THEN UNCHANGED <<metrics, counted>>
       ELSE /\ metrics' = [metrics EXCEPT ![CounterOf[events[counted + 1].kind]] = @ + 1]
            /\ counted' = counted + 1
    /\ report' = NoReport
    /\ UNCHANGED <<vars, mutex, publishing, history, calls>>

CountEvent ==
    /\ Counting
    /\ counted < Len(events)
    /\ metrics' = [metrics EXCEPT ![CounterOf[events[counted + 1].kind]] = @ + 1]
    /\ counted' = counted + 1
    /\ report' = NoReport
    /\ UNCHANGED <<vars, mutex, publishing, history, calls>>

\* Mutant of EndEvents: the lock is not released.
EndEvents_KeepsLock ==
    /\ Counting
    /\ counted = Len(events)
    /\ publishing' = FALSE
    /\ counted' = 0
    /\ report' = NoReport
    /\ UNCHANGED <<vars, metrics, mutex, history, calls>>

\* on_events returns, and with it the call that published the batch.
EndEvents ==
    /\ Counting
    /\ counted = Len(events)
    /\ mutex' = "none"
    /\ publishing' = FALSE
    /\ counted' = 0
    /\ report' = NoReport
    /\ UNCHANGED <<vars, metrics, history, calls>>

----------------------------------------------------------------------------
(* The monitor                                                              *)

\* The monitor calls one of the three functions below and gets the lock.
LockGuard ==
    /\ mutex = "none"
    /\ mutex' = "monitor"
    /\ report' = NoReport
    /\ UNCHANGED <<vars, metrics, publishing, counted, history, calls>>

\* Mutant of snapshot: it does not take the lock.
snapshot_Unlocked ==
    /\ report' = metrics
    /\ UNCHANGED <<vars, metrics, mutex, publishing, counted, history, calls>>

snapshot ==
    /\ mutex = "monitor"
    /\ mutex' = "none"
    /\ report' = metrics
    /\ UNCHANGED <<vars, metrics, publishing, counted, history, calls>>

reset ==
    /\ mutex = "monitor"
    /\ mutex' = "none"
    /\ metrics' = ZeroMetrics
    /\ was_reset' = TRUE
    /\ recorded' = 0
    /\ report' = NoReport
    /\ UNCHANGED <<vars, publishing, counted, calls>>

\* static_cast<std::uint64_t>, and what unsigned addition leaves of a sum.
Unsigned(n) == n % (UIntMax + 1)

record_latency(duration) ==
    LET nanoseconds == Unsigned(duration)
    IN  /\ mutex = "monitor"
        /\ metrics.command_latency_samples < MaxSamples
        /\ mutex' = "none"
        /\ metrics' = [metrics EXCEPT
                         !.command_latency_samples = @ + 1,
                         !.command_latency_ns_total = Unsigned(@ + nanoseconds),
                         !.command_latency_ns_max = Max({@, nanoseconds})]
        /\ recorded' = recorded + nanoseconds
        /\ report' = NoReport
        /\ UNCHANGED <<vars, publishing, counted, was_reset, calls>>

----------------------------------------------------------------------------

CallSteps == (Loop /\ BookStep) \/ on_events \/ CountEvent \/ EndEvents

MonitorSteps ==
    \/ snapshot
    \/ reset
    \/ \E duration \in Latencies : record_latency(duration)

MetricsNext ==
    \/ BookStep
    \/ on_events
    \/ CountEvent
    \/ EndEvents
    \/ LockGuard
    \/ MonitorSteps

\* Both threads keep running: a call of the book goes on as long as it can, and
\* a monitor that holds the lock gets to the end of its function.  Neither
\* obliges a client to make another call or the monitor to call at all, and
\* nothing says who gets the lock when both want it: std::mutex is not fair.
MetricsSpec ==
    /\ MetricsInit
    /\ [][MetricsNext]_allVars
    /\ WF_allVars(CallSteps)
    /\ WF_allVars(MonitorSteps)

----------------------------------------------------------------------------
(* Properties                                                               *)

\* Type correctness of the counters and of the delivery; on_events holds the
\* lock only while a batch is being counted.
MetricsTypeOK ==
    /\ metrics \in [DOMAIN ZeroMetrics -> Nat]
    /\ report \in [DOMAIN ZeroMetrics -> Nat] \cup {NoReport}
    /\ mutex \in {"none", "trader", "monitor"}
    /\ Counting => publishing
    /\ counted \in 0 .. Len(events)
    /\ <<publishing, was_reset>> \in BOOLEAN \X BOOLEAN
    /\ recorded \in Nat
    /\ calls \in 0 .. MaxCalls

\* A snapshot taken at any moment is consistent, though on_events adds the
\* size of the batch before it has counted a single event, and although reset
\* may come between the batches: every event seen is counted under its kind.
\* The latency fields belong to the same samples as long as these fit the
\* total; a negative duration, cast to a huge one, soon makes the total wrap.
SnapshotIsConsistent ==
    report # NoReport =>
    /\ report.events_seen = report.accepted_orders + report.rejected_orders
                             + report.trades_executed + report.canceled_orders
    /\ recorded <= UIntMax =>
         /\ report.command_latency_ns_max <= report.command_latency_ns_total
         /\ report.command_latency_ns_total
              <= report.command_latency_samples * report.command_latency_ns_max

\* Until a reset the counters agree with the book between two calls: a trade
\* for each execution id handed out, and an accepted order that was not
\* canceled for each order that is open.
CountersFollowBook ==
    Idle /\ ~publishing /\ ~was_reset =>
        /\ metrics.trades_executed = book.next_execution_id - 1
        /\ metrics.accepted_orders - metrics.canceled_orders
             >= Cardinality(DOMAIN book.order_locations)

\* Every call returns and its batch is counted, whatever the monitor does in
\* the meantime, with one exception: on_events may wait for ever for a lock
\* that the monitor takes again and again.  Once it has the lock, or once the
\* monitor leaves it alone, nothing keeps the call from returning.
CallsAreCounted ==
    \/ (~Idle \/ publishing) ~> (Idle /\ ~publishing)
    \/ <>[](publishing /\ ~Counting) /\ []<>(mutex = "monitor")
=============================================================================
