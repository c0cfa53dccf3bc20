# TLA+ verification of the exchange-core matching engine

This directory models the matching engine of this repository in TLA+, checks
the models with TLC on small instances, and proves with TLAPS, for all
instances, the safety properties of the order book, the engine with its account
limits, the gateway, the market-data publisher, the metrics collector, the
journal and the snapshot store. Every invariant and every action property of a
passing run is a theorem; the two liveness properties are model-checked, and
the measure behind each of them is proved to fall.

Source paths below are relative to the repository root (`src/...` there is the
implementation directory).

## 1. The system

| Component | State | Operations | Talks to |
|---|---|---|---|
| `domain::OrderBook` | two price maps of deques, `order_locations_`, `next_execution_id_` | `place_order`, `cancel_order`, `contains_order` | returns event batches |
| `engine::MatchingEngine` | registered instruments, a book per instrument, the risk managers, a sink | `register_instrument`, `place_order`, `cancel_order`, getters, `publish` | book, risk, sink (calls back) |
| `risk::RiskManager` | configuration only | `evaluate` | engine |
| `risk::AccountRiskManager` | per account and instrument: position, reserved totals; a reservation per open order | `evaluate`, `reserve`, `apply`, getters | engine |
| `gateway::OrderGateway` | client sessions (account, next sequence), reference prices | `register_client`, `unregister_client`, `set_reference_price`, `place_order`, `cancel_order` | forwards to the engine |
| `risk::FatFingerValidator` | configuration only | `evaluate` | gateway |
| `market_data::MarketDataPublisher` | tracked orders, level aggregates, pending levels | `on_event`, `on_events` | engine sink; calls its own sink |
| `metrics::MetricsCollector` | counters, latency totals | `on_event(s)`, `record_latency`, `reset`, `snapshot` | engine sink |
| `journal::FileJournal` | an append-only text file | `append_record(s)`, `read_all`, `truncate` | file system |
| `snapshot::SnapshotStore` | a checksummed file | `write`, `read` | file system |

Everything runs on the caller's thread; only the metrics collector expects a
second one (it has a lock), and files are shared with whoever opens them. What
makes the code hard is therefore mostly not threads but *multi-step calls*: `OrderBook::place_order` changes three
containers once per execution; the engine reserves before the book decides and
settles afterwards, event by event; the publisher rebuilds the book from events;
commands reach the gateway repeated, late and out of order; integer margin and
limits are computed at 64-bit width; journal and snapshot files are written in
steps that can fail or be cut short by a crash. `PROJECT.json` lists these hazards at their
lines ("hazards").

What makes each part correct:

- **order book**: the index and the levels describe the same orders; the book
  never crosses; strict price-time priority; FOK is all or nothing; post-only
  never takes; quantity is conserved; only the owner cancels; calls return.
- **risk**: reservations are exactly the open orders; totals are the sums of the
  reservations; positions cancel out; limits hold at every moment.
- **gateway**: a session reaches the engine exactly once per number, in order,
  for one account; the price band is exact; refusals cost no number.
- **market data**: the tracked orders are the book, the subscriber has the
  aggregates after each batch, and the aggregates are the depth of the book.
- **metrics**: a snapshot adds up whenever it is taken; the counters agree with
  the book; a batch is counted and the call returns, unless the monitor keeps
  taking the lock, against which a `std::mutex` does not protect.
- **journal**: what was acknowledged and written back is read back, in order,
  past torn lines; what is read was written, but for the exceptions of section 4.
- **snapshot store**: a reader sees no snapshot or a whole one, also after a
  crash, as long as writes do not overlap; a failed write leaves nothing behind.

## 2. Modules

| Module | Models | State and actions |
|---|---|---|
| `Book` | the value of an `OrderBook` and its member functions as operators | no variables; `Execute`, `Rest`, `CancelIn`, `PlaceRejection`, ... return the book the code leaves behind |
| `PriceTimePriority` | what an order book promises: a set of orders and an arrival order | `Submit`, `Trade`, `Conclude`, `Withdraw` |
| `OrderBook` | one book driven by arbitrary calls | `book`, and the locals `taker`, `remaining`, `events` of a running `place_order`; `PlaceRejected`, `PlaceAccepted`, `ExecuteAt` (one iteration of the inner loop), `FinishPlace`, `CancelRejected`, `Cancel` |
| `AccountRisk` | `RiskManager` and `AccountRiskManager` as operators, with integer widths | no variables |
| `MatchingEngine` | the engine: composes `Book` (one per instrument) and `AccountRisk` | a call goes through checks, `matching`, `applying`, `publishing`; one execution and one applied event per step |
| `OrderGateway` | gateway and fat-finger validator | `clients`, `reference_prices`; one action per operation |
| `MarketData` | the publisher, composed with `OrderBook` | `md`; `BookStep`, `Deliver` (one event), `EndDelivery` (flush) |
| `Metrics` | the metrics collector, composed with `OrderBook` and a monitoring thread | `metrics`, `mutex`; `BookStep`, `on_events`, `CountEvent` (one event), `EndEvents` of the trading thread; `LockGuard`, then `snapshot`, `reset` or `record_latency`, of the monitor |
| `FileJournal` | the journal, its file, and the copy of it on the disk | `file`, `disk`, `call`; `acked`, `synced`, `exposed` (history of what was acknowledged); `append_records`, `append_record`, `OpenFails`, `FlushFails`, `ProcessCrash`, `truncate`, and `Writeback`, `MachineCrash` of the system; `read_all` is an operator evaluated in every state |
| `AtomicSnapshot` | what an atomically replaced snapshot promises | `Install`, `Settle`, `Crash` |
| `SnapshotStore` | `write` and `read` step by step on a file system with names, inodes and write-back | `fs`, `disk`, `writers`, `reader`; `open`, `WriteChunk`, `sync_file_descriptor`, `rename`, `fail`, `return`; `read_open`, `read_chunk`, `read_return`; crashes and write-back |
| `BookProofs`, `OrderBookProofs`, `EngineProofs`, `GatewayProofs`, `MarketDataProofs`, `MetricsProofs`, `JournalProofs`, `SnapshotProofs` | lemmas and theorems (section 5) | |
| `MCOrderBook`, `MCEngine`, `MCGateway`, `MCMarketData`, `MCMetrics`, `MCJournal`, `MCSnapshot` | symmetry sets and records for TLC | |

Modelling decisions:

- An event keeps the fields some consumer reads. Instrument ids in events,
  order statuses and the copies of the request are left out.
- `can_fully_match` subtracts resting quantities until nothing is left; the
  model compares the sum of the crossing levels with the quantity, which is the
  same test without the early exits.
- The pop of a filled order and the removal of its empty level are one step; the
  code has no call or test between them that could see the difference.
- `cancel_order` reads the canceled order's side and price through an iterator
  it has erased. Both are modelled as "the old value or `Garbage`".
- Signed overflow in the position test is modelled as either the wrapped or the
  exact sum (`SignedOutcomes`); unsigned arithmetic wraps. `IntMax` is the
  width: large (no overflow) in most runs, three bits in `engine_overflow`.
- The engine's sink is called last in every call and nothing in the engine is
  touched after it, so a call from inside the sink is, for the engine's state, a
  call made right after the outer one.
- The gateway reads nothing back from the engine; a forwarded command is logged
  in `forwarded` (history of the session).
- The publisher is fed either with whole batches or event by event, chosen per
  batch. Update sequence numbers are left out: they only count updates.
- A journal file is a sequence of *pieces*: the text of a record up to one of
  seven kinds of cut. The kinds are the ones `parse_record_line` tells apart: a
  token without `=`, a version token glued to its neighbour, a missing field, a
  number that lost digits. All fields but the version come from the last piece
  of a line, because later tokens replace earlier ones in the map and the last
  field parses only if the last piece reaches it; the version comes from the
  last piece that starts a token of its own, which need not be the last piece.
- `acked` is every record acknowledged since the last `truncate`; no failure and
  no crash takes one out. A machine crash notes in `exposed` the ones it met
  before the kernel had written them back, whether or not their text survived.
- When a flush fails, libstdc++ keeps the buffer and the destructor's `close()`
  writes it again; `FlushFails` has both writes. In `SnapshotStore` the same
  retry goes to a file that has just been removed and is left out.
- `append_records` chooses its records as it writes them; a batch is its length.
- A machine crash gives back the written-back copy of the journal, or that copy
  and some more of the text in file order. In `SnapshotStore`, names and the
  contents of each file are written back independently; only fsync orders them.
- A snapshot file is a sequence of chunks: the four lines of the header
  (`version`, `sequence`, `payload_length`, `checksum`) and the parts of the
  payload. A write can be cut, and overlapping writers can interleave, after any
  of them. The lines of two headers are taken to be equally long, so that mixed
  headers are made of whole lines; lines mixed inside a number are left out. The
  checksum is one of the payload only and is taken to tell payloads apart.
  `Damaged` stands for both `malformed_snapshot` and `checksum_mismatch`.
- The monitor takes `mutex_` in one step and works and unlocks in another, so the
  trading thread does find it taken. A duration is a signed number, cast to the
  unsigned type of the total, which wraps. The event counters grow by one at a
  time and have no width.
- An error of the device during a read gives `io_error` and changes nothing; it
  is left out, as are opens that fail in `truncate` and `write_atomic`.

Definitions ending in `_Something` next to a definition of the same name and
marked "Mutant of" are deliberately wrong variants used to show that a property
notices the bug; no specification uses them.

## 3. Runs

`tlc -config X.cfg M`. Bounds are `CONSTANTS` of the cfg files:
`MaxPrice`, `MaxQuantity` (price levels and quantity of one order),
`MaxExecutionId` (a book accepts no more orders once its next execution id is
above it; ids of orders are reusable and not bounded in number of uses),
`MaxOpenOrders` (the engine accepts an order only while fewer are open in all
books together),
`MaxSequence` (largest request sequence of a command), `MaxCalls` and
`MaxSamples` (calls of the book and latency samples in `metrics`), `MaxBatch`,
`MaxPieces`, `MaxAcked`, `MaxFaults` (records of a batch, length of the file
before an append, acknowledged records, failures and crashes in `journal`), `MaxWrites`, `MaxCrashes` (calls of
`write` and crashes in `snapshot`).

| Run | Checks | Shows |
|---|---|---|
| `order_book` | `TypeOK`, `BookIndexConsistent`, `BookUncrossed`, `FokAllOrNothing`, `PostOnlyNeverTakes`, `TradesWalkTheBook`, `QuantityConserved`, `ImplementsPriceTime` | the book's safety, including that it implements `PriceTimePriority` under the mapping `RestingMap`, `ArrivalOrder` |
| `order_book_cancel` (violation) | `CancelReportsTheOrder` | the report of a cancellation may carry a wrong side or price |
| `engine` | `TypeOK`, `ReservationsMatchBooks`, `TotalsAreSums`, `BooksImplementPriceTime` | two instruments that share ids and accounts: reservations follow the books through every kind of order and fill, at 75% margin so that releases round; each book implements `PriceTimePriority`, untouched by calls for the other and by repeated registration |
| `engine_limits` | `ReservationsMatchBooks`, `TotalsAreSums`, `PositionsSumToZero`, `PositionLimitHolds`, `ReservationLimitsHold`, `CallsReturn` | two accounts over several trades with reused ids: reservations, positions and limits; every engine call returns |
| `engine_credit` (violation) | `AccountCreditLimitHolds` | the credit limit is per instrument, not per account |
| `engine_overflow` (violation) | `PositionLimitHolds` | the position test overflows |
| `gateway` | `TypeOK`, `SessionsInOrder`, `BandIsExact`, `RefusalsKeepTheSequence` | sequencing under duplicates and reordering; the exact band |
| `market_data` | `MDTypeOK`, `TrackedOrdersAreTheBook`, `DepthNeverUnderstated`, `SubscriberIsCurrent`, `NoIntermediateUpdates` | the publisher follows the book |
| `market_data_depth` (violation) | `PublishedDepthIsBookDepth` | published depth exceeds the book after a partial fill of an incoming order |
| `metrics` | `MetricsTypeOK`, `SnapshotIsConsistent`, `CountersFollowBook`, `CallsAreCounted` | consistent counters under a concurrent monitor; calls return and are counted unless the monitor starves them |
| `journal` | `TypeOK`, `AcknowledgedAreReadBack`, `CleanJournalIsExact`, `ReadRecordsWereWritten` | what a read returns after any two failures or crashes |
| `snapshot` | `TypeOK`, `ReadsAreWhole`, `AckedIsInstalled`, `FailureLeavesNoTemp`, `AtomicUnlessOverlapped` | the store implements `AtomicSnapshot` as long as writes do not overlap; when they do, a read that reports ok has one writer's whole payload |

Why the bounds are enough: three order ids let an incoming order trade with two
resting ones, or with one while a third keeps its place in the deque; two prices
give a better and a worse level and both crossing and resting prices; quantity 2
gives partial fills on both sides of a trade. `engine` has two instruments and
three ids: a taker meets two candidates in one deque and may trade with both, or
with one while an order rests in the other book, and any of three orders may sit
in either book when the other is called or registered again. Price 2 lies above
`maximum_order_price` there, so its books have one level; priority between levels
is in `order_book` and in the theorems. `engine_limits` has two accounts and a
second execution id instead, so that positions build up before the limits are
tested against them; with two ids a call there has at most one execution, and
calls with several are in `engine`, in `order_book` and in the theorem
`CallVariant`. In both the limits are chosen so that requests reach and pass
them. Reference prices of the gateway lie below 10000, above it and
at the end of the type, with order prices on each bound and one outside. The
width `2^26 - 1` there is the smallest of its kind that holds `9999 * 10000`, as
the 64-bit type does. In the journal two faults let a torn line be continued by
another torn text and then by a complete record, and a version other than 1
stands between records that have it. In the snapshot store two writes give an
installed snapshot with one replacing it under a reader, a temporary file left
by a crash and opened by the next write, or two writes that overlap; two
snapshots of different version,
sequence and length, the payload of one a prefix of the other's, leave the rest
of one behind the other and let their headers mix. `metrics` makes two calls,
enough for a trade and a batch behind another; its latencies include a negative
one and sums at and beyond the width.

Fairness: `WF` on the steps of a running call (`CallSteps` of `MatchingEngine`
and of `Metrics`) and, in `Metrics`, on the steps of a monitor that holds the
lock (`MonitorSteps`). A function that is executing continues; nothing obliges a
client to call, or the monitor to ask for the lock. Nothing says who gets the
lock: between two of the monitor's steps it is free, but a monitor that takes it
again and again may be first every time, and `WF` of `on_events` does not forbid
that. `CallsAreCounted` therefore has this starvation as its one exception, and
without the exception TLC refutes it.

Symmetry is used only in runs without liveness properties, over ids, accounts,
clients and instruments, which the specifications only compare for equality.

## 4. Findings

1. `src/src/domain/order_book.cpp:288-293`: `cancel_order` uses an erased
   iterator (`order_book_cancel`).
2. `src/src/risk/account_risk_manager.cpp:78-84`: `maximum_account_credit` is
   applied per instrument (`engine_credit`).
3. `src/src/risk/account_risk_manager.cpp:68-75`: the projected position
   overflows and the position limit is passed (`engine_overflow`).
4. `src/src/market_data/market_data_publisher.cpp:66-79`: fills that do not
   complete the incoming order stay in the published depth
   (`market_data_depth`). `DepthNeverUnderstated` shows that the error only ever
   overstates.

What the passing runs say about the files, and where it falls short of what one
might expect (no run of its own; `FileJournal` and `SnapshotStore` contain the
behaviour):

- `src/src/journal/file_journal.cpp:128-258`: a record cut inside its last
  number is accepted as a complete record. `ReadRecordsWereWritten` shows that
  this happens only at the very end of the file; "partial-record detection"
  (`src/README.md:57`) does not cover it.
- `src/src/journal/file_journal.cpp:271-282`: an append does not look at how the
  file ends. After a torn line the next record is glued to it: the torn record
  is dropped without an error when the line still parses, and when the cut was
  inside the version token the read stops there and hides everything behind.
  `AcknowledgedAreReadBack` is therefore about reads that report `ok`. A torn
  record of version 1, cut inside a later token, also lends its version to the
  record glued to it: a record appended with version 2 is then read, with status
  `ok` and in the middle of the file, as one of version 1 that nobody wrote. Both
  properties name this exception (`ReadAs`).
- `JournalReadStatus::invalid_version` is never returned; a record written with
  another version reads as `malformed_record` (`CleanJournalIsExact`).
- The journal is flushed but never synced (`src/src/journal/file_journal.cpp:280-281`):
  after a crash of the machine, acknowledged records may be missing from a file
  that reads as `ok`, while `src/README.md:46-47` speaks of "durable recovery
  workflows". `AcknowledgedAreReadBack` excepts exactly the records the crash met
  before the kernel had written them back. The snapshot's directory is not synced
  either: `read` may return the snapshot before the last one.
- Two overlapping `write` calls on one path, even from two processes, share the
  temporary file: one may return true although the other's file was installed,
  or a damaged one. The checksum covers the payload only
  (`src/src/snapshot/snapshot_store.cpp:153-162`), so a file with the version or
  sequence line of one writer and the length, checksum and payload of the other
  reads as `ok`. `ReadsAreWhole` shows that the payload at least is one writer's,
  from beginning to end.
- `src/src/metrics/metrics_collector.cpp:47`: a negative duration becomes a huge
  latency and makes the total wrap; `SnapshotIsConsistent` speaks of the latency
  fields only while the recorded sum fits.

## 5. Proofs

All theorems hold for every set of ids, accounts, instruments, clients, writers
and payloads and for all bounds. `tlapm M.tla` checks a module; `EngineProofs`
takes some minutes, the others less.

| Module | Theorem | Statement |
|---|---|---|
| `OrderBookProofs` | `TypeCorrect` | `Spec => []TypeOK` |
| | `IndexAlwaysConsistent` | `Spec => []BookIndexConsistent` |
| | `NeverCrossed` | `Spec => []BookUncrossed` |
| | `TakerNeverRests` | `Spec => []TakerNotResting` |
| | `OwnerCancels` | `Spec => [][OwnerWithdraws]_vars` |
| | `PostOnlyIsPassive` | `Spec => []PostOnlyNeverTakes` |
| | `TradesStayInOrder` | `Spec => []TradesWalkTheBook` |
| | `FokFillsOrKills` | `Spec => []FokAllOrNothing` |
| | `QuantityStaysConserved` | `Spec => QuantityConserved` |
| | `PriceTimeRefinement` | `Spec => ImplementsPriceTime` |
| | `LoopVariant` | `Spec => [][LoopConsumes]_vars` |
| `EngineProofs` | `EngineTypeCorrect` | `Spec => []TypeOK` |
| | `ReservationsFollowBooks` | `Spec => []ReservationsMatchBooks` |
| | `ReservedTotalsAreSums` | `Spec => []TotalsAreSums` |
| | `ReservationsStayWithinLimits` | `Spec => []ReservationLimitsHold` |
| | `PositionsStayWithinLimits` | `LimitsFit` gives `Spec => []PositionLimitHolds` |
| | `PositionsCancelOut` | `LimitsFit` and finitely many accounts give `Spec => []PositionsSumToZero` |
| | `BooksRefinePriceTime` | `Spec => BooksImplementPriceTime` |
| | `EachBookRefinesPriceTime` | `Spec => PriceTime(i)!Spec` for every instrument `i` |
| | `CallVariant` | `Spec => [][CallAdvances]_vars` |
| `GatewayProofs` | `TypeCorrect` | `Spec => []TypeOK` |
| | `SessionsStayInOrder` | `Spec => []SessionsInOrder` |
| | `RefusalsLeaveSequence` | `Spec => RefusalsKeepTheSequence` |
| | `PriceBandIsExact` | `Spec => BandIsExact` |
| `MarketDataProofs` | `MDTypeCorrect` | `MDSpec => []MDTypeOK` |
| | `TrackedOrdersFollowTheBook` | `MDSpec => []TrackedOrdersAreTheBook` |
| | `DepthIsNeverUnderstated` | `MDSpec => []DepthNeverUnderstated` |
| | `SubscribersAreCurrent` | `MDSpec => []SubscriberIsCurrent` |
| | `NothingSentInsideABatch` | `MDSpec => NoIntermediateUpdates` |
| `MetricsProofs` | `MetricsTypeCorrect` | `MetricsSpec => []MetricsTypeOK` |
| | `SnapshotsAreConsistent` | `MetricsSpec => []SnapshotIsConsistent` |
| | `CountersAgreeWithBook` | `MetricsSpec => []CountersFollowBook` |
| | `DeliveryVariant` | `MetricsSpec => [][DeliveryAdvances]_allVars` |
| `JournalProofs` | `TypeCorrect` | `Spec => []TypeOK` |
| | `AcknowledgedHolds` | `Spec => []AcknowledgedAreReadBack` |
| | `CleanHolds` | `Spec => []CleanJournalIsExact` |
| | `WrittenHolds` | `Spec => []ReadRecordsWereWritten` |
| `SnapshotProofs` | `TypeCorrect` | `Spec => []TypeOK` |
| | `ReadsStayWhole` | `Spec => []ReadsAreWhole` |
| | `AckedStaysInstalled` | `Spec => []AckedIsInstalled` |
| | `FailureCleansUp` | `Spec => []FailureLeavesNoTemp` |
| | `StoreIsAtomic` | `Spec => AtomicUnlessOverlapped` |

### Assumptions

They are named `ASSUME`s of the component modules, so TLC evaluates them on the
constants of every run.

- `BookAssumption`, `OrderBookAssumption`, `MetricsAssumption`: bounds are
  numbers; `NoOrder`, which stands for "no call is running", is not an order;
  latencies are integers of either sign and the width of their total is any.
- `RiskAssumption`, `EngineAssumption`: the limits of the configuration fit the
  types of their fields, prices and quantities those of theirs; `NoCall` is
  neither a call nor a request. Nothing relates the limits to each other.
- `GatewayAssumption`: the unsigned type holds `9999 * 10000`, as the 64-bit one
  does; prices fit the signed type; at most 10000 basis points
  (`EngineConfig::is_valid`). `NoReplyAssumption`: `NoReply` is not a
  reply.
- `SnapshotAssumption`: payloads are sequences over `Payload`; the bytes that
  fill a hole in a file do not look like a line of a header.
- `JournalAssumption`: versions and bounds are numbers.

Two theorems have a hypothesis of their own. `LimitsFit` says that
`maximum_position_quantity + maximum_order_quantity` and
`maximum_open_order_quantity` do not exceed the largest signed value. A
configuration has to be chosen to satisfy it: the defaults of `EngineConfig` are
the largest values of their types and do not, and run `engine_overflow` shows
that the position limit is then passed (finding 3), so the hypothesis cannot be
dropped. The configuration of run `engine_limits` satisfies it. Finitely many
accounts are needed to speak of a sum of positions at all.

### The order book

The inductive invariant `IndInv` is the conjunction of the invariants of the
first four theorems. None is inductive alone: `ExecuteAt` needs the index to be
consistent to know that the best level has a front order and that its id is
indexed where it rests; `FinishPlace` keeps the index consistent only because
the incoming id is not in it (`TakerNotResting`), and keeps the book uncrossed
only because nothing is matchable any more, which says something about all
levels only because a non-empty side has a best level (`BestExists`, by
well-foundedness of the prices).

The argument lives in `BookProofs`. Every operation replaces one deque of one
side. `MayReplace` states what a new deque and a new index owe to the rest of
the book, `ReplaceDeque` that the book then stays well-formed and consistent,
`ReplaceKeepsUncrossed` what keeps it uncrossed; `ExecuteKeepsBook`,
`RestKeepsBook` and `CancelKeepsBook` are instances for an execution (pop or
reduce the front), a resting remainder (append) and a cancellation (remove at a
position).

`BatchInv`, inductive on top of it, says what the batch of a running call shows:
no level is left that is better than a price already traded at
(`BestTradedFirst`), and a post-only order has nothing to trade with
(`PostOnlyStandsBack`). For FOK orders it is that the crossing levels hold at
least what remains, for conservation that the batch and the remainder add up to
the order.

The refinement is proved action by action: accepting is `Submit`, an execution
is `Trade`, the end of the call `Conclude`, a cancellation `Withdraw`, and a
rejection a stutter. `RestingMap` and `ArrivalOrder` (in `Book`) read the
abstract state off the deques; the work is that a replaced deque changes the
arrival order of nothing but the order that came or went. Those facts are about
one book and its operations (`ExecuteRefines`, `RestRefines`, `CancelRefines` in
`BookProofs`), so that the engine uses them too.

### Sums

The library defines sums by a fold over the set, and induction over sets is out
of reach. `BookProofs` proves the laws of a sum (one element added, removed or
changed, values under other names, bounds) by the smallest counterexample: the
subsets for which a law fails have a minimal element because strict inclusion of
finite sets is well-founded, and removing one element from it gives a smaller
one.

### The engine

Between calls the reservations are the open orders. Inside a call they are not:
the order is reserved before the book has decided, the book runs ahead of the
reservations while `apply` works off the batch, and an IOC, market or FOK order
keeps what is left of its reservation until the end of `apply`. `EngineInv`
keeps a ledger of it. For every order (`Balanced`)

    reserved = resting in its book + still to be matched + due to trades of the
               batch that apply has not seen

and for an order that will be released as a whole, at least what is due.
`CallShape` says what batch and locals look like in each phase, `Covered` that
the final release, which goes by the order's quantity, frees everything, and
`SameOwner`, `OwnReservation` and `MakersOpposite` tie a reservation to the
account and side of its order. `Totals` are the sums: `release` computes the
margin of a partial fill by `proportional_release`, and the proof that no total
wraps needs that the share is at most what is reserved, for every width
(`ReleaseLowers`). The limits are part of the invariant because they keep the
additions of `reserve` inside the width. No overflow hypothesis is needed for
any of this: the tests that guard the unsigned sums are written as subtractions.

Positions are on top of it. A trade moves the taker's position by a quantity
that leaves the taker's reservation, and the same for the maker, so position
plus open orders of a side never grows by a fill; it grows only in `reserve`,
after the position test. Under `LimitsFit` that test is exact
(`PositionTestIsExact`), the moves do not overflow (`HalfKeepsPositions`), and
the two moves of a trade are opposite because the maker's reservation is on the
other side (`MakersOpposite`) and is still there when the trade is applied.

The engine implements `PriceTimePriority` once per instrument: `PriceTime(i)`
maps the book of `i` (empty until it is registered) and, while a call for `i` is
in its matching phase, that call's order. `PlaceAccepted`, `MatchAt`,
`FinishMatching` and an accepted `Cancel` are `Submit`, `Trade`, `Conclude` and
`Withdraw` of the instrument they name; for every other instrument, and in every
other step, the mapped state stutters (`Untouched`). `EngineInv` supplies what
`IndInv` supplies for a single book: the books are sound, only orders that
passed the checks are matched, and the id of the order being matched does not
rest in its book (`CallShape`).

### The market-data publisher

The publisher sees the book only through the events, a batch at a time, and
while it works through a batch what it tracks is neither the book before the
call nor the book after it. `MDInv` says what the events still to be delivered
will make of it: replayed one after the other (`Track`) they lead from the
tracked orders to the open orders of the book, the one being matched included
(`Leads`, `OpenOrders`), and each of them fits what it will meet (`Fits`): it
accepts an id that is not tracked and trades no more than what remains. The
sequence of intermediate maps is an existentially quantified function, which
grows at its end when the book reports (`LeadsAppend`) and is used up at its
start when an event is delivered (`LeadsOn`); no recursion is involved. TLC
checked the invariant, with the replay computed, on the instance of run
`market_data` before it was proved.

`Fits` gives the types (no tracked order is taken to zero and kept, or below
it), and with these sums that no aggregate falls below what the
tracked orders of its level hold (`Covered`). It is `<=` and not `=`: a partial
fill of the incoming order lowers what is held and not the aggregate, which is
finding 4: depth is overstated. `DepthIsHeld` turns what is held into the depth of
the book, by renaming the ids of a level to positions of its deque. `Current`
says that the subscriber lacks the pending levels only.

### The journal

What `read_all` returns is a sequence as long as the file has lines, and
induction over the file is out of reach. `LineEnds` therefore lists the pieces
that end a line by rank (the k-th is the one with k line ends up to it), and
`RankFacts`, from the cardinality theorems of the library, shows that this is a
listing: every line end once, in the order of the file. Properties of the k-th
line then follow from the piece that ends it, one line at a time.

The properties are about what a read of `file` returns and say nothing of
`disk`, which a crash of the machine turns into `file`; none is inductive. The
invariant `JournalInv` speaks of positions instead: in both copies there are
increasing positions of complete lines, one for every acknowledged record that
was not exposed to a crash, in the copy on the disk one for every such record
that was written back, that hold the text of that record (`Placed`); and before
the first fault the file consists of those lines and nothing else (`Clean`). An append, torn or not,
only adds pieces behind; what survives a crash is the written-back copy and more
of the text behind it. A line that ends in a complete text reads as that record
even if torn pieces stand in front of it, unless it makes the read stop, with
its own version if it starts the line (`OwnVersion`) and otherwise with 1
(`ReadAsFacts`), and that is `AcknowledgedAreReadBack`. A shortened number can be
read only from a piece that ends a line without a newline, which only the last
piece of a file can do: with it, `ReadRecordsWereWritten`.

### Progress

That a call returns needs fairness, which the prover does not reach. What the
code has to get right is the measure, and that is proved without fairness. In
the book, `remaining` falls with every iteration and never below zero
(`LoopVariant`). In the engine, a step of a running call reaches a later phase,
or stays in its phase with less left to match or fewer events to apply
(`CallVariant`). In `Metrics`, a step of the trading thread lowers the stages or
events that are left, and a step of the monitor, whether it takes the lock or
gives it back, leaves them alone (`DeliveryVariant`). With weak fairness of the
steps of a running call, which are enabled until it has returned or, in
`Metrics`, waits for the lock (TLC checks that part), the liveness properties
follow.

### Gateway, metrics, snapshot store

`SessionsInOrder` is inductive with the types. `BandIsExact` rests on lemmas
about the arithmetic of `deviation_amount`: taking the price apart at 10000
gives the exact quotient and no intermediate product leaves the width.

`MetricsInv` carries the counters through a call: what they say of the book is
exact when the events of the batch that are not counted yet are added. The size
of a batch is added at once and the kinds one by one, so `SumInv` has the number
of uncounted events while `on_events` holds the lock. The total may wrap, so
`LatencyInv` bounds the sum of what was recorded instead, which the total is
while it fits.

`SnapshotProofs` says where the files are as long as writes do not overlap
(`Orderly`): a file under the target name, in memory or on the disk, or open in
a reader, is whole, is the same in both and is not the one being written; the
one running write owns the temporary name and has the first chunks of its record
in the file. Without that premise only `HeadersFirst` is left: each of the first
four chunks of a file is a hole or that line of the header of some snapshot. It
is enough for a read that reports ok to have one writer's payload, the one whose
checksum line it met (`ParseFinds`); it ties neither version nor sequence to it.

### Only model-checked

- Liveness (`CallsReturn`, `CallsAreCounted`): fairness and `ENABLED` are
  out of the prover's reach. What is proved is under "Progress".

## 6. Not modelled

- Benchmark, command line: drivers without state.
- The text formats of journal and snapshot beyond what a cut, a glued token or a
  mixed file does to the reader.
- `OrderGateway::authorize` (never called), `EngineConfig::is_valid` (only a
  `static_assert` on the defaults uses it), tick and lot sizes (never enforced).
- Re-entrant delivery to the market-data publisher: a sink that places an order
  from inside `flush_pending_levels` has the nested `on_events` clear
  `pending_levels_` under the outer loop's iterator, whatever else happens;
  there is no defined behaviour after that to model.
- Events of several instruments in one publisher: its keys carry the instrument
  and nothing joins two of them.

## 7. Plan

Done: all models; the proofs of section 5.

What would come next: a second process on one journal file, which the code does
not guard against and the model leaves out; and, with a prover for fairness, the
step from the measures of "Progress" to the liveness properties.
