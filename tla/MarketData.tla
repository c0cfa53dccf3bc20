----------------------------- MODULE MarketData -----------------------------
(***************************************************************************)
(* market_data::MarketDataPublisher fed with the events of one OrderBook.  *)
(* When a call of the book returns, the batch it returned is handed over,  *)
(* either whole (on_events, what MatchingEngine::publish does with this    *)
(* sink) or event by event (on_event, what a forwarding sink may do); the  *)
(* next call starts when the publisher has returned.  The subscriber is    *)
(* the IMarketDataSink: it keeps the last quantity it was sent per level.  *)
(*                                                                         *)
(* The state of the publisher is a record                                  *)
(*                                                                         *)
(*   orders             orders_: id -> side, price, remaining quantity     *)
(*   level_quantities   level_quantities_; a level without entry reads 0   *)
(*   batching           batching_                                          *)
(*   pending_levels     pending_levels_                                    *)
(*   view               the subscriber's depth                             *)
(*                                                                         *)
(* next_sequence_ only numbers the updates and is left out.  A quantity    *)
(* that would wrap below zero shows as a negative one.                     *)
(***************************************************************************)
EXTENDS OrderBook

VARIABLES
    md,         \* the publisher and its subscriber
    publishing, \* the batch of the last call is being handed over
    delivered   \* how many of its events on_event has seen

mdVars == <<md, publishing, delivered>>
allVars == <<vars, mdVars>>

LevelKeys == Sides \X Prices

MDInit ==
    /\ Init
    /\ md = [orders |-> [i \in {} |-> <<>>],
             level_quantities |-> [l \in LevelKeys |-> 0],
             batching |-> FALSE,
             pending_levels |-> {},
             view |-> [l \in LevelKeys |-> 0]]
    /\ publishing = FALSE
    /\ delivered = 0

----------------------------------------------------------------------------
(* The member functions: each returns the state it leaves behind.           *)

\* Mutant of emit_level: a level that is pending already is sent at once.
emit_level_Twice(m, l) ==
    IF m.batching /\ l \notin m.pending_levels
    THEN [m EXCEPT !.pending_levels = @ \cup {l}]
    ELSE [m EXCEPT !.view[l] = m.level_quantities[l],
                   !.pending_levels = @ \ {l}]

\* Inside a batch the level is only noted.
emit_level(m, l) ==
    IF m.batching
    THEN [m EXCEPT !.pending_levels = @ \cup {l}]
    ELSE [m EXCEPT !.view[l] = m.level_quantities[l]]

\* Mutant of add_order: the aggregate is replaced.
add_order_Assigns(m, o) ==
    LET level == <<o.side, o.price>>
        tracked == [side |-> o.side, price |-> o.price,
                    remaining_quantity |-> o.quantity]
    IN  IF o.order_type \notin RestingTypes THEN m
        ELSE emit_level(
               [m EXCEPT !.orders = [i \in DOMAIN m.orders \cup {o.order_id} |->
                                       IF i = o.order_id THEN tracked ELSE m.orders[i]],
                         !.level_quantities[level] = o.quantity], level)

add_order(m, o) ==
    LET level == <<o.side, o.price>>
        tracked == [side |-> o.side, price |-> o.price,
                    remaining_quantity |-> o.quantity]
    IN  IF o.order_type \notin RestingTypes THEN m
        ELSE emit_level(
               [m EXCEPT !.orders = [i \in DOMAIN m.orders \cup {o.order_id} |->
                                       IF i = o.order_id THEN tracked ELSE m.orders[i]],
                         !.level_quantities[level] = @ + o.quantity], level)

Erase(m, id) == [i \in DOMAIN m.orders \ {id} |-> m.orders[i]]

Reduce(m, id, quantity) ==
    [m.orders EXCEPT ![id].remaining_quantity = @ - quantity]

LevelOf(m, id) == <<m.orders[id].side, m.orders[id].price>>

\* Mutant of ApplyIncoming: only the resting order of a trade is updated.
ApplyIncoming_Skipped(m, t) == m

\* A fill of the incoming order reaches the aggregate only when it is the one
\* that completes the order.
ApplyIncoming(m, t) ==
    LET id == t.incoming_order_id
    IN  IF id \notin DOMAIN m.orders THEN m
        ELSE IF m.orders[id].remaining_quantity = t.quantity
        THEN emit_level([m EXCEPT !.orders = Erase(m, id),
                                  !.level_quantities[LevelOf(m, id)] = @ - t.quantity],
                        LevelOf(m, id))
        ELSE [m EXCEPT !.orders = Reduce(m, id, t.quantity)]

\* Mutant of ApplyResting: the completed order is not erased.
ApplyResting_NoErase(m, t) ==
    LET id == t.resting_order_id
    IN  IF id \notin DOMAIN m.orders THEN m
        ELSE emit_level(
               [m EXCEPT !.orders[id].remaining_quantity = @ - t.quantity,
                         !.level_quantities[LevelOf(m, id)] = @ - t.quantity],
               LevelOf(m, id))

ApplyResting(m, t) ==
    LET id == t.resting_order_id
        filled == m.orders[id].remaining_quantity = t.quantity
    IN  IF id \notin DOMAIN m.orders THEN m
        ELSE emit_level(
               [m EXCEPT !.orders =
                             IF filled THEN Erase(m, id) ELSE Reduce(m, id, t.quantity),
                         !.level_quantities[LevelOf(m, id)] = @ - t.quantity],
               LevelOf(m, id))

apply_trade(m, t) == ApplyResting(ApplyIncoming(m, t), t)

remove_order(m, id) ==
    IF id \notin DOMAIN m.orders THEN m
    ELSE emit_level(
           [m EXCEPT !.orders = Erase(m, id),
                     !.level_quantities[LevelOf(m, id)] =
                         @ - m.orders[id].remaining_quantity],
           LevelOf(m, id))

\* Rejections are not market data.
on_event(m, e) ==
    CASE e.kind = "accepted" -> add_order(m, e.order)
      [] e.kind = "trade"    -> apply_trade(m, e)
      [] e.kind = "canceled" -> remove_order(m, e.order_id)
      [] OTHER -> m

\* Mutant of flush_pending_levels: the loop ends where the side of the keys
\* changes.
flush_pending_levels_OneSide(m) ==
    [m EXCEPT !.view = [l \in LevelKeys |->
                          IF /\ l \in m.pending_levels
                             /\ \A k \in m.pending_levels : k[1] = "buy" => l[1] = "buy"
                          THEN m.level_quantities[l] ELSE m.view[l]],
              !.pending_levels = {}]

flush_pending_levels(m) ==
    [m EXCEPT !.view = [l \in LevelKeys |->
                          IF l \in m.pending_levels
                          THEN m.level_quantities[l] ELSE m.view[l]],
              !.pending_levels = {}]

----------------------------------------------------------------------------
(* Steps                                                                    *)

\* A step of the book; a call that returns has its batch handed over.
BookStep ==
    /\ ~publishing
    /\ Next
    /\ publishing' = (taker' = NoOrder)
    /\ delivered' = 0
    /\ IF publishing' THEN \E batched \in BOOLEAN : md' = [md EXCEPT !.batching = batched]
                      ELSE UNCHANGED md

Deliver ==
    /\ publishing
    /\ delivered < Len(events)
    /\ md' = on_event(md, events[delivered + 1])
    /\ delivered' = delivered + 1
    /\ UNCHANGED <<vars, publishing>>

\* The end of on_events, or of the loop that called on_event.
EndDelivery ==
    /\ publishing
    /\ delivered = Len(events)
    /\ md' = IF md.batching
             THEN flush_pending_levels([md EXCEPT !.batching = FALSE])
             ELSE md
    /\ publishing' = FALSE
    /\ delivered' = 0
    /\ UNCHANGED vars

MDNext == BookStep \/ Deliver \/ EndDelivery

MDSpec == MDInit /\ [][MDNext]_allVars

----------------------------------------------------------------------------
(* Properties                                                               *)

\* Type correctness of the members of MarketDataPublisher.
MDTypeOK ==
    /\ DOMAIN md.orders \subseteq OrderIds
    /\ md.orders \in [DOMAIN md.orders ->
                        [side: Sides, price: Prices, remaining_quantity: Quantities]]
    /\ md.level_quantities \in [LevelKeys -> Int]
    /\ md.view \in [LevelKeys -> Int]
    /\ md.batching \in BOOLEAN
    /\ md.pending_levels \subseteq LevelKeys
    /\ publishing \in BOOLEAN
    /\ delivered \in 0 .. Len(events)

\* A call has returned and its batch has been delivered.
Quiet == Idle /\ ~publishing

\* orders_ is rebuilt from the events alone and still is the book: every open
\* order with its side, its price and what remains of it, and no other.
TrackedOrdersAreTheBook ==
    Quiet =>
        /\ DOMAIN md.orders = DOMAIN book.order_locations
        /\ \A id \in DOMAIN md.orders :
              md.orders[id] = [side |-> RestingEntry(book, id).side,
                               price |-> RestingEntry(book, id).price,
                               remaining_quantity |->
                                   RestingEntry(book, id).remaining_quantity]

BookDepth(l) ==
    LET lv == book.levels[l[1]]
    IN  IF l[2] \in DOMAIN lv THEN LevelQuantity(lv[l[2]]) ELSE 0

\* The published depth never hides quantity that rests in the book, and no
\* aggregate is ever taken below zero, where the unsigned type would wrap.
DepthNeverUnderstated ==
    /\ \A l \in LevelKeys : md.level_quantities[l] >= 0
    /\ Quiet => \A l \in LevelKeys : md.view[l] >= BookDepth(l)

\* A subscriber that applies the updates has the publisher's aggregates when a
\* batch is through: suppressing the intermediate updates of a batch loses none.
SubscriberIsCurrent == Quiet => md.view = md.level_quantities

\* The published depth is the depth of the book.
PublishedDepthIsBookDepth ==
    Quiet => \A l \in LevelKeys : md.view[l] = BookDepth(l)

\* Inside a batch the subscriber is sent nothing: no update from a partially
\* processed batch.
NoIntermediateUpdates ==
    [][md.batching /\ md'.batching => md'.view = md.view]_allVars
=============================================================================
