------------------------------ MODULE OrderBook ------------------------------
(***************************************************************************)
(* domain::OrderBook driven by arbitrary place_order and cancel_order      *)
(* calls.  The matching loop of place_order runs one execution per step,   *)
(* so that the properties see the book inside a call as well as between    *)
(* two calls; the class is not thread-safe and no other call starts before *)
(* the running one returns.                                                *)
(***************************************************************************)
EXTENDS Book

CONSTANTS
    NoOrder,            \* no place_order call is running
    MaxExecutionId      \* bound: no order is accepted once it is exceeded

ASSUME OrderBookAssumption ==
    /\ NoOrder \notin Orders
    /\ MaxExecutionId \in Nat

VARIABLES
    book,       \* the member variables
    taker,      \* order, the argument of the running place_order call
    remaining,  \* remaining_quantity, its local variable
    events      \* events: being filled inside a call, returned after it

vars == <<book, taker, remaining, events>>

Idle == taker = NoOrder

Events ==
    [kind: {"accepted"}, order: Orders]
    \cup [kind: {"rejected"}, order_id: OrderIds, reason: BookRejectReasons]
    \cup TradeEvents
    \cup CanceledEvents

Init ==
    /\ book = EmptyBook
    /\ taker = NoOrder
    /\ remaining = 0
    /\ events = <<>>

----------------------------------------------------------------------------
(* place_order                                                              *)

PlaceRejected(o) ==
    /\ Idle
    /\ PlaceRejection(book, o) # "none"
    /\ events' = <<Rejected(o.order_id, PlaceRejection(book, o))>>
    /\ UNCHANGED <<book, taker, remaining>>

PlaceAccepted(o) ==
    /\ Idle
    /\ book.next_execution_id <= MaxExecutionId
    /\ PlaceRejection(book, o) = "none"
    /\ taker' = o
    /\ remaining' = o.quantity
    /\ events' = <<Accepted(o)>>
    /\ UNCHANGED book

\* One iteration of the inner loop against the best opposite level, p.
ExecuteAt(p) ==
    /\ ~Idle
    /\ Matchable(book, taker, remaining, p)
    /\ book' = Execute(book, taker, remaining, p)
    /\ remaining' = remaining - TradeOf(book, taker, remaining, p).quantity
    /\ events' = Append(events, TradeOf(book, taker, remaining, p))
    /\ UNCHANGED taker

\* The loops have ended: the remainder rests or is dropped, the call returns.
FinishPlace ==
    /\ ~Idle
    /\ \A p \in Prices : ~Matchable(book, taker, remaining, p)
    /\ book' = Rest(book, taker, remaining)
    /\ taker' = NoOrder
    /\ remaining' = 0
    /\ UNCHANGED events

----------------------------------------------------------------------------
(* cancel_order                                                             *)

CancelRejected(id, account) ==
    /\ Idle
    /\ CancelRejection(book, id, account) # "none"
    /\ events' = <<Rejected(id, CancelRejection(book, id, account))>>
    /\ UNCHANGED <<book, taker, remaining>>

Cancel(id, account) ==
    /\ Idle
    /\ CancelRejection(book, id, account) = "none"
    /\ book' = CancelIn(book, id)
    /\ \E e \in CancelReports(book, id, account) : events' = <<e>>
    /\ UNCHANGED <<taker, remaining>>

----------------------------------------------------------------------------

Loop == (\E p \in Prices : ExecuteAt(p)) \/ FinishPlace

Next ==
    \/ \E o \in Orders : PlaceRejected(o) \/ PlaceAccepted(o)
    \/ Loop
    \/ \E id \in OrderIds, account \in AccountIds :
          CancelRejected(id, account) \/ Cancel(id, account)

Spec == Init /\ [][Next]_vars

----------------------------------------------------------------------------
(* Properties                                                               *)

\* Type correctness of the members and locals of OrderBook; in particular no
\* resting order has remaining quantity 0 and no level sits at price 0.
TypeOK ==
    /\ IsBook(book)
    /\ taker \in Orders \cup {NoOrder}
    /\ remaining \in 0 .. MaxQuantity
    /\ events \in Seq(Events)

\* order_locations_ and the deques agree at every moment, inside a matching
\* loop too: each resting entry is indexed under its own side, price and
\* account, each indexed id rests exactly once and no empty level is kept.
\* Every erase and pop of place_order and cancel_order is paired for this.
BookIndexConsistent == IndexConsistent(book)

\* The best bid is below the best ask at every moment: place_order never lets
\* an order rest that could have traded, whatever its type.
BookUncrossed == Uncrossed(book)

\* The order being matched does not rest under its own id, so it can neither
\* trade with itself nor overwrite a location when its remainder rests: the
\* duplicate test of place_order still holds at the end of its loops.
TakerNotResting == ~Idle => ~contains_order(book, taker.order_id)

\* An accepted FOK order has nothing left when the matching loop ends: the
\* can_fully_match preflight and the loop agree on what is executable.
FokAllOrNothing ==
    (~Idle /\ taker.order_type = "fok"
           /\ \A p \in Prices : ~Matchable(book, taker, remaining, p))
        => remaining = 0

\* place_order never reports a trade for an accepted post-only order.
PostOnlyNeverTakes ==
    (events # <<>> /\ events[1].kind = "accepted"
                   /\ events[1].order.order_type = "post_only")
        => Len(events) = 1

\* The trades of one batch never improve from one to the next, never go
\* through the order's limit, and carry the consecutive execution ids that end
\* right before next_execution_id_.
TradesWalkTheBook ==
    (events # <<>> /\ events[1].kind = "accepted") =>
        LET o        == events[1].order
            price(k) == events[k].price
        IN  \A k \in 2 .. Len(events) :
                /\ events[k].execution_id =
                     book.next_execution_id - (Len(events) - k) - 1
                /\ o.order_type # "market" =>
                     IF o.side = "buy" THEN price(k) <= o.price
                                       ELSE price(k) >= o.price
                /\ k > 2 =>
                     IF o.side = "buy" THEN price(k) >= price(k - 1)
                                       ELSE price(k) <= price(k - 1)

Traded(batch) ==
    SumFunction([k \in 2 .. Len(batch) |-> batch[k].quantity])

SideQuantity(lv) == SumFunction(LevelQuantities(lv))

\* Quantity is neither created nor lost by matching: what was ordered is what
\* the batch traded plus what remains, and each step of a call takes from the
\* opposite side of the book exactly what it adds to the batch.
QuantityConserved ==
    [][~Idle =>
        LET s == Opposite(taker.side)
        IN  /\ taker.quantity = remaining + Traded(events)
            /\ SideQuantity(book.levels[s]) - SideQuantity(book'.levels[s])
                 = Traded(events') - Traded(events)]_vars

PriceTime == INSTANCE PriceTimePriority
             WITH resting <- RestingMap(book), earlier <- ArrivalOrder(book)

\* The two price maps of deques implement strict price-time priority: every
\* trade takes the best price and the earliest arrival, a partial fill keeps
\* its place, and a cancellation leaves every other order where it was.
ImplementsPriceTime == PriceTime!Spec

\* What the OrderCanceled event of a cancellation says about the order is what
\* rested: its side and its price.
CancelReportsTheOrder ==
    [][\A id \in DOMAIN book.order_locations :
        (Idle /\ id \notin DOMAIN book'.order_locations) =>
            /\ events'[1].side = book.order_locations[id].side
            /\ events'[1].price = book.order_locations[id].price]_vars
=============================================================================
