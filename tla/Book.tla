------------------------------- MODULE Book -------------------------------
(***************************************************************************)
(* The value of one domain::OrderBook and what its member functions do to  *)
(* it.  A book is a record                                                 *)
(*                                                                         *)
(*   levels            buy_levels_ and sell_levels_: for each side a map   *)
(*                     from price to the deque of resting orders there;    *)
(*                     a key with an empty deque is a state of its own     *)
(*   order_locations   order_locations_: id -> (side, price, account)      *)
(*   next_execution_id next_execution_id_                                  *)
(*                                                                         *)
(* The operators take a book and return the book the code leaves behind.   *)
(* OrderBook drives one book, MatchingEngine one book per instrument.      *)
(***************************************************************************)
EXTENDS Integers, SequencesExt

CONSTANTS
    OrderIds,       \* api::OrderId values the clients use
    AccountIds,     \* api::AccountId values
    MaxPrice,       \* largest api::Price of the instance
    MaxQuantity,    \* largest api::Quantity of one order of the instance
    Garbage         \* a field read from memory that was already released

ASSUME BookAssumption ==
    /\ MaxPrice \in Nat \ {0}
    /\ MaxQuantity \in Nat \ {0}

Sides      == {"buy", "sell"}
OrderTypes == {"limit", "market", "ioc", "fok", "post_only"}
Prices     == 1 .. MaxPrice
Quantities == 1 .. MaxQuantity

\* A market order carries price 0 and every other order a positive price.
\* MatchingEngine::place_order lets nothing else reach a book.
Orders ==
    {o \in [order_id: OrderIds, side: Sides, price: 0 .. MaxPrice,
            quantity: Quantities, order_type: OrderTypes,
            account_id: AccountIds] :
        o.order_type = "market" <=> o.price = 0}

\* IOC, FOK and market orders return before the code that lets an order rest.
RestingTypes == {"limit", "post_only"}

RestingOrders == [order_id: OrderIds, remaining_quantity: Quantities,
                  order_type: RestingTypes, account_id: AccountIds]

Locations == [side: Sides, price: Prices, account_id: AccountIds]

IsLevelMap(lv) ==
    /\ DOMAIN lv \subseteq Prices
    /\ lv \in [DOMAIN lv -> Seq(RestingOrders)]

IsIndex(locs) ==
    /\ DOMAIN locs \subseteq OrderIds
    /\ locs \in [DOMAIN locs -> Locations]

\* The type of a book.  The sets of these maps are too large to enumerate, so
\* the type is a predicate and not a set.
IsBook(b) ==
    /\ b = [levels |-> b.levels, order_locations |-> b.order_locations,
            next_execution_id |-> b.next_execution_id]
    /\ b.levels = [s \in Sides |-> b.levels[s]]
    /\ \A s \in Sides : IsLevelMap(b.levels[s])
    /\ IsIndex(b.order_locations)
    /\ b.next_execution_id \in Nat

EmptyBook ==
    [levels |-> [s \in Sides |-> [p \in {} |-> <<>>]],
     order_locations |-> [i \in {} |-> <<>>],
     next_execution_id |-> 1]

----------------------------------------------------------------------------
(* Events.  The instrument and the copies of the request that no consumer   *)
(* tells apart are left out.                                                *)

Accepted(o)  == [kind |-> "accepted", order |-> o]
Rejected(id, reason) == [kind |-> "rejected", order_id |-> id, reason |-> reason]

TradeEvents ==
    [kind: {"trade"}, execution_id: Nat,
     incoming_order_id: OrderIds, resting_order_id: OrderIds,
     price: Prices, quantity: Quantities,
     incoming_account_id: AccountIds, resting_account_id: AccountIds]

CanceledEvents ==
    [kind: {"canceled"}, order_id: OrderIds, side: Sides \cup {Garbage},
     price: Prices \cup {Garbage}, order_type: RestingTypes,
     account_id: AccountIds]

BookRejectReasons == {"duplicate_order_id", "fok_not_filled",
                      "post_only_rejected", "unknown_order_id",
                      "unauthorized_order"}

----------------------------------------------------------------------------
(* std::map operations on one side of the book.                             *)

Opposite(s) == IF s = "buy" THEN "sell" ELSE "buy"

\* The iteration order of BuyLevels (std::greater) and SellLevels.
Better(s, p, q) == IF s = "buy" THEN p > q ELSE p < q

\* Mutant of IsBest: rbegin() instead of begin().
IsBest_Last(lv, s, p) ==
    /\ p \in DOMAIN lv
    /\ \A q \in DOMAIN lv \ {p} : Better(s, q, p)

\* p is the key of begin().
IsBest(lv, s, p) ==
    /\ p \in DOMAIN lv
    /\ \A q \in DOMAIN lv \ {p} : Better(s, p, q)

PutLevel(lv, p, deque) ==
    [x \in DOMAIN lv \cup {p} |-> IF x = p THEN deque ELSE lv[x]]

remove_empty_level(lv, p) ==
    IF p \in DOMAIN lv /\ lv[p] = <<>>
    THEN [x \in DOMAIN lv \ {p} |-> lv[x]]
    ELSE lv

\* Mutant of push_back: push_front.
push_back_Front(lv, p, r) ==
    PutLevel(lv, p, IF p \in DOMAIN lv THEN <<r>> \o lv[p] ELSE <<r>>)

push_back(lv, p, r) ==
    PutLevel(lv, p, IF p \in DOMAIN lv THEN Append(lv[p], r) ELSE <<r>>)

----------------------------------------------------------------------------
(* place_order                                                              *)

contains_order(b, id) == id \in DOMAIN b.order_locations

\* Mutant of Crosses: <= instead of < in the test that leaves the loop.
Crosses_Strict(o, p) ==
    \/ o.order_type = "market"
    \/ o.side = "buy"  /\ o.price > p
    \/ o.side = "sell" /\ o.price < p

\* The price test that ends the matching loop and the FOK preflight.
Crosses(o, p) ==
    \/ o.order_type = "market"
    \/ o.side = "buy"  /\ o.price >= p
    \/ o.side = "sell" /\ o.price <= p

LevelQuantity(deque) ==
    SumFunction([k \in DOMAIN deque |-> deque[k].remaining_quantity])

LevelQuantities(lv) == [p \in DOMAIN lv |-> LevelQuantity(lv[p])]

\* Mutant of can_fully_match: every level counts, whatever its price.
can_fully_match_AnyPrice(b, o) ==
    LET lv == b.levels[Opposite(o.side)]
    IN  SumFunction(LevelQuantities(lv)) >= o.quantity

\* The preflight subtracts resting quantities level by level until nothing is
\* left to fill; that succeeds exactly when the crossing levels hold enough.
can_fully_match(b, o) ==
    LET lv == b.levels[Opposite(o.side)]
    IN  SumFunctionOnSet(LevelQuantities(lv), {p \in DOMAIN lv : Crosses(o, p)})
            >= o.quantity

\* Mutant of post_only_crosses: an order at the opposite best price is let in.
post_only_crosses_Strict(b, o) ==
    LET lv == b.levels[Opposite(o.side)]
    IN  \E p \in DOMAIN lv : /\ IsBest(lv, Opposite(o.side), p)
                            /\ Better(o.side, o.price, p)

post_only_crosses(b, o) ==
    LET lv == b.levels[Opposite(o.side)]
    IN  \E p \in DOMAIN lv : IsBest(lv, Opposite(o.side), p) /\ Crosses(o, p)

\* The early returns of place_order, in the order the code tests them.
PlaceRejection(b, o) ==
    CASE contains_order(b, o.order_id) -> "duplicate_order_id"
      [] /\ ~contains_order(b, o.order_id)
         /\ o.order_type = "fok" /\ ~can_fully_match(b, o) -> "fok_not_filled"
      [] /\ ~contains_order(b, o.order_id)
         /\ o.order_type = "post_only" /\ post_only_crosses(b, o)
         -> "post_only_rejected"
      [] OTHER -> "none"

\* The condition of the two nested matching loops: a best opposite level, p,
\* exists and is within the limit while quantity remains.
Matchable(b, o, remaining, p) ==
    /\ remaining > 0
    /\ IsBest(b.levels[Opposite(o.side)], Opposite(o.side), p)
    /\ Crosses(o, p)

ExecutedQuantity(resting, remaining) ==
    IF remaining <= resting.remaining_quantity
    THEN remaining ELSE resting.remaining_quantity

\* The trade the loop body reports for the front order of the best level p.
TradeOf(b, o, remaining, p) ==
    LET resting == Head(b.levels[Opposite(o.side)][p])
    IN  [kind |-> "trade",
         execution_id |-> b.next_execution_id,
         incoming_order_id |-> o.order_id,
         resting_order_id |-> resting.order_id,
         price |-> p,
         quantity |-> ExecutedQuantity(resting, remaining),
         incoming_account_id |-> o.account_id,
         resting_account_id |-> resting.account_id]

\* Mutants of Execute: the filled order stays in its deque; the filled order
\* stays in order_locations_; a partly filled order keeps its quantity.
Execute_NoPop(b, o, remaining, p) ==
    LET s        == Opposite(o.side)
        executed == ExecutedQuantity(Head(b.levels[s][p]), remaining)
    IN  [b EXCEPT !.levels[s][p][1].remaining_quantity = @ - executed,
                  !.next_execution_id = @ + 1]

Execute_NoErase(b, o, remaining, p) ==
    LET s        == Opposite(o.side)
        lv       == b.levels[s]
        resting  == Head(lv[p])
        executed == ExecutedQuantity(resting, remaining)
        reduced  == [resting EXCEPT !.remaining_quantity = @ - executed]
    IN  [b EXCEPT
            !.levels[s] =
                IF executed = resting.remaining_quantity
                THEN remove_empty_level(PutLevel(lv, p, Tail(lv[p])), p)
                ELSE PutLevel(lv, p, [lv[p] EXCEPT ![1] = reduced]),
            !.next_execution_id = @ + 1]

Execute_NoReduce(b, o, remaining, p) ==
    LET s       == Opposite(o.side)
        lv      == b.levels[s]
        resting == Head(lv[p])
        locs    == b.order_locations
    IN  IF resting.remaining_quantity > remaining
        THEN [b EXCEPT !.next_execution_id = @ + 1]
        ELSE [b EXCEPT
                !.levels[s] = remove_empty_level(PutLevel(lv, p, Tail(lv[p])), p),
                !.order_locations =
                    [i \in DOMAIN locs \ {resting.order_id} |-> locs[i]],
                !.next_execution_id = @ + 1]

\* The book after one iteration of the inner loop: the front order is reduced,
\* or popped together with its location and, if it was the last, its level.
Execute(b, o, remaining, p) ==
    LET s        == Opposite(o.side)
        lv       == b.levels[s]
        resting  == Head(lv[p])
        executed == ExecutedQuantity(resting, remaining)
        reduced  == [resting EXCEPT !.remaining_quantity = @ - executed]
        locs     == b.order_locations
    IN  IF executed = resting.remaining_quantity
        THEN [levels |-> [b.levels EXCEPT ![s] =
                  remove_empty_level(PutLevel(lv, p, Tail(lv[p])), p)],
              order_locations |->
                  [i \in DOMAIN locs \ {resting.order_id} |-> locs[i]],
              next_execution_id |-> b.next_execution_id + 1]
        ELSE [levels |-> [b.levels EXCEPT ![s] =
                  PutLevel(lv, p, [lv[p] EXCEPT ![1] = reduced])],
              order_locations |-> locs,
              next_execution_id |-> b.next_execution_id + 1]

\* The book after the matching loops: the remainder of a limit or post-only
\* order rests at the back of its price level.
Rest(b, o, remaining) ==
    IF o.order_type \notin RestingTypes \/ remaining = 0 THEN b
    ELSE LET resting == [order_id |-> o.order_id,
                         remaining_quantity |-> remaining,
                         order_type |-> o.order_type,
                         account_id |-> o.account_id]
             location == [side |-> o.side, price |-> o.price,
                          account_id |-> o.account_id]
             locs == b.order_locations
         IN  [b EXCEPT
                !.levels[o.side] = push_back(@, o.price, resting),
                !.order_locations =
                    [i \in DOMAIN locs \cup {o.order_id} |->
                        IF i = o.order_id THEN location ELSE locs[i]]]

----------------------------------------------------------------------------
(* cancel_order                                                             *)

CancelRejection(b, id, account) ==
    CASE ~contains_order(b, id) -> "unknown_order_id"
      [] /\ contains_order(b, id)
         /\ account # b.order_locations[id].account_id -> "unauthorized_order"
      [] OTHER -> "none"

\* Position of the first entry of a deque that carries the id.
PositionIn(deque, id) ==
    CHOOSE k \in DOMAIN deque :
        /\ deque[k].order_id = id
        /\ \A j \in 1 .. k - 1 : deque[j].order_id # id

IsIn(deque, id) == \E k \in DOMAIN deque : deque[k].order_id = id

remove_order_from_level(lv, p, id) ==
    IF p \notin DOMAIN lv THEN lv
    ELSE LET deque == IF IsIn(lv[p], id)
                      THEN RemoveAt(lv[p], PositionIn(lv[p], id))
                      ELSE lv[p]
         IN  remove_empty_level(PutLevel(lv, p, deque), p)

\* The book after a cancellation that was not rejected.
CancelIn(b, id) ==
    LET loc == b.order_locations[id]
    IN  [b EXCEPT
            !.levels[loc.side] = remove_order_from_level(@, loc.price, id),
            !.order_locations =
                [i \in DOMAIN b.order_locations \ {id} |->
                    b.order_locations[i]]]

\* The OrderCanceled event, given what was read for its side and price.
Canceled(b, id, account, side, price) ==
    LET loc   == b.order_locations[id]
        lv    == b.levels[loc.side]
        found == loc.price \in DOMAIN lv /\ IsIn(lv[loc.price], id)
    IN  [kind |-> "canceled", order_id |-> id, side |-> side, price |-> price,
         order_type |-> IF found
                        THEN lv[loc.price][PositionIn(lv[loc.price], id)].order_type
                        ELSE "limit",
         account_id |-> account]

\* The events a cancellation may return.  cancel_order copies the side and the
\* price out of the location after it has erased the map node that holds them,
\* so each of the two may be the old value or anything else.
CancelReports(b, id, account) ==
    {Canceled(b, id, account, side, price) :
        side \in {b.order_locations[id].side, Garbage},
        price \in {b.order_locations[id].price, Garbage}}

----------------------------------------------------------------------------
(* What the two representations of the open orders owe each other.          *)

LevelsNonEmpty(b) ==
    \A s \in Sides : \A p \in DOMAIN b.levels[s] : b.levels[s][p] # <<>>

EntriesIndexed(b) ==
    \A s \in Sides : \A p \in DOMAIN b.levels[s] :
        \A k \in DOMAIN b.levels[s][p] :
            LET r == b.levels[s][p][k]
            IN  /\ r.order_id \in DOMAIN b.order_locations
                /\ b.order_locations[r.order_id] =
                     [side |-> s, price |-> p, account_id |-> r.account_id]

IndexedPresent(b) ==
    \A id \in DOMAIN b.order_locations :
        LET loc == b.order_locations[id]
        IN  /\ loc.price \in DOMAIN b.levels[loc.side]
            /\ IsIn(b.levels[loc.side][loc.price], id)

NoDuplicates(b) ==
    \A s \in Sides : \A p \in DOMAIN b.levels[s] :
        \A j, k \in DOMAIN b.levels[s][p] :
            j # k => b.levels[s][p][j].order_id # b.levels[s][p][k].order_id

IndexConsistent(b) ==
    /\ LevelsNonEmpty(b)
    /\ EntriesIndexed(b)
    /\ IndexedPresent(b)
    /\ NoDuplicates(b)

\* No bid could trade with an ask.
Uncrossed(b) ==
    \A bid \in DOMAIN b.levels["buy"], ask \in DOMAIN b.levels["sell"] :
        bid < ask

----------------------------------------------------------------------------
(* What a book stands for.                                                  *)

\* An open order as the index and its deque describe it.
RestingEntry(b, id) ==
    LET loc   == b.order_locations[id]
        deque == b.levels[loc.side][loc.price]
        r     == deque[PositionIn(deque, id)]
    IN  [side |-> loc.side, price |-> loc.price,
         remaining_quantity |-> r.remaining_quantity,
         order_type |-> r.order_type, account_id |-> loc.account_id]

RestingMap(b) == [id \in DOMAIN b.order_locations |-> RestingEntry(b, id)]

Precedes(b, i, j) ==
    \E s \in Sides : \E p \in DOMAIN b.levels[s] :
        \E m, n \in DOMAIN b.levels[s][p] :
            /\ m < n
            /\ b.levels[s][p][m].order_id = i
            /\ b.levels[s][p][n].order_id = j

ArrivalOrder(b) == {e \in OrderIds \X OrderIds : Precedes(b, e[1], e[2])}
=============================================================================
