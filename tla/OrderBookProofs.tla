-------------------------- MODULE OrderBookProofs --------------------------
(***************************************************************************)
(* Proofs of the properties of OrderBook for every set of ids and accounts *)
(* and every bound.                                                        *)
(*                                                                         *)
(* The invariants of the book are inductive only together: FinishPlace     *)
(* keeps the index consistent only because the id of the incoming order is *)
(* not in it, and ExecuteAt needs the index to be consistent to know that  *)
(* the best level has a front order.  On them rest the invariants of the   *)
(* batch (which trades it holds, and what is left of the levels they came  *)
(* from), the refinement of PriceTimePriority, and the sums of FOK orders  *)
(* and of conservation.                                                    *)
(***************************************************************************)
EXTENDS OrderBook, BookProofs

\* The inductive invariant of the order book.
IndInv ==
    /\ TypeOK
    /\ BookIndexConsistent
    /\ BookUncrossed
    /\ TakerNotResting

----------------------------------------------------------------------------

\* It holds of an empty book.
LEMMA InitIndInv == Init => IndInv
<1> SUFFICES ASSUME Init PROVE IndInv
    OBVIOUS
<1>1. GoodBook(book)
    BY EmptyBookIsGood DEF Init
<1>2. /\ taker \in Orders \cup {NoOrder}
      /\ remaining \in 0 .. MaxQuantity
      /\ events \in Seq(Events)
      /\ TakerNotResting
    BY BookAssumption DEF Init, TakerNotResting, Idle
<1> QED
    BY <1>1, <1>2 DEF IndInv, TypeOK, BookIndexConsistent, BookUncrossed, GoodBook

\* Every step of the book keeps it.
LEMMA NextIndInv == IndInv /\ [Next]_vars => IndInv'
<1> SUFFICES ASSUME IndInv, [Next]_vars PROVE IndInv'
    OBVIOUS
<1> USE DEF IndInv, BookIndexConsistent, BookUncrossed
<1>1. ASSUME NEW o \in Orders, PlaceRejected(o) PROVE IndInv'
  <2>1. o.order_id \in OrderIds
      BY DEF Orders
  <2>2. PlaceRejection(book, o) \in BookRejectReasons
      BY <1>1, RejectionReasons DEF PlaceRejected
  <2>3. events' \in Seq(Events)
      BY <1>1, <2>1, <2>2 DEF PlaceRejected, Rejected, Events
  <2> QED
      BY <1>1, <2>3 DEF PlaceRejected, TypeOK, TakerNotResting, Idle
<1>2. ASSUME NEW o \in Orders, PlaceAccepted(o) PROVE IndInv'
  <2>1. /\ o.quantity \in 0 .. MaxQuantity
        /\ Accepted(o) \in Events
      BY BookAssumption DEF Orders, Quantities, Accepted, Events
  <2>2. ~contains_order(book, o.order_id)
      BY <1>2, AcceptedMeans DEF PlaceAccepted
  <2>3. /\ events' \in Seq(Events)
        /\ remaining' \in 0 .. MaxQuantity
        /\ taker' = o
        /\ book' = book
      BY <1>2, <2>1 DEF PlaceAccepted
  <2> QED
      BY <2>2, <2>3 DEF TypeOK, TakerNotResting
<1>3. ASSUME NEW p \in Prices, ExecuteAt(p) PROVE IndInv'
  <2>1. /\ taker \in Orders
        /\ remaining \in 0 .. MaxQuantity
        /\ Matchable(book, taker, remaining, p)
      BY <1>3 DEF ExecuteAt, TypeOK, Idle
  <2>2. /\ IsBook(Execute(book, taker, remaining, p))
        /\ IndexConsistent(Execute(book, taker, remaining, p))
        /\ Uncrossed(Execute(book, taker, remaining, p))
        /\ DOMAIN Execute(book, taker, remaining, p).order_locations
             \subseteq DOMAIN book.order_locations
      BY <2>1, ExecuteKeepsBook DEF TypeOK
  <2>3. book' = Execute(book, taker, remaining, p) /\ taker' = taker
      BY <1>3 DEF ExecuteAt
  <2>4. /\ TradeOf(book, taker, remaining, p) \in TradeEvents
        /\ TradeOf(book, taker, remaining, p).quantity \in 1 .. remaining
      BY <2>1, TradeFacts DEF TypeOK
  <2>5. remaining' \in 0 .. MaxQuantity
      BY <1>3, <2>1, <2>4, BookAssumption DEF ExecuteAt
  <2>6. events' \in Seq(Events)
      BY <1>3, <2>4 DEF ExecuteAt, TypeOK, Events
  <2>7. TakerNotResting'
      BY <1>3, <2>2, <2>3 DEF ExecuteAt, TakerNotResting, contains_order, Idle
  <2> QED
      BY <2>2, <2>3, <2>5, <2>6, <2>7 DEF TypeOK
<1>4. ASSUME FinishPlace PROVE IndInv'
  <2>1. /\ taker \in Orders
        /\ remaining \in 0 .. MaxQuantity
        /\ taker.order_id \notin DOMAIN book.order_locations
        /\ \A p \in Prices : ~Matchable(book, taker, remaining, p)
      BY <1>4 DEF FinishPlace, TypeOK, TakerNotResting, contains_order, Idle
  <2>2. /\ IsBook(Rest(book, taker, remaining))
        /\ IndexConsistent(Rest(book, taker, remaining))
        /\ Uncrossed(Rest(book, taker, remaining))
      BY <2>1, RestKeepsBook DEF TypeOK
  <2> QED
      BY <1>4, <2>2, BookAssumption DEF FinishPlace, TypeOK, TakerNotResting, Idle
<1>5. ASSUME NEW id \in OrderIds, NEW account \in AccountIds,
             CancelRejected(id, account)
      PROVE  IndInv'
  <2>1. CancelRejection(book, id, account) \in BookRejectReasons
      BY <1>5, RejectionReasons DEF CancelRejected
  <2>2. events' \in Seq(Events)
      BY <1>5, <2>1 DEF CancelRejected, Rejected, Events
  <2> QED
      BY <1>5, <2>2 DEF CancelRejected, TypeOK, TakerNotResting, Idle
<1>6. ASSUME NEW id \in OrderIds, NEW account \in AccountIds,
             Cancel(id, account)
      PROVE  IndInv'
  <2>1. id \in DOMAIN book.order_locations
      BY <1>6, AcceptedMeans DEF Cancel
  <2>2. /\ IsBook(CancelIn(book, id))
        /\ IndexConsistent(CancelIn(book, id))
        /\ Uncrossed(CancelIn(book, id))
      BY <2>1, CancelKeepsBook DEF TypeOK
  <2>3. PICK e \in CancelReports(book, id, account) : events' = <<e>>
      BY <1>6 DEF Cancel
  <2>4. e \in CanceledEvents
      BY <2>1, CancelReportsTyped DEF TypeOK
  <2>5. events' \in Seq(Events)
      BY <2>3, <2>4 DEF Events
  <2> QED
      BY <1>6, <2>2, <2>5 DEF Cancel, TypeOK, TakerNotResting, Idle
<1>7. ASSUME UNCHANGED vars PROVE IndInv'
    BY <1>7 DEF vars, TypeOK, TakerNotResting, Idle
<1> QED
    BY <1>1, <1>2, <1>3, <1>4, <1>5, <1>6, <1>7 DEF Next, Loop

\* The strengthened invariant holds in every reachable state.
THEOREM IndInvHolds == Spec => []IndInv
    BY InitIndInv, NextIndInv, PTL DEF Spec

\* place_order and cancel_order keep every member of OrderBook well-typed; in
\* particular no order rests with quantity 0 or at price 0.
THEOREM TypeCorrect == Spec => []TypeOK
<1>1. IndInv => TypeOK
    BY DEF IndInv
<1> QED
    BY <1>1, IndInvHolds, PTL

\* order_locations_ and the deques of the two price maps always agree.
THEOREM IndexAlwaysConsistent == Spec => []BookIndexConsistent
<1>1. IndInv => BookIndexConsistent
    BY DEF IndInv
<1> QED
    BY <1>1, IndInvHolds, PTL

\* The book never crosses, whatever orders of whatever types arrive.
THEOREM NeverCrossed == Spec => []BookUncrossed
<1>1. IndInv => BookUncrossed
    BY DEF IndInv
<1> QED
    BY <1>1, IndInvHolds, PTL

\* The id of the order being matched never rests before its own remainder does.
THEOREM TakerNeverRests == Spec => []TakerNotResting
<1>1. IndInv => TakerNotResting
    BY DEF IndInv
<1> QED
    BY <1>1, IndInvHolds, PTL

----------------------------------------------------------------------------
(* What a step of the book shows to the components that read its batches.   *)

\* The ids of the open orders.
Locs == DOMAIN book.order_locations

\* A call ends at once with a rejection.
Rejects ==
    /\ Idle /\ taker' = NoOrder /\ book' = book
    /\ \E e \in Events : events' = <<e>> /\ e.kind = "rejected"

\* An order is accepted and will be matched.
Accepts ==
    /\ Idle /\ taker' \in Orders /\ book' = book
    /\ PlaceRejection(book, taker') = "none"
    /\ events' = <<Accepted(taker')>>

\* The order being matched trades once.
Trades ==
    /\ ~Idle /\ taker' = taker
    /\ book'.next_execution_id = book.next_execution_id + 1
    /\ Locs' \subseteq Locs
    /\ \E e \in TradeEvents : events' = Append(events, e)

\* Matching ends and the call returns.
Returns ==
    /\ ~Idle /\ taker' = NoOrder /\ events' = events
    /\ book'.next_execution_id = book.next_execution_id
    /\ Locs' \subseteq Locs \cup {taker.order_id}

\* An open order is canceled.
Cancels ==
    /\ Idle /\ taker' = NoOrder
    /\ book'.next_execution_id = book.next_execution_id
    /\ \E id \in Locs : Locs' = Locs \ {id}
    /\ \E e \in CanceledEvents : events' = <<e>>

\* Every step of the book is one of these five.
LEMMA StepEffect ==
    ASSUME IndInv, Next
    PROVE  Rejects \/ Accepts \/ Trades \/ Returns \/ Cancels
<1>0. TypeOK /\ IndexConsistent(book) /\ IsBook(book)
    BY DEF IndInv, TypeOK, BookIndexConsistent
<1>1. ASSUME NEW o \in Orders, PlaceRejected(o) PROVE Rejects
  <2>1. /\ Rejected(o.order_id, PlaceRejection(book, o)) \in Events
        /\ Rejected(o.order_id, PlaceRejection(book, o)).kind = "rejected"
    <3>1. o.order_id \in OrderIds
        BY DEF Orders
    <3>2. PlaceRejection(book, o) \in BookRejectReasons
        BY <1>1, RejectionReasons DEF PlaceRejected
    <3> QED
        BY <3>1, <3>2 DEF Rejected, Events
  <2> QED
      BY <1>1, <2>1 DEF PlaceRejected, Rejects, Idle
<1>2. ASSUME NEW o \in Orders, PlaceAccepted(o) PROVE Accepts
    BY <1>2 DEF PlaceAccepted, Accepts
<1>3. ASSUME NEW p \in Prices, ExecuteAt(p) PROVE Trades
  <2>1. taker \in Orders /\ remaining \in 0 .. MaxQuantity
      BY <1>0, <1>3 DEF ExecuteAt, TypeOK, Idle
  <2>2. TradeOf(book, taker, remaining, p) \in TradeEvents
      BY <1>0, <1>3, <2>1, TradeFacts DEF ExecuteAt
  <2>3. /\ book'.next_execution_id = book.next_execution_id + 1
        /\ Locs' \subseteq Locs
      BY <1>3 DEF ExecuteAt, Execute, Locs
  <2> QED
      BY <1>3, <2>2, <2>3 DEF ExecuteAt, Trades
<1>4. ASSUME FinishPlace PROVE Returns
  <2>1. /\ book'.next_execution_id = book.next_execution_id
        /\ Locs' \subseteq Locs \cup {taker.order_id}
      BY <1>0, <1>4 DEF FinishPlace, Rest, Locs, IsBook
  <2> QED
      BY <1>4, <2>1 DEF FinishPlace, Returns
<1>5. ASSUME NEW id \in OrderIds, NEW account \in AccountIds,
             CancelRejected(id, account)
      PROVE  Rejects
  <2>1. /\ Rejected(id, CancelRejection(book, id, account)) \in Events
        /\ Rejected(id, CancelRejection(book, id, account)).kind = "rejected"
      BY <1>5, RejectionReasons DEF CancelRejected, Rejected, Events
  <2> QED
      BY <1>5, <2>1 DEF CancelRejected, Rejects, Idle
<1>6. ASSUME NEW id \in OrderIds, NEW account \in AccountIds, Cancel(id, account)
      PROVE  Cancels
  <2>1. id \in Locs
      BY <1>6, AcceptedMeans DEF Cancel, Locs
  <2>2. /\ book'.next_execution_id = book.next_execution_id
        /\ Locs' = Locs \ {id}
      BY <1>0, <1>6 DEF Cancel, CancelIn, Locs, IsBook
  <2>3. PICK e \in CancelReports(book, id, account) : events' = <<e>>
      BY <1>6 DEF Cancel
  <2>4. e \in CanceledEvents
      BY <1>0, <2>1, CancelReportsTyped DEF Locs
  <2> QED
      BY <1>6, <2>1, <2>2, <2>3, <2>4 DEF Cancel, Cancels, Idle
<1> QED
    BY <1>1, <1>2, <1>3, <1>4, <1>5, <1>6 DEF Next, Loop

\* An order that leaves the book between two calls was canceled by the account
\* that placed it, and every other order keeps its side, price, quantity and
\* place in its queue.
OwnerWithdraws ==
    \A id \in DOMAIN book.order_locations :
        (Idle /\ id \notin DOMAIN book'.order_locations) =>
            /\ events'[1].kind = "canceled"
            /\ events'[1].order_id = id
            /\ events'[1].account_id = book.order_locations[id].account_id
            /\ Leaves(book', book, id)

\* cancel_order takes out of the book the one order it names, for its owner
\* only, and leaves all that rests besides it as it was.
THEOREM OwnerCancels == Spec => [][OwnerWithdraws]_vars
<1>1. IndInv /\ [Next]_vars => [OwnerWithdraws]_vars
  <2> SUFFICES ASSUME IndInv, Next, Idle,
                      NEW i \in DOMAIN book.order_locations,
                      i \notin DOMAIN book'.order_locations
               PROVE  /\ events'[1].kind = "canceled"
                      /\ events'[1].order_id = i
                      /\ events'[1].account_id =
                           book.order_locations[i].account_id
                      /\ Leaves(book', book, i)
      BY DEF OwnerWithdraws
  <2>1. book' # book
      OBVIOUS
  <2>2. PICK id \in OrderIds, account \in AccountIds : Cancel(id, account)
      BY <2>1 DEF Next, Loop, PlaceRejected, PlaceAccepted, ExecuteAt,
                  FinishPlace, CancelRejected
  <2>3. PICK e \in CancelReports(book, id, account) : events' = <<e>>
      BY <2>2 DEF Cancel
  <2>4. /\ e.kind = "canceled"
        /\ e.order_id = id
        /\ e.account_id = account
    <3>1. PICK side, price : e = Canceled(book, id, account, side, price)
        BY <2>3 DEF CancelReports
    <3> QED
        BY <3>1 DEF Canceled
  <2>5. book' = CancelIn(book, id)
      BY <2>2 DEF Cancel
  <2>6. DOMAIN book'.order_locations = DOMAIN book.order_locations \ {id}
      BY <2>5 DEF CancelIn, IndInv, TypeOK, IsBook
  <2>7. i = id
      BY <2>6
  <2>8. account = book.order_locations[id].account_id
      BY <2>2, <2>7 DEF Cancel, CancelRejection, contains_order
  <2>9. Leaves(book', book, id)
    <3>1. IndInv'
        BY NextIndInv
    <3>2. IsSound(book) /\ IsSound(book')
        BY <3>1 DEF IndInv, TypeOK, BookIndexConsistent, IsSound
    <3> QED
        BY <2>5, <2>7, <3>2, CancelRefines
  <2> QED
      BY <2>3, <2>4, <2>7, <2>8, <2>9
<1> HIDE DEF OwnerWithdraws
<1> QED
    BY <1>1, IndInvHolds, PTL DEF Spec

----------------------------------------------------------------------------
(* The batch of a call.  The invariants about it relate the trades reported *)
(* so far to the levels that are left on the opposite side.                 *)

\* The batch of an accepted order.
IsPlaceBatch == events # <<>> /\ events[1].kind = "accepted"

\* The levels the running order may trade with.
OppositeLevels == book.levels[Opposite(taker.side)]

\* The batch of an accepted order is its acceptance, then trades.
BatchShape ==
    /\ ~Idle => events # <<>> /\ events[1] = Accepted(taker)
    /\ IsPlaceBatch => \A k \in 2 .. Len(events) : events[k] \in TradeEvents

\* No level is left that is better than a price already traded at.
BestTradedFirst ==
    ~Idle => \A k \in 2 .. Len(events) : \A q \in DOMAIN OppositeLevels :
                ~Better(Opposite(taker.side), q, events[k].price)

\* A post-only order that is being placed has nothing to trade with.
PostOnlyStandsBack ==
    (~Idle /\ taker.order_type = "post_only") =>
        Len(events) = 1 /\ \A q \in DOMAIN OppositeLevels : ~Crosses(taker, q)

\* The invariant of the batch, inductive together with IndInv.
BatchInv ==
    /\ BatchShape
    /\ BestTradedFirst
    /\ PostOnlyStandsBack
    /\ PostOnlyNeverTakes
    /\ TradesWalkTheBook

\* An execution leaves no level behind that was not there before.
LEMMA ExecuteAddsNoLevel ==
    ASSUME NEW b, IsBook(b), NEW o \in Orders, NEW remains, NEW p,
           p \in DOMAIN b.levels[Opposite(o.side)]
    PROVE  DOMAIN Execute(b, o, remains, p).levels[Opposite(o.side)]
             \subseteq DOMAIN b.levels[Opposite(o.side)]
<1> DEFINE s == Opposite(o.side)
<1>1. s \in Sides /\ s \in DOMAIN b.levels
    BY DEF Orders, Opposite, Sides, IsBook
<1>2. \A d : DOMAIN PutLevel(b.levels[s], p, d) = DOMAIN b.levels[s]
    BY DEF PutLevel
<1>3. \A lv : DOMAIN remove_empty_level(lv, p) \subseteq DOMAIN lv
    BY DEF remove_empty_level
<1>4. \E lv : /\ DOMAIN lv \subseteq DOMAIN b.levels[s]
              /\ Execute(b, o, remains, p).levels = [b.levels EXCEPT ![s] = lv]
    BY <1>2, <1>3 DEF Execute
<1> HIDE DEF s
<1> QED
    BY <1>1, <1>4 DEF s

\* A batch of one event that starts no call satisfies all of BatchInv.
LEMMA ShortBatch ==
    ASSUME NEW e, events' = <<e>>, Idle' PROVE BatchInv'
<1>1. Len(events') = 1 /\ 2 .. Len(events') = {}
    OBVIOUS
<1> QED
    BY <1>1 DEF BatchInv, BatchShape, BestTradedFirst, PostOnlyStandsBack,
                PostOnlyNeverTakes, TradesWalkTheBook

\* It holds of an empty batch.
LEMMA InitBatchInv == Init => BatchInv
    BY DEF Init, BatchInv, BatchShape, BestTradedFirst, PostOnlyStandsBack,
           PostOnlyNeverTakes, TradesWalkTheBook, IsPlaceBatch, Idle

\* A trade keeps BatchInv: it is at the best level, which no earlier trade
\* left a better one behind of, and it is within the limit.
LEMMA TradeKeepsBatch ==
    ASSUME IndInv, BatchInv, NEW p \in Prices, ExecuteAt(p) PROVE BatchInv'
<1> DEFINE s == Opposite(taker.side)
           n == Len(events)
           t == TradeOf(book, taker, remaining, p)
<1>1. /\ ~Idle /\ taker \in Orders /\ remaining \in 0 .. MaxQuantity
      /\ IsBook(book) /\ IndexConsistent(book)
      /\ Matchable(book, taker, remaining, p)
      /\ events \in Seq(Events)
    BY DEF ExecuteAt, IndInv, TypeOK, BookIndexConsistent, Idle
<1>2. /\ taker' = taker /\ Idle' = Idle
      /\ events' = Append(events, t)
      /\ book'.next_execution_id = book.next_execution_id + 1
      /\ book.next_execution_id \in Nat
    BY <1>1 DEF ExecuteAt, Execute, Idle, IsBook
<1>3. /\ t \in TradeEvents /\ t.price = p
      /\ t.execution_id = book.next_execution_id
      /\ p \in DOMAIN book.levels[s] /\ Crosses(taker, p)
      /\ \A q \in DOMAIN book.levels[s] : q # p => Better(s, p, q)
  <2>1. t \in TradeEvents
      BY <1>1, TradeFacts
  <2> QED
      BY <1>1, <2>1 DEF TradeOf, Matchable, IsBest
<1>4. /\ n \in Nat \ {0}
      /\ Len(events') = n + 1
      /\ \A k \in 1 .. n : events'[k] = events[k]
      /\ events'[n + 1] = t
      /\ events' # <<>>
      /\ events[1] = Accepted(taker) /\ events'[1] = Accepted(taker)
      /\ \A k \in 2 .. n : events[k] \in TradeEvents
    BY <1>1, <1>2 DEF BatchInv, BatchShape, IsPlaceBatch, Accepted
<1>5. DOMAIN book'.levels[s] \subseteq DOMAIN book.levels[s]
    BY <1>1, <1>3, ExecuteAddsNoLevel DEF ExecuteAt
<1>6. /\ \A k \in 2 .. n : events[k].price \in Nat
      /\ p \in Nat
      /\ s \in Sides /\ taker.side \in Sides /\ taker.price \in Nat
      /\ s = "sell" <=> taker.side = "buy"
      /\ DOMAIN book.levels[s] \subseteq Nat
  <2>1. Prices \subseteq Nat
      BY BookAssumption DEF Prices
  <2>2. taker.side \in Sides /\ taker.price \in Nat
      BY <1>1, BookAssumption DEF Orders
  <2>3. s \in Sides /\ (s = "sell" <=> taker.side = "buy")
      BY <2>2 DEF Opposite, Sides
  <2>4. DOMAIN book.levels[s] \subseteq Prices
      BY <1>1, <2>3 DEF IsBook, IsLevelMap
  <2> HIDE DEF s
  <2> QED
      BY <1>4, <2>1, <2>2, <2>3, <2>4 DEF TradeEvents
<1>7. \A k \in 2 .. n : ~Better(s, p, events[k].price)
    BY <1>1, <1>3 DEF BatchInv, BestTradedFirst, OppositeLevels
<1>8. taker.order_type # "post_only"
    BY <1>1, <1>3 DEF BatchInv, PostOnlyStandsBack, OppositeLevels
<1> HIDE DEF n, t, s
<1>9. BatchShape'
    BY <1>2, <1>3, <1>4 DEF BatchShape
<1>10. BestTradedFirst'
  <2> SUFFICES ASSUME NEW k \in 2 .. n + 1, NEW q \in DOMAIN book.levels[s]
               PROVE  ~Better(s, q, events'[k].price)
      BY <1>2, <1>4, <1>5 DEF BestTradedFirst, OppositeLevels, s
  <2>1. CASE k \in 2 .. n
      BY <1>1, <1>4, <2>1 DEF BatchInv, BestTradedFirst, OppositeLevels, s, n
  <2>2. CASE k = n + 1
      BY <1>3, <1>4, <1>6, <2>2 DEF Better
  <2> QED
      BY <1>4, <2>1, <2>2
<1>11. PostOnlyStandsBack' /\ PostOnlyNeverTakes'
    BY <1>2, <1>4, <1>8 DEF PostOnlyStandsBack, PostOnlyNeverTakes, Accepted
<1>12. TradesWalkTheBook'
  <2> DEFINE WalksAt(k) ==
                /\ events'[k].execution_id =
                     book'.next_execution_id - (Len(events') - k) - 1
                /\ taker.order_type # "market" =>
                     IF taker.side = "buy" THEN events'[k].price <= taker.price
                                           ELSE events'[k].price >= taker.price
                /\ k > 2 =>
                     IF taker.side = "buy"
                     THEN events'[k].price >= events'[k - 1].price
                     ELSE events'[k].price <= events'[k - 1].price
  <2>1. ASSUME NEW k \in 2 .. n PROVE WalksAt(k)
    <3>1. /\ events[k].execution_id = book.next_execution_id - (n - k) - 1
          /\ taker.order_type # "market" =>
               IF taker.side = "buy" THEN events[k].price <= taker.price
                                     ELSE events[k].price >= taker.price
          /\ k > 2 => IF taker.side = "buy"
                      THEN events[k].price >= events[k - 1].price
                      ELSE events[k].price <= events[k - 1].price
        BY <1>4, <2>1 DEF BatchInv, TradesWalkTheBook, Accepted, n
    <3>2. events'[k] = events[k] /\ (k > 2 => events'[k - 1] = events[k - 1])
        BY <1>4, <2>1
    <3>3. events'[k].execution_id =
            book'.next_execution_id - (Len(events') - k) - 1
        BY <1>2, <1>4, <2>1, <3>1, <3>2
    <3> QED
        BY <3>1, <3>2, <3>3
  <2>2. WalksAt(n + 1)
    <3>1. /\ events'[n + 1] = t
          /\ n + 1 > 2 => n \in 2 .. n /\ events'[n + 1 - 1] = events[n]
        BY <1>4
    <3>2. t.execution_id = book'.next_execution_id - (Len(events') - (n + 1)) - 1
        BY <1>2, <1>3, <1>4
    <3>3. taker.order_type # "market" =>
            IF taker.side = "buy" THEN p <= taker.price ELSE p >= taker.price
        BY <1>3, <1>6 DEF Crosses, Sides
    <3>4. n + 1 > 2 => IF taker.side = "buy" THEN p >= events[n].price
                                             ELSE p <= events[n].price
        BY <1>6, <1>7, <3>1 DEF Better, Sides
    <3> QED
        BY <1>3, <3>1, <3>2, <3>3, <3>4
  <2> HIDE DEF WalksAt
  <2>3. \A k \in 2 .. Len(events') : WalksAt(k)
      BY <1>4, <2>1, <2>2
  <2> QED
      BY <1>4, <2>3 DEF TradesWalkTheBook, WalksAt, Accepted
<1> QED
    BY <1>9, <1>10, <1>11, <1>12 DEF BatchInv

\* Every step of the book keeps it.
LEMMA NextBatchInv == IndInv /\ BatchInv /\ [Next]_vars => BatchInv'
<1> SUFFICES ASSUME IndInv, BatchInv, [Next]_vars PROVE BatchInv'
    OBVIOUS
<1> USE DEF Idle
<1>1. ASSUME NEW o \in Orders, PlaceRejected(o) PROVE BatchInv'
    BY <1>1, ShortBatch DEF PlaceRejected
<1>2. ASSUME NEW o \in Orders, PlaceAccepted(o) PROVE BatchInv'
  <2>1. /\ taker' = o /\ book' = book /\ events' = <<Accepted(o)>>
        /\ PlaceRejection(book, o) = "none"
      BY <1>2 DEF PlaceAccepted
  <2>2. /\ Len(events') = 1 /\ events'[1] = Accepted(o) /\ events' # <<>>
        /\ 2 .. Len(events') = {}
      BY <2>1
  <2>3. o.order_type = "post_only" =>
          \A q \in DOMAIN book.levels[Opposite(o.side)] : ~Crosses(o, q)
      BY <2>1, PostOnlyAccepted DEF IndInv, TypeOK
  <2> QED
      BY <2>1, <2>2, <2>3
         DEF BatchInv, BatchShape, BestTradedFirst, PostOnlyStandsBack,
             PostOnlyNeverTakes, TradesWalkTheBook, OppositeLevels
<1>3. ASSUME NEW p \in Prices, ExecuteAt(p) PROVE BatchInv'
    BY <1>3, TradeKeepsBatch
<1>4. ASSUME FinishPlace PROVE BatchInv'
  <2>1. /\ taker' = NoOrder /\ events' = events
        /\ book'.next_execution_id = book.next_execution_id
      BY <1>4 DEF FinishPlace, Rest, IndInv, TypeOK, IsBook
  <2> QED
      BY <2>1 DEF BatchInv, BatchShape, BestTradedFirst, PostOnlyStandsBack,
                  PostOnlyNeverTakes, TradesWalkTheBook, IsPlaceBatch
<1>5. ASSUME NEW id \in OrderIds, NEW account \in AccountIds,
             CancelRejected(id, account) \/ Cancel(id, account)
      PROVE  BatchInv'
  <2>1. \E e : events' = <<e>> /\ taker' = NoOrder
      BY <1>5 DEF CancelRejected, Cancel
  <2> QED
      BY <2>1, ShortBatch
<1>6. ASSUME UNCHANGED vars PROVE BatchInv'
    BY <1>6 DEF vars, BatchInv, BatchShape, BestTradedFirst, IsPlaceBatch,
                PostOnlyStandsBack, PostOnlyNeverTakes, TradesWalkTheBook,
                OppositeLevels
<1> QED
    BY <1>1, <1>2, <1>3, <1>4, <1>5, <1>6 DEF Next, Loop

\* So it holds of every behaviour of the book.
LEMMA BatchInvHolds == Spec => []BatchInv
    BY InitBatchInv, NextBatchInv, IndInvHolds, PTL DEF Spec

\* place_order reports no trade for a post-only order it accepts: the one test
\* made before the loops is enough for all of them.
THEOREM PostOnlyIsPassive == Spec => []PostOnlyNeverTakes
<1>1. BatchInv => PostOnlyNeverTakes
    BY DEF BatchInv
<1> QED
    BY <1>1, BatchInvHolds, PTL

\* The trades of a place_order call walk the opposite side from its best price
\* outward, stay within the limit and take consecutive execution ids.
THEOREM TradesStayInOrder == Spec => []TradesWalkTheBook
<1>1. BatchInv => TradesWalkTheBook
    BY DEF BatchInv
<1> QED
    BY <1>1, BatchInvHolds, PTL

----------------------------------------------------------------------------
(* Every step of OrderBook is a step of PriceTimePriority, or leaves what   *)
(* the book stands for alone.                                               *)

\* Candidates and AheadOf, read off the book.
LEMMA QueueOfBook ==
    /\ \A o : PriceTime!Candidates(o) = InReach(book, o)
    /\ \A o, i, j : PriceTime!AheadOf(o, i, j) <=> ServedBefore(book, o, i, j)
<1>1. \A o : PriceTime!Candidates(o) = InReach(book, o)
    BY DEF PriceTime!Candidates, PriceTime!Tradable, InReach
<1>2. \A o, i, j : PriceTime!AheadOf(o, i, j) <=> ServedBefore(book, o, i, j)
    BY DEF PriceTime!AheadOf, ServedBefore
<1> QED
    BY <1>1, <1>2

\* The book of the invariant is a sound one.
LEMMA SoundBooks == IndInv => IsSound(book)
    BY DEF IndInv, TypeOK, BookIndexConsistent, IsSound

\* place_order takes an order in.
LEMMA SubmitStep ==
    ASSUME IndInv, NEW o \in Orders, PlaceAccepted(o) PROVE PriceTime!Submit
<1>1. IsSound(book)
    BY SoundBooks
<1>2. /\ taker = NoOrder /\ taker' = o /\ remaining' = o.quantity
      /\ book' = book /\ PlaceRejection(book, o) = "none"
    BY DEF PlaceAccepted, Idle
<1>3. /\ o.order_id \notin DOMAIN RestingMap(book)
      /\ o.order_type = "post_only" => PriceTime!Candidates(o) = {}
    BY <1>1, <1>2, AcceptedEnters, QueueOfBook
<1>4. RestingMap(book)' = RestingMap(book) /\ ArrivalOrder(book)' = ArrivalOrder(book)
    BY <1>2
<1> QED
    BY <1>2, <1>3, <1>4 DEF PriceTime!Submit

\* An iteration of the matching loop trades with the first in the queue.
LEMMA TradeStep ==
    ASSUME IndInv, IndInv', NEW p \in Prices, ExecuteAt(p)
    PROVE  \E i \in DOMAIN RestingMap(book) : PriceTime!Trade(i)
<1>1. IsSound(book) /\ IsSound(book')
    BY DEF IndInv, TypeOK, BookIndexConsistent, IsSound
<1>2. /\ taker # NoOrder /\ taker \in Orders /\ remaining \in 0 .. MaxQuantity
      /\ Matchable(book, taker, remaining, p) /\ remaining > 0
      /\ book' = Execute(book, taker, remaining, p) /\ taker' = taker
      /\ remaining' = remaining - TradeOf(book, taker, remaining, p).quantity
    BY DEF ExecuteAt, IndInv, TypeOK, Idle, Matchable
<1>3. PICK i \in DOMAIN RestingMap(book) :
        /\ FirstInLine(book, taker, i)
        /\ TradedWith(book', book, i, remaining,
                      remaining - TradeOf(book, taker, remaining, p).quantity)
    BY <1>1, <1>2, ExecuteRefines
<1>4. TradedWith(book', book, i, remaining, remaining')
    BY <1>2, <1>3
<1>5. /\ i \in PriceTime!Candidates(taker)
      /\ \A j \in PriceTime!Candidates(taker) : ~PriceTime!AheadOf(taker, j, i)
    BY <1>3, QueueOfBook DEF FirstInLine
<1>6. Leaves(book', book, i) => PriceTime!Leave(i)
    BY DEF PriceTime!Leave, Leaves, Without
<1> QED
    BY <1>2, <1>4, <1>5, <1>6 DEF PriceTime!Trade, TradedWith

\* The loops have ended: nothing is left to trade, and a remainder that rests
\* does so behind everyone at its price.
LEMMA ConcludeStep ==
    ASSUME IndInv, IndInv', FinishPlace PROVE PriceTime!Conclude
<1>1. IsSound(book) /\ IsSound(book')
    BY DEF IndInv, TypeOK, BookIndexConsistent, IsSound
<1>2. /\ taker # NoOrder /\ taker \in Orders /\ remaining \in 0 .. MaxQuantity
      /\ \A p \in Prices : ~Matchable(book, taker, remaining, p)
      /\ book' = Rest(book, taker, remaining)
      /\ taker' = NoOrder /\ remaining' = 0
      /\ taker.order_id \notin DOMAIN book.order_locations
    BY DEF FinishPlace, IndInv, TypeOK, TakerNotResting, contains_order, Idle
<1>3. remaining = 0 \/ PriceTime!Candidates(taker) = {}
    BY <1>1, <1>2, LoopsEnd, QueueOfBook
<1>4. IF taker.order_type \in RestingTypes /\ remaining > 0
      THEN Joins(book', book, taker.side, taker.price, Remainder(taker, remaining))
      ELSE book' = book
    BY <1>1, <1>2, RestRefines
<1>5. CASE taker.order_type \in RestingTypes /\ remaining > 0
    BY <1>2, <1>3, <1>4, <1>5
       DEF PriceTime!Conclude, RestingTypes, Joins, Remainder, EntryOf
<1>6. CASE ~(taker.order_type \in RestingTypes /\ remaining > 0)
  <2>1. RestingMap(book)' = RestingMap(book) /\ ArrivalOrder(book)' = ArrivalOrder(book)
      BY <1>4, <1>6
  <2> QED
      BY <1>2, <1>3, <1>6, <2>1 DEF PriceTime!Conclude, RestingTypes
<1> QED
    BY <1>5, <1>6

\* A cancellation withdraws the order it names and moves nobody else.
LEMMA WithdrawStep ==
    ASSUME IndInv, IndInv', NEW id \in OrderIds, NEW account \in AccountIds,
           Cancel(id, account)
    PROVE  \E i \in DOMAIN RestingMap(book) : PriceTime!Withdraw(i)
<1>1. IsSound(book) /\ IsSound(book')
    BY DEF IndInv, TypeOK, BookIndexConsistent, IsSound
<1>2. /\ id \in DOMAIN book.order_locations /\ book' = CancelIn(book, id)
      /\ taker = NoOrder /\ taker' = taker /\ remaining' = remaining
    BY AcceptedMeans DEF Cancel, Idle
<1>3. id \in DOMAIN RestingMap(book) /\ Leaves(book', book, id)
    BY <1>1, <1>2, CancelRefines
<1> QED
    BY <1>2, <1>3 DEF PriceTime!Withdraw, PriceTime!Leave, Leaves, Without

\* An empty book maps to an initial state of PriceTimePriority.
LEMMA PriceTimeInit == Init => PriceTime!Init
    BY EmptyMaps DEF Init, PriceTime!Init

\* Every step of the book maps to a step of PriceTimePriority or to none.
LEMMA PriceTimeStep ==
    ASSUME IndInv, IndInv', [Next]_vars
    PROVE  [PriceTime!Next]_(PriceTime!vars)
<1>1. ASSUME NEW o \in Orders, PlaceAccepted(o) PROVE PriceTime!Next
    BY <1>1, SubmitStep DEF PriceTime!Next
<1>2. ASSUME NEW p \in Prices, ExecuteAt(p) PROVE PriceTime!Next
    BY <1>2, TradeStep DEF PriceTime!Next
<1>3. ASSUME FinishPlace PROVE PriceTime!Next
    BY <1>3, ConcludeStep DEF PriceTime!Next
<1>4. ASSUME NEW id \in OrderIds, NEW account \in AccountIds, Cancel(id, account)
      PROVE  PriceTime!Next
    BY <1>4, WithdrawStep DEF PriceTime!Next
<1>5. ASSUME UNCHANGED <<book, taker, remaining>> PROVE UNCHANGED PriceTime!vars
    BY <1>5 DEF PriceTime!vars
<1>6. ASSUME NEW o \in Orders, PlaceRejected(o) PROVE UNCHANGED PriceTime!vars
    BY <1>5, <1>6 DEF PlaceRejected
<1>7. ASSUME NEW id \in OrderIds, NEW account \in AccountIds,
             CancelRejected(id, account)
      PROVE  UNCHANGED PriceTime!vars
    BY <1>5, <1>7 DEF CancelRejected
<1>8. ASSUME UNCHANGED vars PROVE UNCHANGED PriceTime!vars
    BY <1>5, <1>8 DEF vars
<1> QED
    BY <1>1, <1>2, <1>3, <1>4, <1>6, <1>7, <1>8 DEF Next, Loop

\* The deques of the two price maps implement strict price-time priority: every
\* trade is with the order of the best price and earliest arrival, a partial
\* fill keeps its place and a cancellation moves nobody else.
THEOREM PriceTimeRefinement == Spec => ImplementsPriceTime
<1>1. Init => PriceTime!Init
    BY PriceTimeInit
<1>2. IndInv /\ IndInv' /\ [Next]_vars => [PriceTime!Next]_(PriceTime!vars)
    BY PriceTimeStep
<1> QED
    BY <1>1, <1>2, IndInvHolds, PTL DEF Spec, ImplementsPriceTime, PriceTime!Spec

----------------------------------------------------------------------------
(* Quantities.  What is left of the running order, what it has traded and   *)
(* what rests on the other side are related by the sums of BookProofs.      *)

\* The prices an order may trade at.
WithinLimit(o) == {p \in Prices : Crosses(o, p)}

\* What the levels within the limit of the running order hold.
Executable == QuantityAt(OppositeLevels, WithinLimit(taker))

\* A fill-or-kill order under way can still be filled by the book as it is.
FokCovered == (~Idle /\ taker.order_type = "fok") => Executable >= remaining

\* The preflight of a fill-or-kill order finds what the levels within its
\* limit hold.
LEMMA PreflightCounts ==
    ASSUME NEW b, IsBook(b), NEW o \in Orders, o.order_type = "fok",
           PlaceRejection(b, o) = "none"
    PROVE  QuantityAt(b.levels[Opposite(o.side)], WithinLimit(o)) >= o.quantity
<1> DEFINE lv == b.levels[Opposite(o.side)]
<1>1. can_fully_match(b, o)
    BY DEF PlaceRejection
<1>2. DOMAIN lv \subseteq Prices
    BY DEF IsBook, IsLevelMap, Opposite, Sides
<1>3. {p \in DOMAIN lv : Crosses(o, p)} = DOMAIN lv \cap WithinLimit(o)
    BY <1>2 DEF WithinLimit
<1> QED
    BY <1>1, <1>3 DEF can_fully_match, QuantityAt

\* An execution takes as much from the levels within the limit as from what
\* is left to fill, and the preflight covers the whole order.
LEMMA FokStep == IndInv /\ FokCovered /\ [Next]_vars => FokCovered'
<1> SUFFICES ASSUME IndInv, FokCovered, [Next]_vars PROVE FokCovered'
    OBVIOUS
<1>0. TypeOK /\ IsBook(book) /\ IsSound(book)
    BY SoundBooks DEF IndInv, TypeOK
<1>1. ASSUME NEW o \in Orders, PlaceAccepted(o) PROVE FokCovered'
  <2>1. /\ taker' = o /\ remaining' = o.quantity /\ book' = book
        /\ PlaceRejection(book, o) = "none"
      BY <1>1 DEF PlaceAccepted
  <2>2. o.order_type = "fok" =>
          QuantityAt(book.levels[Opposite(o.side)], WithinLimit(o)) >= o.quantity
      BY <1>0, <2>1, PreflightCounts
  <2> QED
      BY <2>1, <2>2 DEF FokCovered, Executable, OppositeLevels
<1>2. ASSUME NEW p \in Prices, ExecuteAt(p), taker.order_type = "fok"
      PROVE  FokCovered'
  <2> DEFINE s == Opposite(taker.side)
             C == WithinLimit(taker)
             t == TradeOf(book, taker, remaining, p)
             b2 == Execute(book, taker, remaining, p)
  <2>1. /\ taker \in Orders /\ remaining \in 0 .. MaxQuantity
        /\ Matchable(book, taker, remaining, p) /\ ~Idle
      BY <1>0, <1>2 DEF ExecuteAt, TypeOK, Idle
  <2>2. /\ book' = b2 /\ taker' = taker
        /\ remaining' = remaining - t.quantity
      BY <1>2 DEF ExecuteAt
  <2>3. p \in C
      BY <2>1 DEF WithinLimit, Matchable
  <2>4. QuantityAt(b2.levels[s], C) =
          QuantityAt(book.levels[s], C) - t.quantity
      BY <1>0, <2>1, <2>3, ExecuteTakes
  <2>5. t.quantity \in 1 .. remaining
      BY <1>0, <2>1, TradeFacts DEF IsSound
  <2>6. QuantityAt(book.levels[s], C) \in Nat
    <3>1. s \in Sides
        BY DEF Opposite, Sides
    <3> QED
        BY <1>0, <3>1, SideSum DEF IsBook
  <2>7. QuantityAt(book.levels[s], C) >= remaining
      BY <1>2, <2>1 DEF FokCovered, Executable, OppositeLevels
  <2>8. Executable' = QuantityAt(b2.levels[s], C)
      BY <2>2 DEF Executable, OppositeLevels
  <2> HIDE DEF s, C, t, b2
  <2>9. Executable' >= remaining'
      BY <2>1, <2>2, <2>4, <2>5, <2>6, <2>7, <2>8
  <2> QED
      BY <2>9 DEF FokCovered
<1>3. ASSUME NEW p \in Prices, ExecuteAt(p), taker.order_type # "fok"
      PROVE  FokCovered'
    BY <1>3 DEF ExecuteAt, FokCovered
<1>4. ASSUME taker' = NoOrder PROVE FokCovered'
    BY <1>4 DEF FokCovered, Idle
<1>5. ASSUME UNCHANGED vars PROVE FokCovered'
    BY <1>5 DEF vars, FokCovered, Executable, OppositeLevels, Idle
<1> QED
    BY <1>1, <1>2, <1>3, <1>4, <1>5
    DEF Next, Loop, PlaceRejected, FinishPlace, CancelRejected, Cancel, Idle

\* An accepted fill-or-kill order has nothing left when its loops end: the
\* preflight and the loops agree on what is executable.
THEOREM FokFillsOrKills == Spec => []FokAllOrNothing
<1>1. Init => FokCovered
    BY DEF Init, FokCovered, Idle
<1>2. IndInv /\ FokCovered => FokAllOrNothing
  <2> SUFFICES ASSUME IndInv, FokCovered, ~Idle, taker.order_type = "fok",
                      \A p \in Prices : ~Matchable(book, taker, remaining, p),
                      remaining # 0
               PROVE  FALSE
      BY DEF FokAllOrNothing
  <2>1. /\ IsBook(book) /\ taker \in Orders
        /\ remaining \in Nat \ {0}
      BY BookAssumption DEF IndInv, TypeOK, Idle
  <2>2. \A q \in DOMAIN OppositeLevels : ~Crosses(taker, q)
      BY <2>1, NothingMatchable DEF OppositeLevels
  <2>3. DOMAIN OppositeLevels \cap WithinLimit(taker) = {}
      BY <2>2 DEF WithinLimit
  <2>4. Executable = 0
      BY <2>3, SumEmpty DEF Executable, QuantityAt
  <2> QED
      BY <2>1, <2>4 DEF FokCovered
<1> QED
    BY <1>1, <1>2, FokStep, IndInvHolds, PTL DEF Spec

\* The quantities a batch reports, by position.
TradeQuantities(batch) == [k \in 2 .. Len(batch) |-> batch[k].quantity]

\* A batch whose quantities, after the first event, are numbers.
IsTradeBatch(batch) ==
    /\ batch \in Seq(Events) /\ batch # <<>>
    /\ \A k \in 2 .. Len(batch) : batch[k].quantity \in Int

\* What a batch traded is a number.
LEMMA TradedType ==
    ASSUME NEW batch, IsTradeBatch(batch)
    PROVE  Traded(batch) \in Int
<1> DEFINE f == TradeQuantities(batch)
           S == 2 .. Len(batch)
<1>1. IsFiniteSet(S)
  <2>1. Len(batch) \in Nat
      BY DEF IsTradeBatch
  <2> QED
      BY <2>1, FS_Interval
<1>2. \A k \in S : f[k] \in Int
    BY DEF TradeQuantities, IsTradeBatch
<1>3. Traded(batch) = SumFunctionOnSet(f, S)
    BY DEF Traded, SumFunction, TradeQuantities
<1> HIDE DEF f, S
<1> QED
    BY <1>1, <1>2, <1>3, SumType

\* One more trade adds its quantity to what a batch traded.
LEMMA TradedAppend ==
    ASSUME NEW batch, IsTradeBatch(batch), NEW e \in Events, e.quantity \in Int
    PROVE  /\ Traded(batch) \in Int
           /\ Traded(Append(batch, e)) = Traded(batch) + e.quantity
<1> DEFINE n    == Len(batch)
           next == Append(batch, e)
           f    == TradeQuantities(batch)
           g    == TradeQuantities(next)
           S    == 2 .. n
           T    == 2 .. n + 1
<1>1. /\ n \in Nat \ {0} /\ Len(next) = n + 1
      /\ \A k \in 1 .. n : next[k] = batch[k]
      /\ next[n + 1] = e
    BY DEF IsTradeBatch
<1> HIDE DEF next, n
<1>2. /\ T = S \cup {n + 1} /\ n + 1 \notin S /\ S \subseteq 1 .. n
    BY <1>1
<1>3. IsFiniteSet(S)
    BY <1>1, FS_Interval
<1>4. \A k \in S : f[k] = batch[k].quantity /\ f[k] \in Int
    BY DEF TradeQuantities, IsTradeBatch, n
<1>5. /\ \A k \in S : g[k] = f[k]
      /\ g[n + 1] = e.quantity
      /\ \A k \in S \cup {n + 1} : g[k] \in Int
    BY <1>1, <1>2, <1>4 DEF TradeQuantities
<1>6. /\ Traded(batch) = SumFunctionOnSet(f, S)
      /\ Traded(next) = SumFunctionOnSet(g, S \cup {n + 1})
    BY <1>1, <1>2 DEF Traded, SumFunction, TradeQuantities, n
<1> HIDE DEF f, g, S, T
<1>7. SumFunctionOnSet(g, S) = SumFunctionOnSet(f, S)
    BY <1>3, <1>5, SumAgree
<1>8. SumFunctionOnSet(g, S \cup {n + 1}) = SumFunctionOnSet(g, S) + g[n + 1]
    BY <1>2, <1>3, <1>5, SumAdd
<1>9. SumFunctionOnSet(f, S) \in Int
    BY <1>3, <1>4, SumType
<1> QED
    BY <1>5, <1>6, <1>7, <1>8, <1>9 DEF next

\* A batch that only accepts has traded nothing.
LEMMA TradedNothing == \A e : Traded(<<e>>) = 0
<1> SUFFICES ASSUME NEW e PROVE Traded(<<e>>) = 0
    OBVIOUS
<1> DEFINE f == TradeQuantities(<<e>>)
<1>1. DOMAIN f = {}
    BY DEF TradeQuantities
<1>2. Traded(<<e>>) = SumFunctionOnSet(f, DOMAIN f)
    BY DEF Traded, SumFunction, TradeQuantities
<1> HIDE DEF f
<1> QED
    BY <1>1, <1>2, SumEmpty

\* What was ordered is what the batch traded plus what remains.
Accounted == ~Idle => taker.quantity = remaining + Traded(events)

\* The batch of a running call holds the acceptance and trades.
LEMMA RunningBatch ==
    ASSUME IndInv, BatchInv, ~Idle PROVE IsTradeBatch(events)
<1>1. /\ events \in Seq(Events) /\ events # <<>> /\ IsPlaceBatch
    BY DEF IndInv, TypeOK, BatchInv, BatchShape, IsPlaceBatch, Accepted
<1>2. \A k \in 2 .. Len(events) : events[k] \in TradeEvents
    BY <1>1 DEF BatchInv, BatchShape
<1>3. \A k \in 2 .. Len(events) : events[k].quantity \in Int
    BY <1>2, BookAssumption DEF TradeEvents, Quantities
<1> QED
    BY <1>1, <1>3 DEF IsTradeBatch

\* Every level counts towards the quantity of its side.
LEMMA SideTotal ==
    ASSUME NEW lv, IsLevelMap(lv)
    PROVE  /\ SideQuantity(lv) = QuantityAt(lv, Prices)
           /\ SideQuantity(lv) \in Int
<1>1. DOMAIN lv \cap Prices = DOMAIN lv /\ DOMAIN LevelQuantities(lv) = DOMAIN lv
    BY DEF IsLevelMap, LevelQuantities
<1>2. QuantityAt(lv, Prices) \in Nat
    BY SideSum
<1> QED
    BY <1>1, <1>2 DEF SideQuantity, SumFunction, QuantityAt

\* What an execution does to the three quantities.
LEMMA ExecuteMoves ==
    ASSUME IndInv, BatchInv, NEW p \in Prices, ExecuteAt(p)
    PROVE  LET s == Opposite(taker.side)
               t == TradeOf(book, taker, remaining, p).quantity
           IN  /\ t \in Int /\ remaining \in Int
               /\ remaining' = remaining - t
               /\ Traded(events) \in Int
               /\ Traded(events') = Traded(events) + t
               /\ SideQuantity(book.levels[s]) \in Int
               /\ SideQuantity(book'.levels[s]) = SideQuantity(book.levels[s]) - t
<1> DEFINE s  == Opposite(taker.side)
           e  == TradeOf(book, taker, remaining, p)
           b2 == Execute(book, taker, remaining, p)
<1>0. TypeOK /\ IsBook(book) /\ IsSound(book)
    BY SoundBooks DEF IndInv, TypeOK
<1>1. /\ taker \in Orders /\ remaining \in 0 .. MaxQuantity
      /\ Matchable(book, taker, remaining, p) /\ ~Idle
    BY <1>0 DEF ExecuteAt, TypeOK, Idle
<1>2. /\ book' = b2 /\ remaining' = remaining - e.quantity
      /\ events' = Append(events, e)
    BY DEF ExecuteAt
<1>3. /\ e \in TradeEvents /\ e.quantity \in 1 .. remaining
    BY <1>0, <1>1, TradeFacts DEF IsSound
<1>4. e \in Events /\ e.quantity \in Int /\ remaining \in Int
    BY <1>1, <1>3 DEF Events
<1>5. IsTradeBatch(events)
    BY <1>1, RunningBatch
<1>6. s \in Sides /\ p \in DOMAIN book.levels[s]
    BY <1>1 DEF Matchable, IsBest, Opposite, Sides
<1>7. \A lv : IsLevelMap(lv) =>
        SideQuantity(lv) = QuantityAt(lv, Prices) /\ SideQuantity(lv) \in Int
    BY SideTotal
<1>8. QuantityAt(b2.levels[s], Prices) =
        QuantityAt(book.levels[s], Prices) - e.quantity
    BY <1>0, <1>1, ExecuteTakes
<1>9. IsLevelMap(book.levels[s]) /\ IsLevelMap(b2.levels[s])
  <2>1. IsBook(b2)
      BY <1>0, <1>1, ExecuteKeepsBook DEF IndInv, BookIndexConsistent, BookUncrossed
  <2> HIDE DEF b2
  <2> QED
      BY <1>0, <1>6, <2>1 DEF IsBook
<1> HIDE DEF s, e, b2
<1>10. /\ SideQuantity(book.levels[s]) \in Int
       /\ SideQuantity(b2.levels[s]) = SideQuantity(book.levels[s]) - e.quantity
    BY <1>7, <1>8, <1>9
<1>11. /\ Traded(events) \in Int
       /\ Traded(events') = Traded(events) + e.quantity
    BY <1>2, <1>4, <1>5, TradedAppend
<1> QED
    BY <1>2, <1>4, <1>10, <1>11 DEF s, e, b2

\* A trade moves the same quantity from the remainder to the batch.
LEMMA AccountedStep ==
    IndInv /\ BatchInv /\ Accounted /\ [Next]_vars => Accounted'
<1> SUFFICES ASSUME IndInv, BatchInv, Accounted, [Next]_vars PROVE Accounted'
    OBVIOUS
<1>1. ASSUME NEW o \in Orders, PlaceAccepted(o) PROVE Accounted'
  <2>1. /\ taker' = o /\ remaining' = o.quantity /\ Traded(events') = 0
      BY <1>1, TradedNothing DEF PlaceAccepted
  <2>2. o.quantity \in Int
      BY BookAssumption DEF Orders, Quantities
  <2> QED
      BY <2>1, <2>2 DEF Accounted
<1>2. ASSUME NEW p \in Prices, ExecuteAt(p) PROVE Accounted'
  <2> DEFINE t == TradeOf(book, taker, remaining, p).quantity
  <2>1. /\ t \in Int /\ remaining \in Int
        /\ remaining' = remaining - t
        /\ Traded(events) \in Int
        /\ Traded(events') = Traded(events) + t
      BY <1>2, ExecuteMoves
  <2>2. ~Idle /\ taker' = taker
      BY <1>2 DEF ExecuteAt
  <2> HIDE DEF t
  <2>3. remaining' + Traded(events') = remaining + Traded(events)
      BY <2>1
  <2> QED
      BY <2>2, <2>3 DEF Accounted
<1>3. ASSUME taker' = NoOrder PROVE Accounted'
    BY <1>3 DEF Accounted, Idle
<1>4. ASSUME UNCHANGED vars PROVE Accounted'
    BY <1>4 DEF vars, Accounted, Idle
<1> QED
    BY <1>1, <1>2, <1>3, <1>4
    DEF Next, Loop, PlaceRejected, FinishPlace, CancelRejected, Cancel, Idle

\* The remainder rests on the order's own side.
LEMMA RestLeavesOpposite ==
    ASSUME NEW b, IsBook(b), NEW o \in Orders, NEW left
    PROVE  Rest(b, o, left).levels[Opposite(o.side)] = b.levels[Opposite(o.side)]
    BY DEF Rest, IsBook, Opposite, Sides, Orders

\* Matching neither creates nor loses quantity: what was ordered is traded or
\* remains, and what a step adds to the batch it takes from the other side.
THEOREM QuantityStaysConserved == Spec => QuantityConserved
<1> DEFINE s == Opposite(taker.side)
           Step ==
             ~Idle =>
               /\ taker.quantity = remaining + Traded(events)
               /\ SideQuantity(book.levels[s]) - SideQuantity(book'.levels[s])
                    = Traded(events') - Traded(events)
<1>1. Init => Accounted
    BY DEF Init, Accounted, Idle
<1>2. IndInv /\ BatchInv /\ Accounted /\ Next => Step
  <2> SUFFICES ASSUME IndInv, BatchInv, Accounted, Next, ~Idle PROVE Step
      OBVIOUS
  <2>1. ASSUME NEW p \in Prices, ExecuteAt(p) PROVE Step
    <3> DEFINE t  == TradeOf(book, taker, remaining, p).quantity
               d1 == SideQuantity(book.levels[s])
               d2 == SideQuantity(book'.levels[s])
               e1 == Traded(events)
               e2 == Traded(events')
    <3>1. /\ t \in Int /\ e1 \in Int /\ e2 = e1 + t
          /\ d1 \in Int /\ d2 = d1 - t
        BY <2>1, ExecuteMoves
    <3> HIDE DEF t, d1, d2, e1, e2
    <3>2. d1 - d2 = e2 - e1
        BY <3>1
    <3> QED
        BY <3>2 DEF Accounted, d1, d2, e1, e2
  <2>2. ASSUME FinishPlace PROVE Step
    <3>1. IsBook(book) /\ taker \in Orders
        BY DEF IndInv, TypeOK, Idle
    <3>2. /\ book'.levels[s] = book.levels[s] /\ events' = events
        BY <2>2, <3>1, RestLeavesOpposite DEF FinishPlace
    <3>3. SideQuantity(book.levels[s]) \in Int /\ Traded(events) \in Int
      <4>1. IsLevelMap(book.levels[s])
          BY <3>1 DEF IsBook, Opposite, Sides
      <4>2. IsTradeBatch(events)
          BY RunningBatch
      <4> QED
          BY <4>1, <4>2, SideTotal, TradedType
    <3> QED
        BY <3>2, <3>3 DEF Accounted
  <2> QED
      BY <2>1, <2>2
      DEF Next, Loop, PlaceRejected, PlaceAccepted, CancelRejected, Cancel
<1>3. QuantityConserved <=> [][Step]_vars
    BY DEF QuantityConserved
<1>4. IndInv /\ BatchInv /\ Accounted /\ [Next]_vars => [Step]_vars
    BY <1>2
<1> HIDE DEF Step
<1> QED
    BY <1>1, <1>3, <1>4, AccountedStep, IndInvHolds, BatchInvHolds, PTL DEF Spec

----------------------------------------------------------------------------
(* Progress.  That a call returns needs fairness; that it cannot run for    *)
(* longer than its quantity allows does not.                                *)

\* A step of a running call returns, or it trades at least one unit of what is
\* left of its order and never more than that.
LoopConsumes ==
    ~Idle => \/ Idle'
             \/ /\ taker' = taker
                /\ remaining' \in Nat
                /\ remaining' < remaining

\* The matching loops of place_order have a variant: remaining_quantity falls
\* with every iteration and never below zero, so a call makes at most as many
\* trades as its order has units, whatever rests in the book.
THEOREM LoopVariant == Spec => [][LoopConsumes]_vars
<1>1. IndInv /\ Next => LoopConsumes
  <2> SUFFICES ASSUME IndInv, Next, ~Idle PROVE LoopConsumes
      BY DEF LoopConsumes
  <2>1. TypeOK /\ IsBook(book) /\ IsSound(book)
      BY SoundBooks DEF IndInv, TypeOK
  <2>2. ASSUME NEW p \in Prices, ExecuteAt(p) PROVE LoopConsumes
    <3> DEFINE q == TradeOf(book, taker, remaining, p).quantity
    <3>1. /\ taker \in Orders /\ remaining \in 0 .. MaxQuantity
          /\ Matchable(book, taker, remaining, p)
        BY <2>1, <2>2 DEF ExecuteAt, TypeOK, Idle
    <3>2. q \in 1 .. remaining
        BY <2>1, <3>1, TradeFacts DEF IsSound
    <3>3. remaining' = remaining - q /\ taker' = taker
        BY <2>2 DEF ExecuteAt
    <3>4. remaining \in Nat
        BY <3>1, BookAssumption
    <3> HIDE DEF q
    <3>5. remaining' \in Nat /\ remaining' < remaining
        BY <3>2, <3>3, <3>4
    <3> QED
        BY <3>3, <3>5 DEF LoopConsumes
  <2>3. ASSUME FinishPlace PROVE LoopConsumes
      BY <2>3 DEF FinishPlace, LoopConsumes, Idle
  <2> QED
      BY <2>2, <2>3
      DEF Next, Loop, PlaceRejected, PlaceAccepted, CancelRejected, Cancel
<1>2. IndInv /\ [Next]_vars => [LoopConsumes]_vars
    BY <1>1
<1> HIDE DEF LoopConsumes
<1> QED
    BY <1>2, IndInvHolds, PTL DEF Spec

=============================================================================
