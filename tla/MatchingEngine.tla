--------------------------- MODULE MatchingEngine ---------------------------
(***************************************************************************)
(* engine::MatchingEngine: one OrderBook per registered instrument, the    *)
(* pre-trade checks, the account reservations and the event sink, composed *)
(* the way place_order and cancel_order call them.  A call goes through    *)
(*                                                                         *)
(*   checks and reserve -> matching -> applying -> publishing              *)
(*                                                                         *)
(* with one execution, and one applied event, per step.  The engine is     *)
(* single-threaded; the sink may call back into it, but only from publish, *)
(* after which place_order and cancel_order touch nothing, so a nested     *)
(* call is a call made right after the outer one.                          *)
(***************************************************************************)
EXTENDS AccountRisk

CONSTANTS
    NoCall,             \* no call is running
    MaxExecutionId,     \* bound: a book accepts no order once it is exceeded
    MaxOpenOrders       \* bound: no order is accepted while so many are open

\* The locals of place_order and cancel_order that outlive the call of the book.
Calls == [instrument_id: Instruments, request: Requests,
          reservation_created: BOOLEAN]

ASSUME EngineAssumption ==
    /\ {MaxExecutionId, MaxOpenOrders} \subseteq Nat
    /\ NoCall \notin Calls \cup Requests

VARIABLES
    order_books,    \* order_books and instruments: registered id -> book
    risk,           \* account_risk_manager
    phase,          \* where the running call is
    call,           \* the running call: instrument, request, and whether it
                    \* made a reservation
    remaining,      \* remaining_quantity inside OrderBook::place_order
    events,         \* the batch of the running call
    applied         \* how many events account_risk_manager.apply has seen

vars == <<order_books, risk, phase, call, remaining, events, applied>>

Phases == {"idle", "matching", "applying", "publishing"}

Init ==
    /\ order_books = [i \in {} |-> EmptyBook]
    /\ risk = NewRisk
    /\ phase = "idle"
    /\ call = NoCall
    /\ remaining = 0
    /\ events = <<>>
    /\ applied = 0

\* The open orders of the books, keyed as AccountRiskManager keys them.
OpenOrders ==
    UNION {{<<i, id>> : id \in DOMAIN order_books[i].order_locations} :
            i \in DOMAIN order_books}

----------------------------------------------------------------------------
(* register_instrument                                                      *)

\* InstrumentRegistry::add refuses an id it holds; an instrument without id or
\* symbol, or one that accepts no orders, is refused before that and changes
\* nothing either.
register_instrument(i) ==
    /\ phase = "idle"
    /\ i \notin DOMAIN order_books
    /\ order_books' = [j \in DOMAIN order_books \cup {i} |->
                        IF j = i THEN EmptyBook ELSE order_books[j]]
    /\ UNCHANGED <<risk, phase, call, remaining, events, applied>>

----------------------------------------------------------------------------
(* place_order                                                              *)

IsDuplicate(i, r) == contains_order(order_books[i], r.order_id)

ValidRequest(r) ==
    /\ IF r.order_type = "market" THEN r.price = 0 ELSE r.price > 0
    /\ r.quantity > 0

\* What the checks in front of the book may answer.
Rejections(i, r) ==
    IF i \notin DOMAIN order_books THEN {"unknown_instrument"}
    ELSE IF ~ValidRequest(r) THEN {"invalid_order"}
    ELSE IF RiskRejection(r) # "none" THEN {RiskRejection(r)}
    ELSE IF IsDuplicate(i, r) THEN {"none"}
    ELSE AccountRejections(risk, i, r)

\* Refused by the checks: nothing is reserved and nothing is applied.
PlaceRefused(i, r) ==
    /\ phase = "idle"
    /\ \E reason \in Rejections(i, r) \ {"none"} :
          events' = <<Rejected(r.order_id, reason)>>
    /\ phase' = "publishing"
    /\ UNCHANGED <<order_books, risk, call, remaining, applied>>

\* The request passes the checks and is reserved for, unless its id rests.
Admitted(i, r) ==
    /\ phase = "idle"
    /\ "none" \in Rejections(i, r)
    /\ risk' = IF IsDuplicate(i, r) THEN risk ELSE reserve(risk, i, r)
    /\ call' = [instrument_id |-> i, request |-> r,
                reservation_created |-> ~IsDuplicate(i, r)]

PlaceRejectedByBook(i, r) ==
    /\ Admitted(i, r)
    /\ PlaceRejection(order_books[i], r) # "none"
    /\ events' = <<Rejected(r.order_id, PlaceRejection(order_books[i], r))>>
    /\ phase' = "applying"
    /\ UNCHANGED <<order_books, remaining, applied>>

PlaceAccepted(i, r) ==
    /\ Admitted(i, r)
    /\ order_books[i].next_execution_id <= MaxExecutionId
    /\ Cardinality(OpenOrders) < MaxOpenOrders
    /\ PlaceRejection(order_books[i], r) = "none"
    /\ events' = <<Accepted(r)>>
    /\ remaining' = r.quantity
    /\ phase' = "matching"
    /\ UNCHANGED <<order_books, applied>>

MatchAt(p) ==
    /\ phase = "matching"
    /\ LET i     == call.instrument_id
           o     == call.request
           trade == TradeOf(order_books[i], o, remaining, p)
       IN  /\ Matchable(order_books[i], o, remaining, p)
           /\ order_books' = [order_books EXCEPT ![i] = Execute(@, o, remaining, p)]
           /\ remaining' = remaining - trade.quantity
           /\ events' = Append(events, trade)
    /\ UNCHANGED <<risk, phase, call, applied>>

\* Mutant of FinishMatching: the loop waits for the book to fill the order.
FinishMatching_Spins ==
    /\ phase = "matching"
    /\ LET i == call.instrument_id
           o == call.request
       IN  /\ \A p \in Prices : ~Matchable(order_books[i], o, remaining, p)
           /\ IF remaining > 0
              THEN UNCHANGED <<order_books, phase, remaining>>
              ELSE /\ order_books' = [order_books EXCEPT ![i] = Rest(@, o, remaining)]
                   /\ phase' = "applying"
                   /\ remaining' = 0
    /\ UNCHANGED <<risk, call, events, applied>>

FinishMatching ==
    /\ phase = "matching"
    /\ LET i == call.instrument_id
           o == call.request
       IN  /\ \A p \in Prices : ~Matchable(order_books[i], o, remaining, p)
           /\ order_books' = [order_books EXCEPT ![i] = Rest(@, o, remaining)]
    /\ remaining' = 0
    /\ phase' = "applying"
    /\ UNCHANGED <<risk, call, events, applied>>

----------------------------------------------------------------------------
(* cancel_order                                                             *)

CancelUnknownInstrument(i, id) ==
    /\ phase = "idle"
    /\ i \notin DOMAIN order_books
    /\ events' = <<Rejected(id, "unknown_instrument")>>
    /\ phase' = "publishing"
    /\ UNCHANGED <<order_books, risk, call, remaining, applied>>

\* account_context, the request cancel_order makes up for apply.
AccountContext(id, account) ==
    [order_id |-> id, side |-> "buy", price |-> 0, quantity |-> 0,
     order_type |-> "limit", account_id |-> account]

Cancel(i, id, account) ==
    /\ phase = "idle"
    /\ i \in DOMAIN order_books
    /\ LET b == order_books[i]
           rejection == CancelRejection(b, id, account)
       IN  \/ /\ rejection # "none"
              /\ events' = <<Rejected(id, rejection)>>
              /\ UNCHANGED order_books
           \/ /\ rejection = "none"
              /\ \E e \in CancelReports(b, id, account) : events' = <<e>>
              /\ order_books' = [order_books EXCEPT ![i] = CancelIn(@, id)]
    /\ call' = [instrument_id |-> i, request |-> AccountContext(id, account),
                reservation_created |-> FALSE]
    /\ phase' = "applying"
    /\ UNCHANGED <<risk, remaining, applied>>

----------------------------------------------------------------------------
(* account_risk_manager.apply and publish                                   *)

ApplyNext ==
    /\ phase = "applying"
    /\ applied < Len(events)
    /\ risk' = ApplyEvent(risk, call.instrument_id, call.request,
                          events[applied + 1], call.reservation_created)
    /\ applied' = applied + 1
    /\ UNCHANGED <<order_books, phase, call, remaining, events>>

FinishApply ==
    /\ phase = "applying"
    /\ applied = Len(events)
    /\ risk' = ApplyEnd(risk, call.instrument_id, call.request,
                        call.reservation_created)
    /\ phase' = "publishing"
    /\ UNCHANGED <<order_books, call, remaining, events, applied>>

\* The sink has been handed the batch and the call returns it.
Publish ==
    /\ phase = "publishing"
    /\ phase' = "idle"
    /\ call' = NoCall
    /\ events' = <<>>
    /\ applied' = 0
    /\ UNCHANGED <<order_books, risk, remaining>>

----------------------------------------------------------------------------

CallSteps ==
    \/ \E p \in Prices : MatchAt(p)
    \/ FinishMatching
    \/ ApplyNext
    \/ FinishApply
    \/ Publish

Next ==
    \/ \E i \in Instruments :
        \/ register_instrument(i)
        \/ \E r \in Requests :
              PlaceRefused(i, r) \/ PlaceRejectedByBook(i, r) \/ PlaceAccepted(i, r)
        \/ \E id \in OrderIds :
              \/ CancelUnknownInstrument(i, id)
              \/ \E account \in AccountIds : Cancel(i, id, account)
    \/ CallSteps

Spec == Init /\ [][Next]_vars

\* A call that has started runs to its end; nobody has to make another one.
FairSpec == Spec /\ WF_vars(CallSteps)

----------------------------------------------------------------------------
(* Properties                                                               *)

RejectReasons == BookRejectReasons \cup
    {"unknown_instrument", "invalid_order", "risk_quantity_limit",
     "risk_notional_limit", "risk_fat_finger_limit", "risk_position_limit",
     "risk_open_order_limit", "risk_credit_limit"}

Events ==
    [kind: {"accepted"}, order: Orders]
    \cup [kind: {"rejected"}, order_id: OrderIds, reason: RejectReasons]
    \cup TradeEvents
    \cup CanceledEvents

\* Type correctness of the members of MatchingEngine::Impl and of the locals of
\* the running call; only an order the checks let through is ever matched.
TypeOK ==
    /\ DOMAIN order_books \subseteq Instruments
    /\ \A i \in DOMAIN order_books : IsBook(order_books[i])
    /\ IsRisk(risk)
    /\ phase \in Phases
    /\ call \in Calls \cup {NoCall}
    /\ phase = "matching" => call # NoCall /\ call.request \in Orders
    /\ remaining \in 0 .. MaxQuantity
    /\ events \in Seq(Events)
    /\ applied \in 0 .. Len(events)

\* The state a client or the sink may look at.
Visible == phase \in {"idle", "publishing"}

\* What the reservation of an open order has to say.
OpenEntry(key) ==
    LET e == RestingEntry(order_books[key[1]], key[2])
    IN  [account_id |-> e.account_id, side |-> e.side,
         remaining_quantity |-> e.remaining_quantity]

\* Whenever the engine can be observed the reservations are the open orders of
\* the books, order by order and unit by unit: no rejection, fill, IOC
\* remainder or cancellation leaves a reservation behind or loses one.
ReservationsMatchBooks ==
    Visible =>
        /\ DOMAIN risk.reservations = OpenOrders
        /\ \A key \in OpenOrders :
              LET res == risk.reservations[key]
              IN  [account_id |-> res.account_id, side |-> res.side,
                   remaining_quantity |-> res.remaining_quantity] = OpenEntry(key)

KeysOf(a, i) == {key \in DOMAIN risk.reservations :
                    key[1] = i /\ risk.reservations[key].account_id = a}

\* At every moment the reserved totals of an account are the sums over its
\* reservations: the rounding of proportional_release never loses a unit of
\* margin and no unsigned subtraction of release wraps.
TotalsAreSums ==
    \A a \in AccountIds, i \in Instruments :
        LET state  == risk.account_states[<<a, i>>]
            margin == [key \in KeysOf(a, i) |-> risk.reservations[key].reserved_margin]
            quantity(side) ==
                SumFunctionOnSet(
                    [key \in KeysOf(a, i) |-> risk.reservations[key].remaining_quantity],
                    {key \in KeysOf(a, i) : risk.reservations[key].side = side})
        IN  /\ state.buy_reserved_quantity = quantity("buy")
            /\ state.sell_reserved_quantity = quantity("sell")
            /\ state.open_order_quantity = quantity("buy") + quantity("sell")
            /\ state.reserved_margin = SumFunction(margin)

\* Every unit one account buys another sells: apply moves the position of both
\* sides of every trade, although it finds the resting side only through its
\* reservation.
PositionsSumToZero ==
    \A i \in Instruments :
        SumFunction([a \in AccountIds |-> risk.account_states[<<a, i>>].position]) = 0

\* An account that had all its open buy orders (or all its open sell orders)
\* filled would stay within maximum_position_quantity, whatever was accepted,
\* filled or canceled since evaluate looked at them.
PositionLimitHolds ==
    \A a \in AccountIds, i \in Instruments :
        LET state == risk.account_states[<<a, i>>]
        IN  /\ state.position + state.buy_reserved_quantity
                 <= maximum_position_quantity
            /\ state.position - state.sell_reserved_quantity
                 >= -maximum_position_quantity

\* The open-order and credit limits hold of every account in each instrument at
\* every moment, inside a call too.
ReservationLimitsHold ==
    \A a \in AccountIds, i \in Instruments :
        LET state == risk.account_states[<<a, i>>]
        IN  /\ state.open_order_quantity <= maximum_open_order_quantity
            /\ state.reserved_margin <= maximum_account_credit

\* The credit limit holds of an account: what account_reserved_margin reports
\* never exceeds maximum_account_credit.
AccountCreditLimitHolds ==
    \A a \in AccountIds : reserved_margin(risk, a) <= maximum_account_credit

\* The book of instrument i, empty before it is registered, the order that is
\* being matched against it, and what is left of that order.
BookOf(i) == IF i \in DOMAIN order_books THEN order_books[i] ELSE EmptyBook

MatchingIn(i) == phase = "matching" /\ call.instrument_id = i

TakerOf(i) == IF MatchingIn(i) THEN call.request ELSE NoCall

LeftOf(i) == IF MatchingIn(i) THEN remaining ELSE 0

PriceTime(i) ==
    INSTANCE PriceTimePriority
    WITH NoOrder   <- NoCall,
         resting   <- RestingMap(BookOf(i)),
         earlier   <- ArrivalOrder(BookOf(i)),
         taker     <- TakerOf(i),
         remaining <- LeftOf(i)

\* Behind the checks, the reservations and the calls for other instruments, each
\* book keeps price-time priority: an order enters, trades and rests in the
\* book of its own instrument only, refused ones and the books of others leave
\* no trace in it.  This is PriceTime(i)!Spec of every i, in the form TLC checks.
BooksImplementPriceTime ==
    /\ \A i \in Instruments : PriceTime(i)!Init
    /\ [][\A i \in Instruments : [PriceTime(i)!Next]_(PriceTime(i)!vars)]_vars

\* Every call of place_order and cancel_order returns.
CallsReturn == phase # "idle" ~> phase = "idle"
=============================================================================
