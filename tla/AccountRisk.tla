---------------------------- MODULE AccountRisk ----------------------------
(***************************************************************************)
(* risk::RiskManager and risk::AccountRiskManager: the stateless pre-trade *)
(* limits, and the account limits with the reservations they are checked   *)
(* against.  The state of AccountRiskManager is a record                   *)
(*                                                                         *)
(*   account_states   account_states_: per account and instrument the      *)
(*                    signed position and the reserved totals; an account  *)
(*                    the map does not hold reads as all zeros             *)
(*   reservations     reservations_: (instrument, order id) -> what is     *)
(*                    reserved for that order                              *)
(*                                                                         *)
(* Prices and quantities keep the width of std::int64_t / std::uint64_t:   *)
(* IntMax stands for the largest signed value, UMax for the largest        *)
(* unsigned one.  Unsigned arithmetic wraps.  Signed arithmetic beyond the *)
(* width is undefined behaviour.                                           *)
(***************************************************************************)
EXTENDS Book

CONSTANTS
    Instruments,                    \* domain::InstrumentId values
    IntMax,                         \* std::numeric_limits<std::int64_t>::max()
    maximum_order_price,            \* the fields of EngineConfig
    maximum_order_quantity,
    maximum_order_notional,
    maximum_position_quantity,
    maximum_open_order_quantity,
    maximum_account_credit,
    initial_margin_basis_points

UMax == 2 * IntMax + 1

ASSUME RiskAssumption ==
    /\ IntMax \in Nat \ {0}
    /\ MaxPrice <= IntMax
    /\ MaxQuantity <= UMax
    /\ maximum_order_price \in 0 .. IntMax
    /\ {maximum_order_quantity, maximum_order_notional,
        maximum_position_quantity, maximum_open_order_quantity,
        maximum_account_credit, initial_margin_basis_points} \subseteq 0 .. UMax

Unsigned(x) == x % (UMax + 1)

\* What the hardware leaves in a signed register.
Signed(x) == ((x + IntMax + 1) % (UMax + 1)) - IntMax - 1

\* The values a signed expression may have in a build: its exact value when it
\* fits; otherwise the wrapped one, or the exact one where the compiler
\* rearranged the comparison it feeds.
SignedOutcomes(x) ==
    IF x \in (-IntMax - 1) .. IntMax THEN {x} ELSE {Signed(x), x}

\* What MatchingEngine::place_order may be handed; price 0 stands for every
\* price that is not positive.
Requests == [order_id: OrderIds, side: Sides, price: 0 .. MaxPrice,
             quantity: 0 .. MaxQuantity, order_type: OrderTypes,
             account_id: AccountIds]

AccountStates == [position: (-IntMax - 1) .. IntMax,
                  open_order_quantity: 0 .. UMax,
                  buy_reserved_quantity: 0 .. UMax,
                  sell_reserved_quantity: 0 .. UMax,
                  reserved_margin: 0 .. UMax]

Reservations == [account_id: AccountIds, side: Sides,
                 remaining_quantity: Quantities, reserved_margin: 0 .. UMax]

OrderKeys == Instruments \X OrderIds

\* The type of the state.
IsRisk(rs) ==
    /\ rs = [account_states |-> rs.account_states,
             reservations |-> rs.reservations]
    /\ rs.account_states \in [AccountIds \X Instruments -> AccountStates]
    /\ DOMAIN rs.reservations \subseteq OrderKeys
    /\ rs.reservations \in [DOMAIN rs.reservations -> Reservations]

NewRisk ==
    [account_states |->
        [ai \in AccountIds \X Instruments |->
            [position |-> 0, open_order_quantity |-> 0,
             buy_reserved_quantity |-> 0, sell_reserved_quantity |-> 0,
             reserved_margin |-> 0]],
     reservations |-> [k \in {} |-> <<>>]]

----------------------------------------------------------------------------
(* Integer helpers                                                          *)

saturated_multiply(left, right) ==
    IF left = 0 \/ right = 0 THEN 0
    ELSE IF left > UMax \div right THEN UMax ELSE left * right

\* The share of a reservation that a partial fill sets free.
proportional_release(reserved, released, remaining) ==
    Unsigned(saturated_multiply(reserved \div remaining, released)
             + saturated_multiply(reserved % remaining, released) \div remaining)

basis_points_scale == 10000

margin_for(r) ==
    LET notional == IF r.order_type = "market"
                    THEN maximum_order_notional
                    ELSE saturated_multiply(r.price, r.quantity)
    IN  saturated_multiply(notional, initial_margin_basis_points)
            \div basis_points_scale

----------------------------------------------------------------------------
(* RiskManager::evaluate                                                    *)

RiskRejection(r) ==
    CASE r.quantity > maximum_order_quantity -> "risk_quantity_limit"
      [] /\ r.quantity <= maximum_order_quantity
         /\ r.order_type # "market"
         /\ r.price > maximum_order_price -> "risk_fat_finger_limit"
      [] /\ r.quantity <= maximum_order_quantity
         /\ r.order_type # "market"
         /\ r.price <= maximum_order_price
         /\ r.quantity > maximum_order_notional \div r.price
         -> "risk_notional_limit"
      [] OTHER -> "none"

----------------------------------------------------------------------------
(* AccountRiskManager::evaluate                                             *)

OpenOrderLimitExceeded(state, r) ==
    \/ r.quantity > maximum_open_order_quantity
    \/ state.open_order_quantity > maximum_open_order_quantity - r.quantity

\* The largest position either way: the configured quantity, cut to the width.
configured_position_limit ==
    IF maximum_position_quantity > IntMax THEN IntMax
    ELSE maximum_position_quantity

\* Mutant of PositionLimitExceeded: open orders do not count.
PositionLimitExceeded_NoReserved(state, r) ==
    LET buying  == IF r.side = "buy"  THEN r.quantity ELSE 0
        selling == IF r.side = "sell" THEN r.quantity ELSE 0
    IN  {\/ buy > configured_position_limit
         \/ sell < -configured_position_limit :
            buy \in SignedOutcomes(state.position + buying),
            sell \in SignedOutcomes(state.position - selling)}

\* The outcomes of the position test.  The sums of the position, the reserved
\* quantities and the order are signed and may leave the width.
PositionLimitExceeded(state, r) ==
    LET buying  == IF r.side = "buy"  THEN r.quantity ELSE 0
        selling == IF r.side = "sell" THEN r.quantity ELSE 0
        buys    == SignedOutcomes(state.position
                                  + Signed(state.buy_reserved_quantity) + buying)
        sells   == SignedOutcomes(state.position
                                  - Signed(state.sell_reserved_quantity) - selling)
    IN  IF r.quantity > IntMax THEN {TRUE}
        ELSE {buy > configured_position_limit \/ sell < -configured_position_limit :
                buy \in buys, sell \in sells}

\* Mutant of CreditLimitExceeded: only the new order is looked at.
CreditLimitExceeded_OrderOnly(state, r) ==
    margin_for(r) > maximum_account_credit

CreditLimitExceeded(state, r) ==
    \/ margin_for(r) > maximum_account_credit
    \/ state.reserved_margin > maximum_account_credit - margin_for(r)

\* The reasons evaluate may return, in the order it tests them.
AccountRejections(rs, i, r) ==
    LET state == rs.account_states[<<r.account_id, i>>]
    IN  IF OpenOrderLimitExceeded(state, r) THEN {"risk_open_order_limit"}
        ELSE {IF exceeded THEN "risk_position_limit"
              ELSE IF CreditLimitExceeded(state, r) THEN "risk_credit_limit"
              ELSE "none" : exceeded \in PositionLimitExceeded(state, r)}

----------------------------------------------------------------------------
(* Reservations and positions                                               *)

\* The reserved totals of an account after a change, which may be negative, of
\* the quantity on one side and of the margin.
AddReserved(state, side, quantity, margin) ==
    LET moved == [state EXCEPT !.open_order_quantity = Unsigned(@ + quantity),
                               !.reserved_margin = Unsigned(@ + margin)]
    IN  IF side = "buy"
        THEN [moved EXCEPT !.buy_reserved_quantity = Unsigned(@ + quantity)]
        ELSE [moved EXCEPT !.sell_reserved_quantity = Unsigned(@ + quantity)]

reserve(rs, i, r) ==
    LET key    == <<i, r.order_id>>
        margin == margin_for(r)
        made   == [account_id |-> r.account_id, side |-> r.side,
                   remaining_quantity |-> r.quantity, reserved_margin |-> margin]
    IN  [account_states |->
            [rs.account_states EXCEPT ![<<r.account_id, i>>] =
                AddReserved(@, r.side, r.quantity, margin)],
         reservations |->
            [k \in DOMAIN rs.reservations \cup {key} |->
                IF k = key THEN made ELSE rs.reservations[k]]]

\* Mutant of release: the margin of the account is not reduced on a fill that
\* leaves a part of the order open.
release_KeepsMargin(rs, key, quantity) ==
    IF key \notin DOMAIN rs.reservations THEN rs
    ELSE LET res      == rs.reservations[key]
             released == IF quantity <= res.remaining_quantity
                         THEN quantity ELSE res.remaining_quantity
             all      == released = res.remaining_quantity
             margin   == IF all THEN res.reserved_margin
                         ELSE proportional_release(res.reserved_margin, released,
                                                   res.remaining_quantity)
         IN  [account_states |->
                [rs.account_states EXCEPT ![<<res.account_id, key[1]>>] =
                    AddReserved(@, res.side, -released,
                                IF all THEN -margin ELSE 0)],
              reservations |->
                IF all
                THEN [k \in DOMAIN rs.reservations \ {key} |-> rs.reservations[k]]
                ELSE [rs.reservations EXCEPT
                        ![key].remaining_quantity = @ - released,
                        ![key].reserved_margin = @ - margin]]

\* Gives back up to the given quantity of an order's reservation and the
\* margin that goes with it; the last unit takes the rest of the margin.
release(rs, key, quantity) ==
    IF key \notin DOMAIN rs.reservations THEN rs
    ELSE LET res      == rs.reservations[key]
             released == IF quantity <= res.remaining_quantity
                         THEN quantity ELSE res.remaining_quantity
             all      == released = res.remaining_quantity
             margin   == IF all THEN res.reserved_margin
                         ELSE proportional_release(res.reserved_margin, released,
                                                   res.remaining_quantity)
         IN  [account_states |->
                [rs.account_states EXCEPT ![<<res.account_id, key[1]>>] =
                    AddReserved(@, res.side, -released, -margin)],
              reservations |->
                IF all
                THEN [k \in DOMAIN rs.reservations \ {key} |-> rs.reservations[k]]
                ELSE [rs.reservations EXCEPT
                        ![key].remaining_quantity = @ - released,
                        ![key].reserved_margin = Unsigned(@ - margin)]]

update_position(rs, account, i, side, quantity) ==
    [rs EXCEPT !.account_states[<<account, i>>].position =
        Signed(@ + (IF side = "buy" THEN 1 ELSE -1) * Signed(quantity))]

----------------------------------------------------------------------------
(* AccountRiskManager::apply, one event at a time                           *)

\* Mutant of ApplyTrade: the resting side is released but its position is not
\* moved.
ApplyTrade_OneSided(rs, i, r, trade, reservation_created) ==
    LET incoming == IF reservation_created
                    THEN release(rs, <<i, r.order_id>>, trade.quantity) ELSE rs
        moved    == update_position(incoming, r.account_id, i, r.side,
                                    trade.quantity)
    IN  release(moved, <<i, trade.resting_order_id>>, trade.quantity)

ApplyTrade(rs, i, r, trade, reservation_created) ==
    LET incoming == IF reservation_created
                    THEN release(rs, <<i, r.order_id>>, trade.quantity) ELSE rs
        moved    == update_position(incoming, r.account_id, i, r.side,
                                    trade.quantity)
        key      == <<i, trade.resting_order_id>>
        resting  == moved.reservations[key]
    IN  IF key \notin DOMAIN moved.reservations THEN moved
        ELSE update_position(release(moved, key, trade.quantity),
                             resting.account_id, i, resting.side, trade.quantity)

ApplyEvent(rs, i, r, event, reservation_created) ==
    CASE event.kind = "trade" ->
            ApplyTrade(rs, i, r, event, reservation_created)
      [] event.kind = "canceled" -> release(rs, <<i, event.order_id>>, UMax)
      [] event.kind = "rejected" /\ reservation_created ->
            release(rs, <<i, r.order_id>>, r.quantity)
      [] OTHER -> rs

\* Mutant of ApplyEnd: an FOK or market order is not released.
ApplyEnd_IocOnly(rs, i, r, reservation_created) ==
    IF reservation_created /\ r.order_type = "ioc"
    THEN release(rs, <<i, r.order_id>>, r.quantity)
    ELSE rs

\* After the events: what an order that never rests still has reserved.
ApplyEnd(rs, i, r, reservation_created) ==
    IF reservation_created /\ r.order_type \in {"ioc", "market", "fok"}
    THEN release(rs, <<i, r.order_id>>, r.quantity)
    ELSE rs

----------------------------------------------------------------------------
(* The getter that sums the margin of an account over its instruments       *)

reserved_margin(rs, account) ==
    SumFunction([i \in Instruments |-> rs.account_states[<<account, i>>].reserved_margin])
=============================================================================
