\* Two accounts and two ids that are used again once their orders are gone, so
\* that positions build up over trades before the limits are tested against
\* them.  Each limit refuses an order the others would let through: the
\* open-order limit a sale of 2 over a purchase of 2, the position limit a
\* purchase of 2 by an account that is long 2, the credit limit a market order
\* (margin 2) over an order of 2 (margin 1).  At 75% margin the reservation of a
\* partly filled order is rounded.  No symmetry: one property is a liveness
\* property.
CONSTANTS
    OrderIds = {o1, o2}
    AccountIds = {a1, a2}
    Instruments = {i1}
    MaxPrice = 1
    MaxQuantity = 2
    MaxExecutionId = 2
    MaxOpenOrders = 2
    IntMax = 536870911
    maximum_order_price = 1
    maximum_order_quantity = 2
    maximum_order_notional = 3
    maximum_position_quantity = 3
    maximum_open_order_quantity = 3
    maximum_account_credit = 2
    initial_margin_basis_points = 7500
    NoCall = NoCall
    Garbage = Garbage
SPECIFICATION FairSpec
INVARIANTS
    ReservationsMatchBooks
    TotalsAreSums
    PositionsSumToZero
    PositionLimitHolds
    ReservationLimitsHold
PROPERTIES
    CallsReturn
