\* Two instruments whose books share the ids, and three ids: a taker may find
\* two candidates and trade with both, find one while an order rests in the
\* other book, or enter one book while two orders rest in the other.  Limits that
\* the requests reach and pass: a price above maximum_order_price, a credit limit
\* that market orders run into, an open-order and a position limit.  At 75%
\* margin the reservations of partly filled orders are rounded.  MaxOpenOrders is
\* reached: an order is accepted only while fewer than three are open.
CONSTANTS
    OrderIds = {o1, o2, o3}
    AccountIds = {a1}
    Instruments = {i1, i2}
    MaxPrice = 2
    MaxQuantity = 2
    MaxExecutionId = 1
    MaxOpenOrders = 3
    IntMax = 536870911
    maximum_order_price = 1
    maximum_order_quantity = 2
    maximum_order_notional = 3
    maximum_position_quantity = 3
    maximum_open_order_quantity = 4
    maximum_account_credit = 2
    initial_margin_basis_points = 7500
    NoCall = NoCall
    Garbage = Garbage
SPECIFICATION Spec
SYMMETRY Symmetry
INVARIANTS
    TypeOK
    ReservationsMatchBooks
    TotalsAreSums
PROPERTIES
    BooksImplementPriceTime
