\* 3-bit integers: a quantity close to the largest signed value.
CONSTANTS
    OrderIds = {o1, o2}
    AccountIds = {a1}
    Instruments = {i1}
    MaxPrice = 1
    MaxQuantity = 3
    MaxExecutionId = 1
    MaxOpenOrders = 4
    IntMax = 3
    maximum_order_price = 1
    maximum_order_quantity = 7
    maximum_order_notional = 7
    maximum_position_quantity = 1
    maximum_open_order_quantity = 7
    maximum_account_credit = 7
    initial_margin_basis_points = 7
    NoCall = NoCall
    Garbage = Garbage
SPECIFICATION Spec
INVARIANTS
    PositionLimitHolds
