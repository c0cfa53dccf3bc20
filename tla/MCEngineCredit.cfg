\* One order in each of two instruments.
CONSTANTS
    OrderIds = {o1, o2}
    AccountIds = {a1}
    Instruments = {i1, i2}
    MaxPrice = 2
    MaxQuantity = 2
    MaxExecutionId = 1
    MaxOpenOrders = 4
    IntMax = 536870911
    maximum_order_price = 1
    maximum_order_quantity = 2
    maximum_order_notional = 2
    maximum_position_quantity = 3
    maximum_open_order_quantity = 3
    maximum_account_credit = 3
    initial_margin_basis_points = 10000
    NoCall = NoCall
    Garbage = Garbage
SPECIFICATION Spec
INVARIANTS
    AccountCreditLimitHolds
