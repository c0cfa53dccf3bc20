\* One resting order and its cancellation are enough.
CONSTANTS
    OrderIds = {o1}
    AccountIds = {a1}
    MaxPrice = 2
    MaxQuantity = 1
    MaxExecutionId = 1
    NoOrder = NoOrder
    Garbage = Garbage
SPECIFICATION Spec
PROPERTIES
    CancelReportsTheOrder
