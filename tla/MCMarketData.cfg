\* Three ids so that an order can trade twice, two quantities so that fills
\* can be partial, on either side of the trade.
CONSTANTS
    OrderIds = {o1, o2, o3}
    AccountIds = {a1}
    MaxPrice = 2
    MaxQuantity = 2
    MaxExecutionId = 2
    NoOrder = NoOrder
    Garbage = Garbage
SPECIFICATION MDSpec
SYMMETRY Symmetry
INVARIANTS
    MDTypeOK
    TrackedOrdersAreTheBook
    DepthNeverUnderstated
    SubscriberIsCurrent
PROPERTIES
    NoIntermediateUpdates
