\* Three ids so that a deque can hold an order that is neither first nor last
\* to leave, two prices so that a level can be better than another.
CONSTANTS
    OrderIds = {o1, o2, o3}
    AccountIds = {a1}
    MaxPrice = 2
    MaxQuantity = 2
    MaxExecutionId = 2
    NoOrder = NoOrder
    Garbage = Garbage
SPECIFICATION Spec
SYMMETRY Symmetry
INVARIANTS
    TypeOK
    BookIndexConsistent
    BookUncrossed
    FokAllOrNothing
    PostOnlyNeverTakes
    TradesWalkTheBook
PROPERTIES
    QuantityConserved
    ImplementsPriceTime
