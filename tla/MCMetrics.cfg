\* Two accounts, so that a cancellation can come from a stranger; two calls, so
\* that two orders can trade and a batch can follow another.  The latencies are
\* a negative one, which is cast to UIntMax, and two that fill the total to its
\* limit or wrap it.  No symmetry: one property is a liveness property.
CONSTANTS
    OrderIds = {o1, o2}
    AccountIds = {a1, a2}
    MaxPrice = 1
    MaxQuantity = 2
    MaxExecutionId = 2
    NoOrder = NoOrder
    Garbage = Garbage
    Latencies <- SomeLatencies
    UIntMax = 3
    MaxSamples = 2
    MaxCalls = 2
    NoReport = NoReport
SPECIFICATION MetricsSpec
INVARIANTS
    MetricsTypeOK
    SnapshotIsConsistent
    CountersFollowBook
PROPERTIES
    CallsAreCounted
