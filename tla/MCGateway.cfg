\* Reference prices below and above 10000 and at the end of a 27-bit type, with
\* orders on and one outside each bound of their bands.
CONSTANTS
    ClientIds = {c1, c2}
    AccountIds = {a1, a2}
    Instruments = {i1}
    OrderPrices = {0, 996, 997, 1003, 1004, 29890, 29891, 30069, 30070,
                   66907536, 66907537, 67108863}
    ReferencePrices = {1000, 29980, 67108863}
    IntMax = 67108863
    maximum_reference_deviation_basis_points = 30
    MaxSequence = 2
    NoReply = NoReply
SPECIFICATION Spec
SYMMETRY Symmetry
INVARIANTS
    TypeOK
    SessionsInOrder
PROPERTIES
    BandIsExact
    RefusalsKeepTheSequence
