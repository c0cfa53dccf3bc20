\* Two writers, so that calls of write can overlap; two snapshots of different
\* lengths, so that the rest of one can follow the other in a file.
CONSTANTS
    Writers = {w1, w2}
    Inodes = {i1, i2}
    MaxWrites = 2
    MaxCrashes = 2
    p = p
    q = q
    Payload = {p, q}
    Snapshots <- Records
    NoInode = NoInode
    NoSnapshot = NoSnapshot
    Damaged = Damaged
    Hole = Hole
SPECIFICATION Spec
SYMMETRY Symmetry
INVARIANTS
    TypeOK
    ReadsAreWhole
    AckedIsInstalled
    FailureLeavesNoTemp
PROPERTIES
    AtomicUnlessOverlapped
