\* Two faults, so that a torn line can be continued by another torn line and by
\* a complete one; batches of two, so that a batch can fail in the middle.
CONSTANTS
    r1 = r1
    r2 = r2
    r3 = r3
    JournalRecords <- Records
    MaxBatch = 2
    MaxPieces = 3
    MaxAcked = 3
    MaxFaults = 2
SPECIFICATION Spec
SYMMETRY Symmetry
INVARIANTS
    TypeOK
    AcknowledgedAreReadBack
    CleanJournalIsExact
    ReadRecordsWereWritten
