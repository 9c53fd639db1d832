SPECIFICATION Spec
CONSTANTS
    Streams = {s1, s2, s3}
    Tails = {}
    Sizes = {1, 2}
    MaxBytesPerStream = 3
    MaxTotalBytes = 4
    ReaderMaxLagBytes = 2
    TTL = 1
    MaxSeq = 4
    MaxTime = 3
    NoStream = NoStream
SYMMETRY Identifiers
INVARIANTS
    BudgetExact
    RetainedContiguous
PROPERTIES
    MeetsContract
CHECK_DEADLOCK FALSE
