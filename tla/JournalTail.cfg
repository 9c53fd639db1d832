SPECIFICATION FairSpec
CONSTANTS
    Streams = {s1}
    Tails = {r1}
    Sizes = {1}
    MaxBytesPerStream = 3
    MaxTotalBytes = 3
    ReaderMaxLagBytes = 1
    TTL = 1
    MaxSeq = 5
    MaxTime = 2
    NoStream = NoStream
INVARIANTS
    ReaderExact
    TailComplete
PROPERTIES
    TailInOrder
    TailEnds
CHECK_DEADLOCK FALSE
