SPECIFICATION Spec
CONSTANTS
    Streams = {s1}
    Tails = {r1}
    Sizes = {1}
    MaxBytesPerStream = 2
    MaxTotalBytes = 3
    ReaderMaxLagBytes = 1
    TTL = 1
    MaxSeq = 4
    MaxTime = 2
    NoStream = NoStream
PROPERTIES
    TailNoGap
CHECK_DEADLOCK FALSE
