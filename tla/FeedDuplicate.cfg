SPECIFICATION Spec
CONSTANTS
    r1 = r1
    Readers <- MCReaders
    Last = 5
    MaxLag = 2
    Ambiguous = TRUE
    MaxFaults = 1
INVARIANT SuffixExact
CHECK_DEADLOCK FALSE
