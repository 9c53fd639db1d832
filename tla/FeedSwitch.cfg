SPECIFICATION Spec
CONSTANTS
    r1 = r1
    Readers <- MCReaders
    Last = 5
    MaxLag = 2
    Ambiguous = FALSE
    MaxFaults = 1
INVARIANTS
    SuffixExact
    EndHonest
PROPERTY
    ReadersEnd
CHECK_DEADLOCK FALSE
