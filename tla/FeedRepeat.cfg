SPECIFICATION Spec
CONSTANTS
    r1 = r1
    Readers <- MCReaders
    Last = 5
    MaxLag = 2
    Ambiguous = FALSE
    MaxFaults = 1
INVARIANT CursorExclusive
CHECK_DEADLOCK FALSE
