SPECIFICATION Spec
CONSTANTS
    q1 = q1
    q2 = q2
    Readers = {q1}
    MaxOps = 3
    MaxClaims = 2
    Batch = 1
    Deadline = 2
    ReconcileDeadline = 1
    ReceiptTTL = 4
    WireTTL = 1
    MaxFaults = 2
    CancelAfter = TRUE
    None = None
INVARIANTS
    AcksMatchLog
PROPERTIES
    OrphanFence
    GapMarked
CHECK_DEADLOCK FALSE
