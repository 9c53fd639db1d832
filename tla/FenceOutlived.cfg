SPECIFICATION Spec
CONSTANTS
    q1 = q1
    q2 = q2
    Readers = {q1}
    MaxOps = 2
    MaxClaims = 2
    Batch = 1
    Deadline = 2
    ReconcileDeadline = 1
    ReceiptTTL = 4
    WireTTL = 1
    MaxFaults = 0
    CancelAfter = FALSE
    None = None
PROPERTY
    FenceNeverOutlived
CHECK_DEADLOCK FALSE
