SPECIFICATION Spec
CONSTANTS
    b1 = b1
    b2 = b2
    d1 = d1
    d2 = d2
    h1 = h1
    Stoppers = {}
    Triggers = {d1}
    TriggerBackend <- OnBackend
    TriggerReason <- Reason
    Orphans = {}
    Readers = {}
    RemoteReaders = {}
    OrphanPolicy = "continue"
    Backends = {b1, b2}
    Origin = b1
    SafeTargets = {b1, b2}
    MaxMigrations = 1
    MaxChunks = 1
    MaxFaults = 1
    ForceCancels = FALSE
    EarlyTriggers = FALSE
    NoBackend = NoBackend
    NoProc = NoProc
INVARIANTS
    TerminalAgreement
CHECK_DEADLOCK FALSE
