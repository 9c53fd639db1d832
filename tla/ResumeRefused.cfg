SPECIFICATION Spec
CONSTANTS
    MaxEvents = 4
    MaxLag = 1
    SocketCap = 1
    MaxFaults = 1
    Views = {events, text}
    MaxAttempts = 1
    MaxReplay = 2
    MaxReloads = 1
INVARIANT InterruptionSurvived
CHECK_DEADLOCK FALSE
