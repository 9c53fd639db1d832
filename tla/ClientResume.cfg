SPECIFICATION Spec
CONSTANTS
    MaxEvents = 3
    MaxLag = 1
    SocketCap = 1
    MaxFaults = 1
    Views = {events, text}
    MaxAttempts = 1
    MaxReplay = 2
    MaxReloads = 1
INVARIANTS DeliveredExact ViewExact ProtocolAgrees
PROPERTY Settles
CHECK_DEADLOCK FALSE
