INIT Init
NEXT Next
CONSTANTS
    p1 = p1
    p2 = p2
    b1 = b1
    m1 = m1
    m2 = m2
    i1 = i1
    i2 = i2
    None = None
    Proxies <- MCOneProxy
    Pods <- MCPods
    Models <- MCModels
    Images <- MCOneImage
    PodStates <- MCPodStates
    MaxObjects = 2
    MaxDeletes = 1
    MaxEdits = 3
    MaxProxyMoves = 1
    MaxFaults = 1
INVARIANT VerdictExact
CHECK_DEADLOCK FALSE
