SPECIFICATION Spec
CONSTANTS
    p1 = p1
    p2 = p2
    b1 = b1
    m1 = m1
    m2 = m2
    i1 = i1
    i2 = i2
    None = None
    Proxies <- MCProxies
    Pods <- MCPods
    Models <- MCOneModel
    Images <- MCOneImage
    PodStates <- MCServing
    MaxObjects = 2
    MaxDeletes = 1
    MaxEdits = 1
    MaxProxyMoves = 1
    MaxFaults = 1
INVARIANT
    FinalizerBarrier
PROPERTY
    Converges
CHECK_DEADLOCK FALSE
