SPECIFICATION Spec
CONSTANTS
  b1 = b1
  b2 = b2
  pod1 = pod1
  a1 = a1
  a2 = a2
  l1 = l1
  l2 = l2
  q1 = q1
  IDs <- MCIDs
  PodOf <- MCPodOf
  Pods = {pod1}
  Addrs = {a1, a2}
  Leases = {l1}
  Requests = {q1}
  Window = 1
  MaxAttempts = 2
  MaxRevision = 3
  MaxCalls = 3
PROPERTY ProbeNeverStale
CHECK_DEADLOCK FALSE
