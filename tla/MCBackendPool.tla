--------------------------- MODULE MCBackendPool ---------------------------
(* Instances of BackendPool for TLC. *)
EXTENDS BackendPool, TLC

CONSTANTS b1, b2, pod1, a1, a2, l1, l2, q1

MCIDs == {b1, b2}
MCPodOf == [id \in IDs |-> pod1]
MCSymmetry == Permutations({b1, b2})
=============================================================================
