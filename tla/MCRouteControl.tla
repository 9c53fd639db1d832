--------------------------- MODULE MCRouteControl ---------------------------
(* Instances of RouteControl for TLC.                                      *)
EXTENDS RouteControl

CONSTANTS p1, p2, b1, m1, m2, i1, i2

MCProxies == {p1, p2}
MCOneProxy == {p1}
MCPods == {b1}
MCOneModel == {m1}
MCModels == {m1, m2}
MCOneImage == {i1}
MCPodStates == {"ready", "unready", "draining"}
MCServing == {"ready", "unready"}
MCImages == {i1, i2}
=============================================================================
