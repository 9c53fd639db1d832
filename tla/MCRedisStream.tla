--------------------------- MODULE MCRedisStream -----------------------------
(***************************************************************************)
(* Instances of RedisStream for TLC.                                       *)
(***************************************************************************)
EXTENDS RedisStream

CONSTANTS q1, q2

=============================================================================
