--------------------------- MODULE MCDegradedFeed ---------------------------
(* Instances of DegradedFeed for TLC.  No handler reads another reader's    *)
(* state, so one reader meets every interleaving with the producer.         *)
EXTENDS DegradedFeed

CONSTANTS r1

MCReaders == {r1}
=============================================================================
