-------------------------- MODULE MCStreamRuntime ---------------------------
(* Small instances of StreamRuntime for TLC.                                  *)
EXTENDS StreamRuntime

CONSTANTS b1, b2, d1, d2, h1

OnBackend == [t \in Triggers |-> IF t = d2 THEN b2 ELSE b1]
Reason == [t \in Triggers |-> IF t = h1 THEN "health" ELSE "drain"]

=============================================================================
