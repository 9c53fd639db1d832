------------------------------- MODULE Journal -------------------------------
(***************************************************************************)
(* The contract of the Journal interface (internal/journal/types.go) for   *)
(* one stream, as its callers rely on it: sequences are allocated one by   *)
(* one until a terminal entry or a durability gap ends the allocation for  *)
(* good, a retained range that ends at the last sequence can be replayed,  *)
(* and only a stream that is over may be forgotten.                        *)
(***************************************************************************)
EXTENDS Naturals

VARIABLES
    phase,     \* "gone", "open", "sealed" (MarkDegraded) or "closed"
    earliest,  \* first retained sequence
    last       \* last allocated sequence

vars == <<phase, earliest, last>>

Init == phase = "gone" /\ earliest = 0 /\ last = 0

\* A stream whose retention has run out may be replaced at once.
Open ==
    /\ phase # "open"
    /\ phase' = "open" /\ earliest' = 1 /\ last' = 1

\* Append and Close take the next sequence. The range is contiguous, so a trim
\* only moves its start.
Commit ==
    /\ phase = "open"
    /\ phase' \in {"open", "closed"}
    /\ last' = last + 1
    /\ earliest' \in earliest..last'

Seal == phase = "open" /\ phase' = "sealed" /\ UNCHANGED <<earliest, last>>

Forget ==
    /\ phase \in {"sealed", "closed"}
    /\ phase' = "gone" /\ earliest' = 0 /\ last' = 0

Next == Open \/ Commit \/ Seal \/ Forget

Spec == Init /\ [][Next]_vars

=============================================================================
