---------------------------- MODULE MCSharedKey ------------------------------
(***************************************************************************)
(* Instances of SharedKey for TLC.                                         *)
(***************************************************************************)
EXTENDS SharedKey

CONSTANTS q1, q2

FewIds == 1..3

=============================================================================
