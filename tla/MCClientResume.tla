--------------------------- MODULE MCClientResume ---------------------------
(* Instances of ClientResume for TLC.                                      *)
EXTENDS ClientResume
=============================================================================
