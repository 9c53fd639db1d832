-------------------------- MODULE MCMemoryJournal ---------------------------
(* Small instances of MemoryJournal for TLC.                                  *)
EXTENDS MemoryJournal, TLC

Identifiers == Permutations(Streams)

=============================================================================
