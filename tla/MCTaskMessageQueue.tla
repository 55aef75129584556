------------------------- MODULE MCTaskMessageQueue -------------------------
(***************************************************************************)
(* Small instances of TaskMessageQueue for TLC.                            *)
(***************************************************************************)
EXTENDS TaskMessageQueue, TLC

Symmetry == Permutations(Sessions) \cup Permutations(Tasks)
=============================================================================
