-------------------------- MODULE MCTaskGenerator --------------------------
(***************************************************************************)
(* Model values for TaskGenerator: coroutines and a response thread.       *)
(***************************************************************************)
EXTENDS TaskGenerator

CONSTANTS c1, c2, c3, w1
=============================================================================
