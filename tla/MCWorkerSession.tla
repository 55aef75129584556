-------------------------- MODULE MCWorkerSession --------------------------
(***************************************************************************)
(* Model values for the endpoints of WorkerSession.                        *)
(***************************************************************************)
EXTENDS WorkerSession

CONSTANTS e1, e2, c

=============================================================================
