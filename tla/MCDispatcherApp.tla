--------------------------- MODULE MCDispatcherApp ---------------------------
(* DispatcherApp for TLC. *)
EXTENDS DispatcherApp

const_Dispatchers == {1, 2}
=============================================================================
