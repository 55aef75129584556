---------------------------- MODULE MCNodeService ----------------------------
(* Small instances of NodeService for TLC. *)
EXTENDS NodeService
=============================================================================
