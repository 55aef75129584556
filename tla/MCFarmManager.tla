---------------------------- MODULE MCFarmManager ----------------------------
(* A small instance of FarmManager for TLC. *)
EXTENDS FarmManager
=============================================================================
