----------------------------- MODULE MCEventSync -----------------------------
(* Checks EventSync on two events. *)
EXTENDS EventSync
=============================================================================
