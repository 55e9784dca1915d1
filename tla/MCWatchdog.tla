----------------------------- MODULE MCWatchdog -----------------------------
(* Checks Watchdog; the configurations give the bounds. *)
EXTENDS Watchdog
=============================================================================
