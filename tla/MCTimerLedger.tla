--------------------------- MODULE MCTimerLedger ---------------------------
(* The instances of TimerLedger for TLC are given by the .cfg files alone. *)
EXTENDS TimerLedger
=============================================================================
