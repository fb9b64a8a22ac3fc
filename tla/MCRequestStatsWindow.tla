------------------------- MODULE MCRequestStatsWindow -------------------------
(* Instances of RequestStatsWindow for TLC.                                   *)
EXTENDS RequestStatsWindow
=============================================================================
