----------------------------- MODULE MCSleepMode -----------------------------
(* Instance of SleepMode for TLC.                                            *)
EXTENDS SleepMode
=============================================================================
