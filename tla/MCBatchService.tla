--------------------------- MODULE MCBatchService ---------------------------
(* Instance of BatchService for TLC.                                         *)
EXTENDS BatchService
=============================================================================
