--------------------------- MODULE MCPDCellGuardian ---------------------------
(* Instances of PDCellGuardian for TLC.                                     *)
EXTENDS PDCellGuardian

CONSTANTS prefill, decode   \* the containers of a cell
=============================================================================
