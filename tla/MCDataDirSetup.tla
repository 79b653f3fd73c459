--------------------------- MODULE MCDataDirSetup ---------------------------
(* DataDirSetup with enough random passwords and ports for a session and   *)
(* what an earlier one has left.                                           *)
EXTENDS DataDirSetup

CONSTANTS g1, g2, g3
=============================================================================
