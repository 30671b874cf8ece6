--------------------------- MODULE MCPositionClose ---------------------------
(* Closing a position of two units: small instances for TLC.               *)
EXTENDS PositionClose
=============================================================================
