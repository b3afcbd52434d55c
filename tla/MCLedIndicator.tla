--------------------------- MODULE MCLedIndicator ---------------------------
(* Instance of LedIndicator for TLC: pressures in units of the threshold,   *)
(* with 0 for a sensor that does not answer.                                *)
EXTENDS LedIndicator

MCPressures == {0, 1, 2}
=============================================================================
