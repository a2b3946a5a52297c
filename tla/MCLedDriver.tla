---------------------------- MODULE MCLedDriver ----------------------------
(* Two programs that blink and one that stops the blinking.                *)
EXTENDS LedDriver

CONSTANTS on1, on2, off

MCCommand == [p \in Procs |-> IF p = off THEN "0" ELSE "1"]
=============================================================================
