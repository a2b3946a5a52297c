-------------------------- MODULE MCSensorReading --------------------------
(* Connection threads for the measurements; the .cfg files say how many.   *)
EXTENDS SensorReading

CONSTANTS t1, t2, t3
=============================================================================
