--------------------------- MODULE MCCameraDisplay ---------------------------
(* Two threads with two captures each, and the four buffers Mesa gives a   *)
(* surface.                                                                *)
EXTENDS CameraDisplay

CONSTANTS t1, t2, b1, b2, b3, b4
=============================================================================
