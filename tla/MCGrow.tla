------------------------------- MODULE MCGrow -------------------------------
(* Instances of GrowStack for TLC. *)
EXTENDS GrowStack

CONSTANTS s1, l1, b1, b2, b3, x, y
=============================================================================
