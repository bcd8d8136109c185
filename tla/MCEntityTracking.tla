--------------------------- MODULE MCEntityTracking ---------------------------
(* EntityTracking with three units to a step and differences from -2 to 1. *)
EXTENDS EntityTracking

MCPositions == -5 .. 5
=============================================================================
