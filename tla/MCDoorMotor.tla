---------------------------- MODULE MCDoorMotor ----------------------------
(***************************************************************************)
(* DoorMotor on a small lock: readings 0..6, strictly closed below 2,      *)
(* strictly open above 4, tolerances of one reading.                       *)
(***************************************************************************)
EXTENDS DoorMotor, TLC

Sym == Permutations(Conns)
=============================================================================
