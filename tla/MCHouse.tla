------------------------------ MODULE MCHouse ------------------------------
(***************************************************************************)
(* House in scenarios that spend the bounds on one part, or on some that   *)
(* meet at the page.                                                       *)
(***************************************************************************)
EXTENDS House

Changes(which, n) == [s \in Sensed |-> IF s = which THEN n ELSE 0]

Bound(scripts, changes, deaths, knocks, falls, views, alerts, emergencies,
      moves) ==
    [sensors |-> [changes |-> changes, deaths |-> deaths, starts |-> deaths],
     visits |-> [knocks |-> knocks, deaths |-> falls],
     views |-> views, alerts |-> alerts, emergencies |-> emergencies, moves |-> moves, scripts |-> scripts]

MCScenarios ==
    {Bound({"SmokeDetect", "main"}, Changes("smoke", 4), 1, 0, 0, 0, 0, 0, 0),
     Bound({"DoorStatusAnalog", "main"}, Changes("lock", 2), 1, 0, 0, 1, 0, 0, 1),
     Bound({"MotionDetect", "main"}, Changes("movement", 2), 1, 0, 0, 1, 1, 0, 0),
     Bound({"main"}, Changes("lock", 0), 0, 3, 0, 0, 1, 0, 0),
     Bound({"main"}, Changes("lock", 0), 0, 0, 0, 1, 2, 1, 0),
     Bound({}, Changes("lock", 0), 0, 6, 2, 0, 0, 0, 0)}
=============================================================================
