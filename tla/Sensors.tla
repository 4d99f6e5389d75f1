------------------------------ MODULE Sensors ------------------------------
(***************************************************************************)
(* The three scripts that poll a sensor and publish a field:               *)
(* src/smartdoor/scripts/SmokeDetect.js, MotionDetect.js and               *)
(* DoorStatusAnalog.js.  A round of the first takes two readings, between  *)
(* which the smoke may change, and one of the second lasts five seconds    *)
(* between its two writes.  Each script is a process that may die and be   *)
(* started again, at any point of a round.                                 *)
(*                                                                         *)
(* A write that dies with its process is taken as not made.                *)
(***************************************************************************)
EXTENDS Integers

CONSTANTS Statuses, MaxSmokecount   \* bound: readings of smoke counted apart

ASSUME SensorsAssumption == MaxSmokecount \in Nat

VARIABLES
    smoke, movement, lock,          \* what the sensors see
    smokepc, Smokecount,            \* SmokeDetect.js
    movepc,                         \* MotionDetect.js
    statuspc,                       \* DoorStatusAnalog.js
    smokedetect, move, doorcurrentstatus,   \* the fields
    sensorsLeft                     \* bounds: changes of the sensors, deaths and starts to come

sensed == <<smoke, movement, lock>>
smokeDetector == <<smokepc, Smokecount, smokedetect>>
motionDetector == <<movepc, move>>
statusPoller == <<statuspc, doorcurrentstatus>>
sensors == <<sensed, smokeDetector, motionDetector, statusPoller, sensorsLeft>>

Sensed == {"smoke", "movement", "lock"}
SensorBounds == [changes : [Sensed -> Nat], deaths : Nat, starts : Nat]

\* Some of the scripts run; the fields are what earlier runs left, and those
\* of the other scripts are set.
SensorsInit(scripts) ==
    /\ smoke = FALSE /\ movement = FALSE /\ lock \in Statuses
    /\ smokepc = (IF "SmokeDetect" \in scripts THEN "wait" ELSE "down") /\ Smokecount = 0
    /\ smokedetect \in (IF "SmokeDetect" \in scripts THEN {"Clean", "Detected"} ELSE {"Clean"})
    /\ movepc = (IF "MotionDetect" \in scripts THEN "wait" ELSE "down") /\ move = "false"
    /\ statuspc = (IF "DoorStatusAnalog" \in scripts THEN "wait" ELSE "down")
    /\ doorcurrentstatus \in (IF "DoorStatusAnalog" \in scripts THEN Statuses ELSE {lock})

\* The first reading.  The count decides only what is printed.
SmokeFirst ==
    /\ smokepc = "wait" /\ smokepc' = "second"
    /\ IF smoke
       THEN /\ Smokecount' = IF Smokecount < MaxSmokecount THEN Smokecount + 1 ELSE Smokecount
            /\ smokedetect' = "Detected"
       ELSE UNCHANGED <<Smokecount, smokedetect>>
    /\ UNCHANGED <<sensed, motionDetector, statusPoller, sensorsLeft>>

\* Mutant: Clean is published only by the process that has seen smoke.
SmokeSecondCounting ==
    /\ smokepc = "second" /\ smokepc' = "wait"
    /\ IF smoke \/ Smokecount = 0 THEN UNCHANGED <<Smokecount, smokedetect>>
                                  ELSE Smokecount' = 0 /\ smokedetect' = "Clean"
    /\ UNCHANGED <<sensed, motionDetector, statusPoller, sensorsLeft>>

SmokeSecond ==
    /\ smokepc = "second" /\ smokepc' = "wait"
    /\ IF smoke THEN UNCHANGED <<Smokecount, smokedetect>>
                ELSE Smokecount' = 0 /\ smokedetect' = "Clean"
    /\ UNCHANGED <<sensed, motionDetector, statusPoller, sensorsLeft>>

MoveStart ==
    /\ movepc = "wait" /\ movement
    /\ movepc' = "moving" /\ move' = "true"
    /\ UNCHANGED <<sensed, smokeDetector, statusPoller, sensorsLeft>>

\* Five seconds later, moving or not.
MoveEnd ==
    /\ movepc = "moving"
    /\ movepc' = "wait" /\ move' = "false"
    /\ UNCHANGED <<sensed, smokeDetector, statusPoller, sensorsLeft>>

PublishStatus ==
    /\ statuspc = "wait" /\ doorcurrentstatus' = lock
    /\ UNCHANGED <<sensed, smokeDetector, motionDetector, statuspc, sensorsLeft>>

Sense ==
    /\ \E s \in Sensed :
          /\ sensorsLeft.changes[s] > 0
          /\ sensorsLeft' = [sensorsLeft EXCEPT !.changes[s] = @ - 1]
          /\ \/ s = "smoke" /\ smoke' = ~smoke /\ UNCHANGED <<movement, lock>>
             \/ s = "movement" /\ movement' = ~movement /\ UNCHANGED <<smoke, lock>>
             \/ s = "lock" /\ lock' \in Statuses \ {lock} /\ UNCHANGED <<smoke, movement>>
    /\ UNCHANGED <<smokeDetector, motionDetector, statusPoller>>

SensorDies ==
    /\ sensorsLeft.deaths > 0
    /\ sensorsLeft' = [sensorsLeft EXCEPT !.deaths = @ - 1]
    /\ \/ smokepc # "down" /\ smokepc' = "down" /\ UNCHANGED <<movepc, statuspc>>
       \/ movepc # "down" /\ movepc' = "down" /\ UNCHANGED <<smokepc, statuspc>>
       \/ statuspc # "down" /\ statuspc' = "down" /\ UNCHANGED <<smokepc, movepc>>
    /\ UNCHANGED <<sensed, Smokecount, smokedetect, move, doorcurrentstatus>>

SensorStarts ==
    /\ sensorsLeft.starts > 0
    /\ sensorsLeft' = [sensorsLeft EXCEPT !.starts = @ - 1]
    /\ \/ smokepc = "down" /\ smokepc' = "wait" /\ Smokecount' = 0 /\ UNCHANGED <<movepc, statuspc>>
       \/ movepc = "down" /\ movepc' = "wait" /\ UNCHANGED <<smokepc, Smokecount, statuspc>>
       \/ statuspc = "down" /\ statuspc' = "wait" /\ UNCHANGED <<smokepc, Smokecount, movepc>>
    /\ UNCHANGED <<sensed, smokedetect, move, doorcurrentstatus>>

Polls == SmokeFirst \/ SmokeSecond \/ MoveStart \/ MoveEnd \/ PublishStatus
SensorsStep == Polls \/ Sense \/ SensorDies \/ SensorStarts

SensorsOK ==
    /\ {smoke, movement} \subseteq BOOLEAN /\ {lock, doorcurrentstatus} \subseteq Statuses
    /\ smokepc \in {"down", "wait", "second"} /\ Smokecount \in 0 .. MaxSmokecount
    /\ movepc \in {"down", "wait", "moving"} /\ statuspc \in {"down", "wait"}
    /\ smokedetect \in {"Clean", "Detected"} /\ move \in {"true", "false"}
    /\ sensorsLeft \in SensorBounds

=============================================================================
