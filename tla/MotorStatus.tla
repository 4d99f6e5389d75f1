---------------------------- MODULE MotorStatus ----------------------------
(***************************************************************************)
(* The shared configuration file (src/smartdoor/scripts/config): the two   *)
(* thresholds on the potentiometer that is geared to the lock, the         *)
(* rotation that closes the lock, and MotorStatus, which classifies a      *)
(* reading.  Every script of the door requires this file, so every script  *)
(* sees the lock through MotorStatus.                                      *)
(*                                                                         *)
(* precision 0 is the strict classification the motor stops on, precision  *)
(* 1 the tolerant one that every other reader uses.                        *)
(***************************************************************************)
EXTENDS Integers

CONSTANTS
    MaxRead,            \* largest value of the analogue input
    LowThreshold,       \* config.PotentionmeterLowThreshold
    HighThreshold,      \* config.PotentionmeterHighThreshold
    PrecisionMul,       \* config.MotorStatusPrecisionMul
    DirectionToClose    \* config.MotorDirectionToClose, 1 = clockwise

\* The values of config satisfy this: 710, 950, 30 and a 10-bit reading.
ASSUME ConfigAssumption ==
    /\ MaxRead \in Nat /\ LowThreshold \in Nat /\ HighThreshold \in Nat
    /\ PrecisionMul \in Nat
    /\ 0 < LowThreshold /\ HighThreshold < MaxRead
    /\ LowThreshold + PrecisionMul <= HighThreshold - PrecisionMul
    /\ DirectionToClose \in {0, 1}

Reads == 0 .. MaxRead
Goals == {"Open", "Close"}
Statuses == {"Open", "Close", "Middle"}

DirectionToOpen == 1 - DirectionToClose

\* The status of the two ends of the potentiometer: when clockwise closes
\* the lock, a high reading means Open.
HighEnd == IF DirectionToClose = 1 THEN "Open" ELSE "Close"
LowEnd == IF DirectionToClose = 0 THEN "Open" ELSE "Close"

\* The status of a reading, at the given precision.
StatusOf(read, precision) ==
    IF read > HighThreshold - precision * PrecisionMul THEN HighEnd
    ELSE IF read < LowThreshold + precision * PrecisionMul THEN LowEnd
    ELSE "Middle"

\* Mutant: the two directions are swapped.
DirectionAway(goal) ==
    IF goal = "Open" THEN DirectionToClose ELSE DirectionToOpen

\* The value written on DirectionPin for a goal.
DirectionTo(goal) ==
    IF goal = "Open" THEN DirectionToOpen ELSE DirectionToClose

=============================================================================
