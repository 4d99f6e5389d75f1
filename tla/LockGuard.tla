----------------------------- MODULE LockGuard -----------------------------
(***************************************************************************)
(* The motor service and the break-in detector around one lock.  They      *)
(* share the potentiometer, which both read whenever they run, and the     *)
(* field doorneedtobe, which the motor service writes after its work and   *)
(* the detector hears of later.                                            *)
(***************************************************************************)
EXTENDS DoorMotor, BreakDetect

allVars == <<vars, guard>>

GuardedInit == Init /\ GuardInit

\* A step around the motor service.  The server tells the detector when it
\* changes doorneedtobe.
MotorStep ==
    /\ Next
    /\ inbox' = IF listeners > 0 /\ db'.doorneedtobe # db.doorneedtobe
                THEN Append(inbox, db'.doorneedtobe) ELSE inbox
    /\ UNCHANGED <<listeners, snap, turn, AlretCount, alert, popup>>

DetectorStep == GuardStep(db.doorneedtobe, read) /\ UNCHANGED vars

GuardedNext == MotorStep \/ DetectorStep

GuardedSpec == GuardedInit /\ [][GuardedNext]_allVars

\* Both processes run.  A message is taken even though the timer competes with
\* it, and the other way round (SF).
GuardedFairness ==
    /\ WF_allVars(MotorStep /\ (Running \/ Deliver))
    /\ SF_allVars(AddListener(db.doorneedtobe) /\ UNCHANGED vars)
    /\ SF_allVars(Value /\ UNCHANGED vars)
    /\ WF_allVars((Agree(read) \/ Disagree(read)) /\ UNCHANGED vars)
    /\ WF_allVars((TakeBack \/ Return) /\ UNCHANGED vars)

GuardedFairSpec == GuardedSpec /\ GuardedFairness

-----------------------------------------------------------------------------
(***************************************************************************)
(* Properties.                                                             *)
(***************************************************************************)
BothTypeOK == TypeOK /\ GuardTypeOK

\* The detector never raises an alert over a lock that is closed and has been
\* left alone, however many listeners it has piled up.
AlertHasCause ==
    popup => requests > 0 \/ turns > 0 \/ StatusOf(read, 1) # "Close"

\* A lock that ought to be closed and is not, for good, is reported, and
\* reported again.
BreakInNoticed ==
    <>[](db.doorneedtobe = "Close" /\ out = <<>> /\ StatusOf(read, 1) # "Close")
        => []<>popup

\* Every alert is taken back.
AlertClears == popup ~> ~popup

=============================================================================
