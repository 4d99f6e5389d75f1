------------------------------- MODULE House -------------------------------
(***************************************************************************)
(* The sensors, a visitor and a web page around the fields of one door.    *)
(* The break-in detector and online.js, which are modelled in BreakDetect  *)
(* and CommandMailbox, are here as writers of the notification.            *)
(***************************************************************************)
EXTENDS Sensors, KnockVisit, DoorPage

CONSTANTS Scenarios     \* bounds on each part

Scripts == {"SmokeDetect", "MotionDetect", "DoorStatusAnalog", "main"}

Bounds ==
    [sensors : SensorBounds, visits : VisitBounds,
     views : Nat, alerts : Nat, emergencies : Nat, moves : Nat,
     scripts : SUBSET Scripts]

ASSUME HouseAssumption == Scenarios \subseteq Bounds

VARIABLES
    doorstatus,     \* what the motor service says it does
    alert,          \* what the break-in detector has published and will take back
    writesLeft      \* bounds: alerts, emergencies and moves to come

writers == <<doorstatus, alert, writesLeft>>
slot == <<notification, notices>>
house == <<sensors, visiting, viewing, slot, writers>>

NoAlert == Notice("", "false", Untimed)

Server == Fields(notification, move, doorcurrentstatus, doorstatus, smokedetect)

HouseInit ==
    /\ NotificationInit /\ alert = NoAlert /\ doorstatus = ""
    /\ \E s \in Scenarios :
          /\ SensorsInit(s.scripts) /\ VisitInit(s.visits.knocks > 0)
          /\ PageInit /\ watched = ("main" \in s.scripts)
          /\ sensorsLeft = s.sensors /\ visitsLeft = s.visits /\ viewsLeft = s.views
          /\ writesLeft = [alerts |-> s.alerts, emergencies |-> s.emergencies, moves |-> s.moves]

-----------------------------------------------------------------------------
\* The break-in detector, which repeats its record when it takes it back.
Warn ==
    /\ alert = NoAlert /\ writesLeft.alerts > 0
    /\ writesLeft' = [writesLeft EXCEPT !.alerts = @ - 1]
    /\ Publish("Thief Alert") /\ alert' = notification'
    /\ UNCHANGED <<sensors, visiting, viewing, doorstatus>>

Unwarn ==
    /\ alert # NoAlert /\ alert' = NoAlert
    /\ notification' = [alert EXCEPT !.popup = "false"]
    /\ UNCHANGED <<sensors, visiting, viewing, notices, doorstatus, writesLeft>>

\* The detector dies in the seventy seconds of its alert, which nobody takes back.
DetectorDies ==
    /\ alert # NoAlert /\ alert' = NoAlert
    /\ UNCHANGED <<sensors, visiting, viewing, slot, doorstatus, writesLeft>>

\* online.js at an Emergency and at an AlarmOff.
Emergency ==
    /\ writesLeft.emergencies > 0
    /\ writesLeft' = [writesLeft EXCEPT !.emergencies = @ - 1]
    /\ PublishUntimed("Emergency!!!", "true") \/ PublishUntimed("", "false")
    /\ UNCHANGED <<sensors, visiting, viewing, doorstatus, alert>>

\* The motor service, which publishes that it moves and what came of it.
MotorMoves ==
    /\ doorstatus \notin Progress /\ writesLeft.moves > 0
    /\ writesLeft' = [writesLeft EXCEPT !.moves = @ - 1]
    /\ doorstatus' \in Progress
    /\ UNCHANGED <<sensors, visiting, viewing, slot, alert>>

MotorStops ==
    /\ doorstatus \in Progress /\ doorstatus' = lock
    /\ UNCHANGED <<sensors, visiting, viewing, slot, alert, writesLeft>>

SensorsAct == SensorsStep /\ UNCHANGED <<visiting, viewing, slot, writers>>
VisitAct == VisitStep /\ UNCHANGED <<sensors, viewing, writers>>
PageStep == Receive(Server) \/ Poll \/ Age
PageAct == (PageStep \/ Close \/ Load) /\ UNCHANGED <<sensors, visiting, slot, writers>>

HouseNext ==
    \/ SensorsAct \/ VisitAct \/ PageAct
    \/ Warn \/ Unwarn \/ DetectorDies \/ Emergency \/ MotorMoves \/ MotorStops

HouseSpec == HouseInit /\ [][HouseNext]_house

\* Timers fire, callbacks return, sockets report, the page's clock goes on,
\* the alert of a detector that lives is taken back and the motor stops
\* (DoorMotor's ProgressEnds).  Nothing starts a dead process.
HouseFairness ==
    /\ WF_house((SmokeFirst \/ SmokeSecond) /\ UNCHANGED <<visiting, viewing, slot, writers>>)
    /\ WF_house((MoveStart \/ MoveEnd) /\ UNCHANGED <<visiting, viewing, slot, writers>>)
    /\ WF_house(PublishStatus /\ UNCHANGED <<visiting, viewing, slot, writers>>)
    /\ WF_house(KnockerRuns /\ UNCHANGED <<sensors, viewing, writers>>)
    /\ WF_house(RecorderRuns /\ UNCHANGED <<sensors, viewing, writers>>)
    /\ WF_house(Receive(Server) /\ UNCHANGED <<sensors, visiting, slot, writers>>)
    /\ WF_house(Poll /\ UNCHANGED <<sensors, visiting, slot, writers>>)
    /\ WF_house(Age /\ UNCHANGED <<sensors, visiting, slot, writers>>)
    /\ WF_house(Unwarn) /\ WF_house(MotorStops)

HouseFairSpec == HouseSpec /\ HouseFairness

-----------------------------------------------------------------------------
WritersOK ==
    /\ doorstatus \in Progress \cup Statuses \cup {""} /\ alert \in Notices
    /\ writesLeft \in [alerts : Nat, emergencies : Nat, moves : Nat]

HouseTypeOK == SensorsOK /\ VisitOK /\ PageOK /\ NotificationOK /\ WritersOK

\* What the page shows has a reason: the memos, that somebody moves and that
\* nothing pops up; anything else, a notification that pops up.  Movements and
\* notifications may come and go in any order between the polls.
ModalHasReason ==
    page.showModal =>
        IF page.modaltitle = DontForget THEN page.popup = "false" /\ page.move = "true"
                                        ELSE page.popup = "true"

\* A dialog that the page opened does not stay when nobody moves any more,
\* unless the motion detector died and left `move' set.
ModalCloses ==
    <>[]~movement => (page.showModal ~> (~page.showModal \/ (move = "true" /\ movepc # "moving")))

\* A popup that reaches a page where nothing pops up is shown under its own
\* title, and the dialog disappears only when the user closes it or loads the
\* page, or when nothing pops up and nobody moves any more.
DialogFollows ==
    [][/\ page.popup # "true" /\ page'.popup = "true" =>
            page'.showModal /\ page'.modaltitle = status.notification.title
       /\ page.showModal /\ ~page'.showModal =>
            viewsLeft' < viewsLeft \/ {page'.popup, page'.move} = {"false"}]_page

\* While the detector counts, the field says Detected: it is published at the
\* first reading, and taken back by one reading without smoke, which the two
\* readings of one round may be.
SmokeCounts == Smokecount > 0 => smokedetect = "Detected"

\* What the sensors see from some time on is on the page in the end, whatever
\* was published before, whoever died, and however often the motor moved: the
\* smoke, and a button for the lock that can be pressed.
PageSettles ==
    /\ <>[](smoke /\ smokepc # "down" /\ watched) => <>[](page.smokedetect = "Detected")
    /\ <>[](~smoke /\ smokepc # "down" /\ watched) => <>[](page.smokedetect = "Clean")
    /\ <>[](lock = "Close" /\ statuspc # "down" /\ watched) =>
          <>[](page.doorbutton = "Unlock" /\ ~page.doorbuttondisabled)

\* The knock detector does not die of a visitor: only with the recorder, or
\* with the motor service, whose death takes the recorder along.
KnockerLives == knockpc = "dead" => downs > 0

\* Every visit is recorded, unless one of the processes went down.
VisitRecorded ==
    \A v \in Visits : (visits >= v) ~> (recorded[v] > 0 \/ downs > 0)

\* The recording that is recognised for a visit is its own or a newer one.
NotOlder ==
    \A v \in Visits : heard[v] # 0 => recorded[heard[v]] >= recorded[v]

=============================================================================
