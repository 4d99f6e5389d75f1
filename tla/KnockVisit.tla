----------------------------- MODULE KnockVisit -----------------------------
(***************************************************************************)
(* A visitor who knocks: src/smartdoor/scripts/Knockdetect.js, which hears *)
(* three knocks, announces them and asks the recorder for a recording, and *)
(* Speechrecognition.js, which records, has the recording recognised and   *)
(* publishes the message or opens the door.                                *)
(*                                                                         *)
(* Neither script listens for errors on the sockets it opens, so that a    *)
(* refused or reset connection ends its process.  The recorder never       *)
(* answers "Record", so that every visit leaves a socket open, and it      *)
(* records every visit into one file, which it reads some time after the   *)
(* recording has ended and other commands may have been served.            *)
(***************************************************************************)
EXTENDS Notification, FiniteSets

CONSTANTS MaxVisits     \* bound: visits in a behaviour

ASSUME VisitAssumption == MaxVisits \in Nat

VARIABLES
    knockpc, KnockCount,
    gap,            \* how long ago lastKnock was, against the two limits
    visits,         \* visits announced so far
    sock,           \* the knock detector's socket to the recorder, for each visit
    recorder,       \* the recorder's process: up or down
    job,            \* what became of each Record command
    recorded,       \* number of each visit's recording, 0 if there is none
    file,           \* the visit whose recording is in test2.raw
    heard,          \* the visit whose recording was recognised for each visit
    said,           \* what each visitor says
    motor,          \* port 6001 is served
    opens,          \* Open commands sent
    downs,          \* times the recorder or the motor service went down
    visitsLeft      \* bounds: knocks and deaths to come

knocker == <<knockpc, KnockCount, gap, visits>>
recording == <<recorder, job, recorded, file, heard, said, opens>>
visiting == <<knocker, sock, recording, motor, downs, visitsLeft>>

Visits == 1 .. MaxVisits
VisitBounds == [knocks : Nat, deaths : Nat]
Gaps == {"short", "good", "long"}       \* up to 200 ms, up to 6 s, more
SockStates == {"none", "connecting", "open", "reset", "closed"}
Jobs == {"none", "unread", "recorded", "asked", "opening", "opened", "broken", "over"}

\* Without visitors it does not matter what they say.
VisitInit(visited) ==
    /\ knockpc = "sample" /\ KnockCount = 0 /\ gap = "long" /\ visits = 0
    /\ sock = [v \in Visits |-> "none"] /\ recorder = "up"
    /\ job = [v \in Visits |-> "none"] /\ recorded = [v \in Visits |-> 0]
    /\ file = 0 /\ heard = [v \in Visits |-> 0]
    /\ said \in [Visits -> IF visited THEN {"OPEN SESAME", "a message"} ELSE {"a message"}]
    /\ motor = "up" /\ opens = 0 /\ downs = 0

-----------------------------------------------------------------------------
\* The count that a sample finds, and the one it leaves.
Found == IF gap = "long" THEN 0 ELSE KnockCount

Quiet ==
    /\ knockpc = "sample" /\ KnockCount # Found
    /\ KnockCount' = Found
    /\ UNCHANGED <<knockpc, gap, visits, sock, recording, motor, downs, visitsLeft, notification, notices>>

\* A loud sample; those in the 200 ms after a knock belong to it.
Knock ==
    /\ knockpc = "sample" /\ gap # "short" /\ visitsLeft.knocks > 0
    /\ visitsLeft' = [visitsLeft EXCEPT !.knocks = @ - 1]
    /\ gap' = "short"
    /\ IF Found + 1 >= 3
       THEN /\ visits < MaxVisits
            /\ KnockCount' = 0 /\ knockpc' = "welcome" /\ visits' = visits + 1
            /\ Publish("Knock Knock")
       ELSE /\ KnockCount' = Found + 1
            /\ UNCHANGED <<knockpc, visits, notification, notices>>
    /\ UNCHANGED <<sock, recording, motor, downs>>

\* Time goes on while the detector samples.
Pass ==
    /\ knockpc = "sample" /\ gap # "long"
    /\ gap' = IF gap = "short" THEN "good" ELSE "long"
    /\ UNCHANGED <<knockpc, KnockCount, visits, sock, recording, motor, downs, visitsLeft, notification, notices>>

\* The greeting has been played.
AskRecording ==
    /\ knockpc = "welcome" /\ knockpc' = "record"
    /\ sock' = [sock EXCEPT ![visits] = "connecting"]
    /\ UNCHANGED <<KnockCount, gap, visits, recording, motor, downs, visitsLeft, notification, notices>>

\* The second wait is over and the callback returns to the event loop.
VisitEnds ==
    /\ knockpc = "record" /\ knockpc' = "sample" /\ gap' = "long"
    /\ UNCHANGED <<KnockCount, visits, sock, recording, motor, downs, visitsLeft, notification, notices>>

\* Mutant: the recorder refuses connections while it has a command.
ConnectedWhenFree(v) ==
    IF recorder = "up" /\ \A w \in Visits : job[w] # "unread"
    THEN /\ sock' = [sock EXCEPT ![v] = "open"] /\ job' = [job EXCEPT ![v] = "unread"]
         /\ UNCHANGED knockpc
    ELSE knockpc' = "dead" /\ UNCHANGED <<sock, job>>

\* The kernel takes the connection of a busy recorder, too.
Connected(v) ==
    IF recorder = "up"
    THEN /\ sock' = [sock EXCEPT ![v] = "open"] /\ job' = [job EXCEPT ![v] = "unread"]
         /\ UNCHANGED knockpc
    ELSE knockpc' = "dead" /\ UNCHANGED <<sock, job>>

Connect(v) ==
    /\ knockpc = "sample" /\ sock[v] = "connecting" /\ Connected(v)
    /\ UNCHANGED <<KnockCount, gap, visits, recorder, recorded, file, heard, said, opens>>
    /\ UNCHANGED <<motor, downs, visitsLeft, notification, notices>>

SocketError(v) ==
    /\ knockpc = "sample" /\ sock[v] = "reset" /\ knockpc' = "dead"
    /\ UNCHANGED <<KnockCount, gap, visits, sock, recording, motor, downs, visitsLeft, notification, notices>>

-----------------------------------------------------------------------------
\* Mutant: arecord does not start while the file is in use.
WrittenUnlessUsed(v) == IF \E w \in Visits : job[w] = "recorded" THEN file ELSE v

Written(v) == v

\* startRecord up to the call of recognize.
StartRecord(v) ==
    /\ recorder = "up" /\ job[v] = "unread"
    /\ job' = [job EXCEPT ![v] = "recorded"]
    /\ recorded' = [recorded EXCEPT ![v] = 1 + Cardinality({w \in Visits : recorded[w] > 0})]
    /\ file' = Written(v)
    /\ UNCHANGED <<knocker, sock, recorder, heard, said, opens>>
    /\ UNCHANGED <<motor, downs, visitsLeft, notification, notices>>

\* recognize reads the file when the event loop gets to it.
ReadFile(v) ==
    /\ recorder = "up" /\ job[v] = "recorded"
    /\ job' = [job EXCEPT ![v] = "asked"] /\ heard' = [heard EXCEPT ![v] = file]
    /\ UNCHANGED <<knocker, sock, recorder, recorded, file, said, opens>>
    /\ UNCHANGED <<motor, downs, visitsLeft, notification, notices>>

\* The answer of the speech service.
Recognised(v) ==
    /\ recorder = "up" /\ job[v] = "asked"
    /\ \/ job' = [job EXCEPT ![v] = "over"] /\ UNCHANGED <<notification, notices>>
       \/ /\ said[heard[v]] = "OPEN SESAME"
          /\ job' = [job EXCEPT ![v] = "opening"] /\ UNCHANGED <<notification, notices>>
       \/ /\ said[heard[v]] # "OPEN SESAME"
          /\ job' = [job EXCEPT ![v] = "over"] /\ Publish("Someone recorded a message")
    /\ UNCHANGED <<knocker, sock, recorder, recorded, file, heard, said, opens>>
    /\ UNCHANGED <<motor, downs, visitsLeft>>

\* The recorder's process ends: connections with an unread command are reset,
\* the others are closed, and recognitions are forgotten.
RecorderGone ==
    /\ recorder' = "down" /\ downs' = downs + 1
    /\ sock' = [v \in Visits |-> IF sock[v] # "open" THEN sock[v]
                                 ELSE IF job[v] = "unread" THEN "reset" ELSE "closed"]
    /\ job' = [v \in Visits |-> IF job[v] = "none" THEN "none" ELSE "over"]

OpenDoor(v) ==
    /\ recorder = "up" /\ job[v] = "opening"
    /\ IF motor = "up"
       THEN /\ opens' = opens + 1 /\ job' = [job EXCEPT ![v] = "opened"]
            /\ UNCHANGED <<recorder, downs, sock>>
       ELSE RecorderGone /\ UNCHANGED opens
    /\ UNCHANGED <<knocker, recorded, file, heard, said, motor, visitsLeft, notification, notices>>

\* The motor service answers, or the connection that its death has reset
\* ends the recorder.
OpenEnds(v) ==
    /\ recorder = "up"
    /\ \/ /\ job[v] = "opened" /\ motor = "up"
          /\ job' = [job EXCEPT ![v] = "over"] /\ UNCHANGED <<recorder, downs, sock>>
       \/ job[v] = "broken" /\ RecorderGone
    /\ UNCHANGED <<knocker, recorded, file, heard, said, opens, motor, visitsLeft, notification, notices>>

\* Its connections are reset if there is something it has not read.
MotorGone ==
    /\ motor' = "down" /\ downs' = downs + 1
    /\ \E end \in {"over", "broken"} :
          job' = [v \in Visits |-> IF job[v] = "opened" THEN end ELSE job[v]]
    /\ UNCHANGED <<recorder, sock>>

ServiceDies ==
    /\ visitsLeft.deaths > 0
    /\ visitsLeft' = [visitsLeft EXCEPT !.deaths = @ - 1]
    /\ \/ recorder = "up" /\ RecorderGone /\ UNCHANGED motor
       \/ motor = "up" /\ MotorGone
    /\ UNCHANGED <<knocker, recorded, file, heard, said, opens, notification, notices>>

ServiceStarts ==
    /\ \/ recorder = "down" /\ recorder' = "up" /\ UNCHANGED motor
       \/ motor = "down" /\ motor' = "up" /\ UNCHANGED recorder
    /\ UNCHANGED <<knocker, sock, job, recorded, file, heard, said, opens, downs, visitsLeft>>
    /\ UNCHANGED <<notification, notices>>

-----------------------------------------------------------------------------
KnockerRuns == Quiet \/ Pass \/ AskRecording \/ VisitEnds \/ \E v \in Visits : Connect(v) \/ SocketError(v)
RecorderRuns == \E v \in Visits : StartRecord(v) \/ ReadFile(v) \/ Recognised(v) \/ OpenDoor(v) \/ OpenEnds(v)
VisitStep == Knock \/ KnockerRuns \/ RecorderRuns \/ ServiceDies \/ ServiceStarts

KnockerOK ==
    /\ knockpc \in {"sample", "welcome", "record", "dead"} /\ KnockCount \in 0 .. 2 /\ gap \in Gaps
    /\ visits \in 0 .. MaxVisits /\ sock \in [Visits -> SockStates]
RecorderOK ==
    /\ recorder \in {"up", "down"} /\ motor \in {"up", "down"} /\ job \in [Visits -> Jobs]
    /\ recorded \in [Visits -> 0 .. MaxVisits] /\ heard \in [Visits -> 0 .. MaxVisits]
    /\ file \in 0 .. MaxVisits /\ said \in [Visits -> {"OPEN SESAME", "a message"}]
    /\ opens \in Nat /\ downs \in Nat
VisitOK == KnockerOK /\ RecorderOK /\ visitsLeft \in VisitBounds

=============================================================================
