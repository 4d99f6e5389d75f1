---------------------------- MODULE House_proofs ----------------------------
(***************************************************************************)
(* Proofs about the sensors, the visitors and the page, for any number of  *)
(* visits, any door statuses and any bounds on what happens.               *)
(*                                                                         *)
(* The parts touch different variables, so that each invariant is kept by  *)
(* the steps of one part and left alone by the others.  KnockerLives rests *)
(* on DeathsCounted (a reset socket and a recorder that is down are traces *)
(* of a death), NotOlder on InTurn (what a visit can have by the state of  *)
(* its command) and Newest (the file holds the latest recording).          *)
(***************************************************************************)
EXTENDS House, FiniteSetTheorems, TLAPS

\* A reset socket and a recorder that is down are traces of a death.
DeathsCounted ==
    /\ recorder = "down" => downs > 0
    /\ \A v \in Visits : sock[v] = "reset" => downs > 0

\* What a visit can have by the state of its socket and of its command.
InTurn ==
    /\ \A v \in Visits : visits < v => sock[v] = "none"
    /\ knockpc = "welcome" => visits > 0 /\ sock[visits] = "none"
    /\ \A v \in Visits : sock[v] \in {"none", "connecting"} => job[v] = "none"
    /\ \A v \in Visits : job[v] \in {"none", "unread"} => recorded[v] = 0 /\ heard[v] = 0
    /\ \A v \in Visits : job[v] = "recorded" => file # 0
    /\ \A v \in Visits : job[v] = "recorded" => heard[v] = 0

RecordedVisits == {v \in Visits : recorded[v] > 0}

\* Recordings are numbered as they come, and the file holds the last one.
Newest ==
    /\ \A v \in Visits : recorded[v] <= Cardinality(RecordedVisits)
    /\ file # 0 => file \in Visits /\ recorded[file] = Cardinality(RecordedVisits)

-----------------------------------------------------------------------------
\* Types, part by part.  A step of a sensor's script, or of what it senses,
\* keeps theirs.
LEMMA SensorsTyped == SensorsOK /\ SensorsStep => SensorsOK'
  <1> SUFFICES ASSUME SensorsOK, SensorsStep PROVE SensorsOK'
    OBVIOUS
  <1> USE DEF SensorsOK, sensed, smokeDetector, motionDetector, statusPoller
  <1>1. ASSUME SmokeFirst PROVE SensorsOK'
    BY <1>1, SensorsAssumption DEF SmokeFirst
  <1>2. ASSUME SmokeSecond PROVE SensorsOK'
    BY <1>2, SensorsAssumption DEF SmokeSecond
  <1>3. ASSUME MoveStart PROVE SensorsOK'
    BY <1>3 DEF MoveStart
  <1>4. ASSUME MoveEnd PROVE SensorsOK'
    BY <1>4 DEF MoveEnd
  <1>5. ASSUME PublishStatus PROVE SensorsOK'
    BY <1>5 DEF PublishStatus
  <1>6. ASSUME Sense PROVE SensorsOK'
    <2>1. sensorsLeft' \in SensorBounds
      <3>1. PICK s \in Sensed :
                /\ sensorsLeft.changes[s] > 0
                /\ sensorsLeft' = [sensorsLeft EXCEPT !.changes[s] = @ - 1]
        BY <1>6 DEF Sense
      <3>2. sensorsLeft.changes \in [Sensed -> Nat] /\ sensorsLeft.changes[s] - 1 \in Nat
        BY <3>1 DEF SensorBounds
      <3> QED
        BY <3>1, <3>2 DEF SensorBounds
    <2>2. {smoke', movement'} \subseteq BOOLEAN /\ lock' \in Statuses
      BY <1>6 DEF Sense
    <2> QED
      BY <1>6, <2>1, <2>2 DEF Sense
  <1>7. ASSUME SensorDies PROVE SensorsOK'
    BY <1>7 DEF SensorDies, SensorBounds
  <1>8. ASSUME SensorStarts PROVE SensorsOK'
    BY <1>8, SensorsAssumption DEF SensorStarts, SensorBounds
  <1> QED
    BY <1>1, <1>2, <1>3, <1>4, <1>5, <1>6, <1>7, <1>8 DEF SensorsStep, Polls

\* A notification that is written is one.
LEMMA PublishTyped ==
    ASSUME NotificationOK, NEW title \in Titles
    PROVE  /\ Publish(title) => NotificationOK' /\ notices' >= notices
           /\ \A p \in {"true", "false"} :
                 PublishUntimed(title, p) => NotificationOK' /\ notices' = notices
  BY DEF NotificationOK, Notices, Notice, Publish, PublishUntimed, Untimed

\* The count of knocks is at most two between the samples.
LEMMA FoundTyped == KnockerOK => Found \in 0 .. 2
  <1> SUFFICES ASSUME KnockerOK PROVE Found \in 0 .. 2
    OBVIOUS
  <1>1. KnockCount \in 0 .. 2
    BY DEF KnockerOK
  <1> QED
    BY <1>1 DEF Found

\* A recording is numbered by one more than those that there were.
LEMMA NumberTyped ==
    ASSUME RecorderOK, NEW v \in Visits, recorded[v] = 0
    PROVE  /\ IsFiniteSet(RecordedVisits) /\ v \notin RecordedVisits
           /\ Cardinality(RecordedVisits) \in Nat
           /\ 1 + Cardinality(RecordedVisits) \in 0 .. MaxVisits
  <1>1. MaxVisits \in Nat
    BY VisitAssumption
  <1>2. IsFiniteSet(1 .. MaxVisits) /\ Cardinality(1 .. MaxVisits) = MaxVisits
    <2>1. 1 \in Int /\ MaxVisits \in Int
      BY <1>1
    <2>2. IsFiniteSet(1 .. MaxVisits)
          /\ Cardinality(1 .. MaxVisits) = IF 1 > MaxVisits THEN 0 ELSE MaxVisits - 1 + 1
      BY <2>1, FS_Interval
    <2> QED
      BY <1>1, <2>2
  <1>3. v \in 1 .. MaxVisits
    BY DEF Visits
  <1>4. IsFiniteSet((1 .. MaxVisits) \ {v}) /\ Cardinality((1 .. MaxVisits) \ {v}) = MaxVisits - 1
    BY <1>2, <1>3, FS_RemoveElement
  <1>5. RecordedVisits \subseteq (1 .. MaxVisits) \ {v} /\ v \notin RecordedVisits
    BY DEF RecordedVisits, Visits
  <1>6. IsFiniteSet(RecordedVisits)
        /\ Cardinality(RecordedVisits) <= Cardinality((1 .. MaxVisits) \ {v})
    BY <1>4, <1>5, FS_Subset
  <1>7. Cardinality(RecordedVisits) \in Nat
    BY <1>6, FS_CardinalityType
  <1>8. Cardinality(RecordedVisits) <= MaxVisits - 1
    BY <1>4, <1>6
  <1>9. 1 + Cardinality(RecordedVisits) \in 0 .. MaxVisits
    BY <1>1, <1>7, <1>8
  <1> QED
    BY <1>5, <1>6, <1>7, <1>9

\* When the recorder ends, what is left of its sockets and commands is typed.
LEMMA RecorderGoneTyped ==
    ASSUME VisitOK, RecorderGone
    PROVE  /\ recorder' = "down" /\ downs' \in Nat
           /\ sock' \in [Visits -> SockStates] /\ job' \in [Visits -> Jobs]
  <1>1. downs \in Nat /\ sock \in [Visits -> SockStates]
    BY DEF VisitOK, KnockerOK, RecorderOK
  <1> QED
    BY <1>1 DEF RecorderGone, SockStates, Jobs

\* The knock detector's part of a visitor's step.
LEMMA KnockerTyped == VisitOK /\ InTurn /\ VisitStep => KnockerOK'
  <1> SUFFICES ASSUME VisitOK, InTurn, VisitStep PROVE KnockerOK'
    OBVIOUS
  <1>t. /\ KnockerOK /\ Found \in 0 .. 2 /\ MaxVisits \in Nat
        /\ knockpc \in {"sample", "welcome", "record", "dead"} /\ KnockCount \in 0 .. 2 /\ gap \in Gaps
        /\ visits \in 0 .. MaxVisits /\ sock \in [Visits -> SockStates]
    BY FoundTyped, VisitAssumption DEF VisitOK, KnockerOK
  <1>u. UNCHANGED <<knocker, sock>> => KnockerOK'
    BY <1>t DEF KnockerOK, knocker
  <1>s. ASSUME sock' \in [Visits -> SockStates], UNCHANGED knocker PROVE KnockerOK'
    BY <1>s, <1>t DEF KnockerOK, knocker
  <1>1. ASSUME Knock PROVE KnockerOK'
    <2>1. gap' \in Gaps /\ sock' = sock /\ knockpc' \in {"sample", "welcome", "record", "dead"}
      BY <1>1, <1>t DEF Knock, Gaps
    <2>2. CASE Found + 1 >= 3
      <3>1. KnockCount' = 0 /\ visits < MaxVisits /\ visits' = visits + 1
        BY <1>1, <2>2 DEF Knock
      <3> QED
        BY <1>t, <2>1, <3>1 DEF KnockerOK
    <2>3. CASE ~(Found + 1 >= 3)
      <3>1. KnockCount' = Found + 1 /\ visits' = visits
        BY <1>1, <2>3 DEF Knock
      <3> QED
        BY <1>t, <2>1, <2>3, <3>1 DEF KnockerOK
    <2> QED
      BY <2>2, <2>3
  <1>2. ASSUME Quiet \/ Pass \/ VisitEnds PROVE KnockerOK'
    BY <1>2, <1>t DEF KnockerOK, Quiet, Pass, VisitEnds, Gaps
  <1>3. ASSUME AskRecording PROVE KnockerOK'
    BY <1>3, <1>t DEF KnockerOK, AskRecording, SockStates
  <1>4. ASSUME NEW v \in Visits, Connect(v) \/ SocketError(v) PROVE KnockerOK'
    <2>1. knockpc' \in {"sample", "dead"} /\ UNCHANGED <<KnockCount, gap, visits>>
      BY <1>4 DEF Connect, Connected, SocketError
    <2>2. sock' = [sock EXCEPT ![v] = "open"] \/ sock' = sock
      BY <1>4 DEF Connect, Connected, SocketError
    <2>3. sock' \in [Visits -> SockStates]
      BY <1>t, <2>2 DEF SockStates
    <2> QED
      BY <1>t, <2>1, <2>3 DEF KnockerOK
  <1>5. ASSUME NEW v \in Visits,
               StartRecord(v) \/ ReadFile(v) \/ Recognised(v) \/ OpenDoor(v) \/ OpenEnds(v)
        PROVE  KnockerOK'
    <2>1. UNCHANGED knocker
      BY <1>5 DEF StartRecord, ReadFile, Recognised, OpenDoor, OpenEnds
    <2>2. sock' = sock \/ RecorderGone
      BY <1>5 DEF StartRecord, ReadFile, Recognised, OpenDoor, OpenEnds
    <2> QED
      BY <1>s, <1>t, <2>1, <2>2, RecorderGoneTyped
  <1>6. ASSUME ServiceDies \/ ServiceStarts PROVE KnockerOK'
    <2>1. UNCHANGED knocker /\ (sock' = sock \/ RecorderGone)
      BY <1>6 DEF ServiceDies, ServiceStarts, MotorGone
    <2> QED
      BY <1>s, <1>t, <2>1, RecorderGoneTyped
  <1> QED
    BY <1>1, <1>2, <1>3, <1>4, <1>5, <1>6 DEF VisitStep, KnockerRuns, RecorderRuns

\* The recorder's part of a visitor's step.
LEMMA RecorderTyped == VisitOK /\ InTurn /\ VisitStep => RecorderOK'
  <1> SUFFICES ASSUME VisitOK, InTurn, VisitStep PROVE RecorderOK'
    OBVIOUS
  <1>t. /\ recorder \in {"up", "down"} /\ motor \in {"up", "down"} /\ job \in [Visits -> Jobs]
        /\ recorded \in [Visits -> 0 .. MaxVisits] /\ heard \in [Visits -> 0 .. MaxVisits]
        /\ file \in 0 .. MaxVisits /\ said \in [Visits -> {"OPEN SESAME", "a message"}]
        /\ opens \in Nat /\ downs \in Nat
    BY DEF VisitOK, RecorderOK
  <1>u. ASSUME recorder' \in {"up", "down"}, motor' \in {"up", "down"}, job' \in [Visits -> Jobs],
               opens' \in Nat, downs' \in Nat, UNCHANGED <<recorded, heard, file, said>>
        PROVE  RecorderOK'
    BY <1>t, <1>u DEF RecorderOK
  <1>1. ASSUME Knock \/ Quiet \/ Pass \/ AskRecording \/ VisitEnds PROVE RecorderOK'
    <2>1. UNCHANGED <<recording, motor, downs>>
      BY <1>1 DEF Knock, Quiet, Pass, AskRecording, VisitEnds
    <2> QED
      BY <1>t, <1>u, <2>1 DEF recording
  <1>2. ASSUME NEW v \in Visits, Connect(v) \/ SocketError(v) PROVE RecorderOK'
    <2>1. UNCHANGED <<recorder, recorded, file, heard, said, opens, motor, downs>>
      BY <1>2 DEF Connect, SocketError, recording
    <2>2. job' = [job EXCEPT ![v] = "unread"] \/ job' = job
      BY <1>2 DEF Connect, Connected, SocketError, recording
    <2>3. job' \in [Visits -> Jobs]
      BY <1>t, <2>2 DEF Jobs
    <2> QED
      BY <1>t, <1>u, <2>1, <2>3
  <1>3. ASSUME NEW v \in Visits, StartRecord(v) PROVE RecorderOK'
    <2>1. recorded[v] = 0
      BY <1>3 DEF StartRecord, InTurn
    <2>2. 1 + Cardinality(RecordedVisits) \in 0 .. MaxVisits
      BY <2>1, NumberTyped DEF VisitOK
    <2>3. /\ recorded' = [recorded EXCEPT ![v] = 1 + Cardinality(RecordedVisits)]
          /\ job' = [job EXCEPT ![v] = "recorded"] /\ file' = v
          /\ UNCHANGED <<recorder, heard, said, opens, motor, downs>>
      BY <1>3 DEF StartRecord, Written, RecordedVisits
    <2>4. recorded' \in [Visits -> 0 .. MaxVisits]
      BY <1>t, <2>2, <2>3
    <2>5. job' \in [Visits -> Jobs]
      BY <1>t, <2>3 DEF Jobs
    <2>6. file' \in 0 .. MaxVisits
      BY <2>3, VisitAssumption DEF Visits
    <2> QED
      BY <1>t, <2>3, <2>4, <2>5, <2>6 DEF RecorderOK
  <1>4. ASSUME NEW v \in Visits, ReadFile(v) PROVE RecorderOK'
    <2>1. /\ heard' = [heard EXCEPT ![v] = file] /\ job' = [job EXCEPT ![v] = "asked"]
          /\ UNCHANGED <<recorder, recorded, file, said, opens, motor, downs>>
      BY <1>4 DEF ReadFile
    <2>2. heard' \in [Visits -> 0 .. MaxVisits]
      BY <1>t, <2>1
    <2>3. job' \in [Visits -> Jobs]
      BY <1>t, <2>1 DEF Jobs
    <2> QED
      BY <1>t, <2>1, <2>2, <2>3 DEF RecorderOK
  <1>5. ASSUME NEW v \in Visits, Recognised(v) PROVE RecorderOK'
    <2>1. /\ job' = [job EXCEPT ![v] = "over"] \/ job' = [job EXCEPT ![v] = "opening"]
          /\ UNCHANGED <<recorder, recorded, file, heard, said, opens, motor, downs>>
      BY <1>5 DEF Recognised
    <2>2. job' \in [Visits -> Jobs]
      BY <1>t, <2>1 DEF Jobs
    <2> QED
      BY <1>t, <1>u, <2>1, <2>2
  <1>6. ASSUME NEW v \in Visits, OpenDoor(v) \/ OpenEnds(v) PROVE RecorderOK'
    <2>1. /\ UNCHANGED <<recorded, heard, file, said, motor>>
          /\ opens' = opens + 1 \/ opens' = opens
      BY <1>6 DEF OpenDoor, OpenEnds
    <2>2. \/ RecorderGone
          \/ /\ job' = [job EXCEPT ![v] = "opened"] \/ job' = [job EXCEPT ![v] = "over"]
             /\ UNCHANGED <<recorder, downs>>
      BY <1>6 DEF OpenDoor, OpenEnds
    <2>3. recorder' \in {"up", "down"} /\ downs' \in Nat /\ job' \in [Visits -> Jobs]
      <3>1. CASE RecorderGone
        BY <3>1, RecorderGoneTyped
      <3>2. CASE ~RecorderGone
        BY <1>t, <2>2, <3>2 DEF Jobs
      <3> QED
        BY <3>1, <3>2
    <2>4. opens' \in Nat
      <3>1. opens \in Nat
        BY <1>t
      <3> QED
        BY <2>1, <3>1
    <2> QED
      BY <1>t, <1>u, <2>1, <2>3, <2>4
  <1>7. ASSUME ServiceDies PROVE RecorderOK'
    <2>1. UNCHANGED <<recorded, heard, file, said, opens>>
      BY <1>7 DEF ServiceDies
    <2>2. CASE RecorderGone /\ UNCHANGED motor
      BY <1>t, <1>u, <2>1, <2>2, RecorderGoneTyped
    <2>3. CASE MotorGone
      <3>1. PICK end \in {"over", "broken"} :
                job' = [v \in Visits |-> IF job[v] = "opened" THEN end ELSE job[v]]
        BY <2>3 DEF MotorGone
      <3>2. job' \in [Visits -> Jobs]
        BY <1>t, <3>1 DEF Jobs
      <3>3. motor' = "down" /\ downs' = downs + 1 /\ recorder' = recorder
        BY <2>3 DEF MotorGone
      <3>4. downs \in Nat /\ opens \in Nat /\ recorder \in {"up", "down"}
        BY <1>t
      <3>5. downs' \in Nat /\ opens' \in Nat
        BY <2>1, <3>3, <3>4
      <3> QED
        BY <1>u, <2>1, <3>2, <3>3, <3>4, <3>5
    <2> QED
      BY <1>7, <2>2, <2>3 DEF ServiceDies
  <1>8. ASSUME ServiceStarts PROVE RecorderOK'
    <2>1. /\ UNCHANGED <<job, recorded, heard, file, said, opens, downs>>
          /\ recorder' \in {"up", recorder} /\ motor' \in {"up", motor}
      BY <1>8 DEF ServiceStarts
    <2> QED
      BY <1>t, <1>u, <2>1
  <1> QED
    BY <1>1, <1>2, <1>3, <1>4, <1>5, <1>6, <1>7, <1>8 DEF VisitStep, KnockerRuns, RecorderRuns

\* The bounds and the notification in a visitor's step.
LEMMA VisitNotifies ==
    VisitOK /\ NotificationOK /\ VisitStep
      => visitsLeft' \in VisitBounds /\ NotificationOK' /\ notices' >= notices
  <1> SUFFICES ASSUME VisitOK, NotificationOK, VisitStep
               PROVE  visitsLeft' \in VisitBounds /\ NotificationOK' /\ notices' >= notices
    OBVIOUS
  <1>t. visitsLeft \in VisitBounds /\ notices \in Nat
    BY DEF VisitOK, NotificationOK
  <1>u. UNCHANGED <<notification, notices>> => NotificationOK' /\ notices' >= notices
    BY <1>t DEF NotificationOK
  <1>p. /\ Publish("Knock Knock") => NotificationOK' /\ notices' >= notices
        /\ Publish("Someone recorded a message") => NotificationOK' /\ notices' >= notices
    <2>1. {"Knock Knock", "Someone recorded a message"} \subseteq Titles
      BY DEF Titles
    <2> QED
      BY <2>1, PublishTyped
  <1>1. ASSUME Knock PROVE visitsLeft' \in VisitBounds /\ NotificationOK' /\ notices' >= notices
    <2>1. visitsLeft' \in VisitBounds
      <3>1. visitsLeft.knocks \in Nat /\ visitsLeft.knocks > 0
        BY <1>1, <1>t DEF Knock, VisitBounds
      <3>2. visitsLeft.knocks - 1 \in Nat
        BY <3>1
      <3>3. visitsLeft' = [visitsLeft EXCEPT !.knocks = visitsLeft.knocks - 1]
        BY <1>1 DEF Knock
      <3> QED
        BY <1>t, <3>2, <3>3 DEF VisitBounds
    <2>2. Publish("Knock Knock") \/ UNCHANGED <<notification, notices>>
      BY <1>1 DEF Knock
    <2> QED
      BY <1>u, <1>p, <2>1, <2>2
  <1>2. ASSUME ServiceDies PROVE visitsLeft' \in VisitBounds /\ NotificationOK' /\ notices' >= notices
    <2>1. visitsLeft' \in VisitBounds
      BY <1>2, <1>t DEF ServiceDies, VisitBounds
    <2> QED
      BY <1>2, <1>u, <2>1 DEF ServiceDies
  <1>3. ASSUME KnockerRuns \/ ServiceStarts
        PROVE  visitsLeft' \in VisitBounds /\ NotificationOK' /\ notices' >= notices
    <2>1. UNCHANGED <<visitsLeft, notification, notices>>
      BY <1>3 DEF KnockerRuns, ServiceStarts, Quiet, Pass, AskRecording, VisitEnds, Connect, SocketError
    <2> QED
      BY <1>t, <1>u, <2>1
  <1>4. ASSUME NEW v \in Visits,
               StartRecord(v) \/ ReadFile(v) \/ Recognised(v) \/ OpenDoor(v) \/ OpenEnds(v)
        PROVE  visitsLeft' \in VisitBounds /\ NotificationOK' /\ notices' >= notices
    <2>1. /\ UNCHANGED visitsLeft
          /\ Publish("Someone recorded a message") \/ UNCHANGED <<notification, notices>>
      BY <1>4 DEF StartRecord, ReadFile, Recognised, OpenDoor, OpenEnds
    <2> QED
      BY <1>t, <1>u, <1>p, <2>1
  <1> QED
    BY <1>1, <1>2, <1>3, <1>4 DEF VisitStep, RecorderRuns

\* A visitor's step keeps the types.
LEMMA VisitTyped ==
    VisitOK /\ NotificationOK /\ InTurn /\ VisitStep
      => VisitOK' /\ NotificationOK' /\ notices' >= notices
  BY KnockerTyped, RecorderTyped, VisitNotifies DEF VisitOK

\* What a poll makes of the page.
LEMMA PollTyped ==
    ASSUME PageOK
    PROVE  /\ PopupOf(status.notification) \in {"true", "false"}
           /\ Title(PopupOf(status.notification)) \in Titles \cup {DontForget}
           /\ Button \in {"Open", "Lock", "Unlock"} \cup Progress
  BY DEF PageOK, Notices, PopupOf, Title, Button

\* A step of the page, or one of its reader, keeps its types.
LEMMA PageTyped ==
    ASSUME PageOK, NotificationOK, SensorsOK,
           Receive(Server) \/ Poll \/ Age \/ Close \/ Load,
           notices' = notices
    PROVE  PageOK'
  <1>t. /\ page \in Pages /\ aged \in 0 .. notices /\ watched \in BOOLEAN /\ viewsLeft \in Nat
        /\ status.notification \in Notices /\ status.move \in {"true", "false"}
    BY DEF PageOK
  <1>1. ASSUME Receive(Server) PROVE PageOK'
    <2>1. status'.notification = notification /\ status'.move = move
      BY <1>1 DEF Receive, Server, Fields
    <2>2. notification \in Notices /\ move \in {"true", "false"}
      BY DEF NotificationOK, SensorsOK
    <2> QED
      BY <1>1, <1>t, <2>1, <2>2 DEF Receive, PageOK
  <1>2. ASSUME Poll PROVE PageOK'
    <2> DEFINE p == PopupOf(status.notification)
    <2>1. p \in {"true", "false"} /\ Title(p) \in Titles \cup {DontForget}
          /\ Button \in {"Open", "Lock", "Unlock"} \cup Progress
      BY PollTyped
    <2>2. page.showModal \in BOOLEAN /\ page.modaltitle \in Titles \cup {DontForget}
      BY <1>t DEF Pages
    <2>3. page' =
             [popup |-> p, move |-> status.move,
              showModal |-> IF Touched(p) THEN "true" \in {status.move, p} ELSE page.showModal,
              modaltitle |-> IF Touched(p) THEN Title(p) ELSE page.modaltitle,
              doorbutton |-> Button,
              doorbuttondisabled |-> status.doorstatus \in Progress,
              smokedetect |-> IF status.smokedetect = "Detected" THEN "Detected" ELSE "Clean"]
      BY <1>2 DEF Poll
    <2> HIDE DEF p
    <2>4. (IF Touched(p) THEN "true" \in {status.move, p} ELSE page.showModal) \in BOOLEAN
      <3>1. ("true" \in {status.move, p}) \in BOOLEAN
        OBVIOUS
      <3> QED
        BY <2>2, <3>1, Zenon
    <2>5. (IF Touched(p) THEN Title(p) ELSE page.modaltitle) \in Titles \cup {DontForget}
      BY <2>1, <2>2
    <2>6. (status.doorstatus \in Progress) \in BOOLEAN
      OBVIOUS
    <2>7. (IF status.smokedetect = "Detected" THEN "Detected" ELSE "Clean") \in {"Clean", "Detected"}
      OBVIOUS
    <2>8. page' \in Pages
      BY <1>t, <2>1, <2>3, <2>4, <2>5, <2>6, <2>7 DEF Pages
    <2> QED
      BY <1>2, <1>t, <2>8 DEF Poll, PageOK
  <1>3. ASSUME Age PROVE PageOK'
    BY <1>3, <1>t DEF Age, NotificationOK, PageOK
  <1>4. ASSUME Close PROVE PageOK'
    <2>1. page' \in Pages
      BY <1>4, <1>t DEF Close, Pages
    <2>2. viewsLeft' \in Nat
      <3>1. viewsLeft \in Nat /\ viewsLeft > 0 /\ viewsLeft' = viewsLeft - 1
        BY <1>4, <1>t DEF Close
      <3> QED
        BY <3>1
    <2> QED
      BY <1>4, <1>t, <2>1, <2>2 DEF Close, PageOK
  <1>5. ASSUME Load PROVE PageOK'
    <2>1. page' \in Pages
      BY <1>5 DEF Load, Mounted, Pages, Titles
    <2>2. status'.notification \in Notices /\ status'.move \in {"true", "false"}
      BY <1>5 DEF Load, Unknown, Fields, Notice, Notices, Untimed, Titles
    <2>3. viewsLeft' \in Nat
      <3>1. viewsLeft \in Nat /\ viewsLeft > 0 /\ viewsLeft' = viewsLeft - 1
        BY <1>5, <1>t DEF Load
      <3> QED
        BY <3>1
    <2> QED
      BY <1>5, <1>t, <2>1, <2>2, <2>3 DEF Load, PageOK
  <1> QED
    BY <1>1, <1>2, <1>3, <1>4, <1>5

\* The other writers write notifications, and count what they may still do.
LEMMA WritersTyped ==
    ASSUME WritersOK, NotificationOK, SensorsOK,
           Warn \/ Unwarn \/ DetectorDies \/ Emergency \/ MotorMoves \/ MotorStops
    PROVE  WritersOK' /\ NotificationOK' /\ notices' >= notices
  <1>t. /\ doorstatus \in Progress \cup Statuses \cup {""} /\ alert \in Notices
        /\ writesLeft \in [alerts : Nat, emergencies : Nat, moves : Nat]
        /\ notices \in Nat /\ lock \in Statuses
    BY DEF WritersOK, NotificationOK, SensorsOK
  <1>m. notices \in Nat /\ notices >= notices
    <2>1. notices \in Nat
      BY <1>t
    <2> QED
      BY <2>1
  <1>u. UNCHANGED <<notification, notices>> => NotificationOK' /\ notices' >= notices
    BY <1>m DEF NotificationOK
  <1>w. /\ writesLeft.alerts > 0 =>
              [writesLeft EXCEPT !.alerts = @ - 1] \in [alerts : Nat, emergencies : Nat, moves : Nat]
        /\ writesLeft.emergencies > 0 =>
              [writesLeft EXCEPT !.emergencies = @ - 1] \in [alerts : Nat, emergencies : Nat, moves : Nat]
        /\ writesLeft.moves > 0 =>
              [writesLeft EXCEPT !.moves = @ - 1] \in [alerts : Nat, emergencies : Nat, moves : Nat]
    <2>1. /\ writesLeft.alerts \in Nat /\ writesLeft.emergencies \in Nat /\ writesLeft.moves \in Nat
          /\ writesLeft \in [alerts : Nat, emergencies : Nat, moves : Nat]
      BY <1>t
    <2>2. \A n \in Nat : n > 0 => n - 1 \in Nat
      OBVIOUS
    <2> QED
      BY <2>1, <2>2
  <1>n. {"Thief Alert", "Emergency!!!", ""} \subseteq Titles
    BY DEF Titles
  <1>1. ASSUME Warn PROVE WritersOK' /\ NotificationOK' /\ notices' >= notices
    <2>1. NotificationOK' /\ notices' >= notices
      BY <1>1, <1>n, PublishTyped DEF Warn
    <2>2. alert' \in Notices /\ doorstatus' = doorstatus
      BY <1>1, <2>1 DEF Warn, NotificationOK
    <2>3. writesLeft' \in [alerts : Nat, emergencies : Nat, moves : Nat]
      BY <1>1, <1>w DEF Warn
    <2> QED
      BY <1>t, <2>1, <2>2, <2>3 DEF WritersOK
  <1>2. ASSUME Unwarn PROVE WritersOK' /\ NotificationOK' /\ notices' >= notices
    <2>1. NoAlert \in Notices
      BY <1>n DEF NoAlert, Notice, Notices, Untimed
    <2>2. notification' \in Notices /\ notices' = notices
      BY <1>2, <1>t DEF Unwarn, Notices
    <2>3. alert' \in Notices /\ UNCHANGED <<doorstatus, writesLeft>>
      BY <1>2, <2>1 DEF Unwarn
    <2>4. notices' \in Nat /\ notices' >= notices
      BY <1>m, <2>2
    <2> QED
      BY <1>t, <2>2, <2>3, <2>4 DEF WritersOK, NotificationOK
  <1>3. ASSUME Emergency PROVE WritersOK' /\ NotificationOK' /\ notices' >= notices
    <2>1. PublishUntimed("Emergency!!!", "true") \/ PublishUntimed("", "false")
      BY <1>3 DEF Emergency
    <2>2. NotificationOK' /\ notices' = notices
      BY <1>n, <2>1, PublishTyped
    <2>3. writesLeft' \in [alerts : Nat, emergencies : Nat, moves : Nat]
      BY <1>3, <1>w DEF Emergency
    <2>4. notices' >= notices
      BY <1>m, <2>2
    <2> QED
      BY <1>3, <1>t, <2>2, <2>3, <2>4 DEF WritersOK, Emergency
  <1>4. ASSUME MotorMoves PROVE WritersOK' /\ NotificationOK' /\ notices' >= notices
    <2>1. writesLeft' \in [alerts : Nat, emergencies : Nat, moves : Nat]
      BY <1>4, <1>w DEF MotorMoves
    <2>2. doorstatus' \in Progress /\ UNCHANGED <<alert, notification, notices>>
      BY <1>4 DEF MotorMoves, slot
    <2> QED
      BY <1>t, <1>u, <2>1, <2>2 DEF WritersOK
  <1>5. ASSUME MotorStops PROVE WritersOK' /\ NotificationOK' /\ notices' >= notices
    BY <1>5, <1>t, <1>u DEF MotorStops, WritersOK, slot
  <1>6. ASSUME DetectorDies PROVE WritersOK' /\ NotificationOK' /\ notices' >= notices
    <2>1. NoAlert \in Notices
      BY <1>n DEF NoAlert, Notice, Notices, Untimed
    <2>2. alert' = NoAlert /\ UNCHANGED <<notification, notices, doorstatus, writesLeft>>
      BY <1>6 DEF DetectorDies, slot
    <2> QED
      BY <1>t, <1>u, <2>1, <2>2 DEF WritersOK
  <1> QED
    BY <1>1, <1>2, <1>3, <1>4, <1>5, <1>6

-----------------------------------------------------------------------------
\* The steps of the house, and what each of them leaves alone.
LEMMA HouseStep ==
    ASSUME [HouseNext]_house
    PROVE  \/ SensorsStep /\ UNCHANGED <<visiting, viewing, slot, writers>>
           \/ VisitStep /\ UNCHANGED <<sensors, viewing, writers>>
           \/ /\ Receive(Server) \/ Poll \/ Age \/ Close \/ Load
              /\ UNCHANGED <<sensors, visiting, slot, writers>>
           \/ /\ Warn \/ Unwarn \/ DetectorDies \/ Emergency \/ MotorMoves \/ MotorStops
              /\ UNCHANGED <<sensors, visiting, viewing>>
           \/ UNCHANGED house
  BY DEF HouseNext, SensorsAct, VisitAct, PageAct, PageStep, Warn, Unwarn, DetectorDies, Emergency, MotorMoves, MotorStops

\* The types depend on the variables of their own part only.
LEMMA TypesAlone ==
    /\ SensorsOK /\ UNCHANGED sensors => SensorsOK'
    /\ VisitOK /\ UNCHANGED visiting => VisitOK'
    /\ PageOK /\ UNCHANGED viewing /\ NotificationOK /\ NotificationOK' /\ notices' >= notices => PageOK'
    /\ NotificationOK /\ UNCHANGED slot => NotificationOK' /\ notices' >= notices
    /\ WritersOK /\ UNCHANGED writers => WritersOK'
  <1>1. SensorsOK /\ UNCHANGED sensors => SensorsOK'
    BY DEF SensorsOK, sensors, sensed, smokeDetector, motionDetector, statusPoller
  <1>2. VisitOK /\ UNCHANGED visiting => VisitOK'
    BY DEF VisitOK, KnockerOK, RecorderOK, visiting, knocker, recording
  <1>3. PageOK /\ UNCHANGED viewing /\ NotificationOK /\ NotificationOK' /\ notices' >= notices => PageOK'
    BY DEF PageOK, viewing, NotificationOK
  <1>4. NotificationOK /\ UNCHANGED slot => NotificationOK' /\ notices' >= notices
    BY DEF NotificationOK, slot
  <1>5. WritersOK /\ UNCHANGED writers => WritersOK'
    BY DEF WritersOK, writers
  <1> QED
    BY <1>1, <1>2, <1>3, <1>4, <1>5

\* Every step keeps the types, given what a visit can have.
LEMMA TypeStep == HouseTypeOK /\ InTurn /\ [HouseNext]_house => HouseTypeOK'
  <1> SUFFICES ASSUME HouseTypeOK, InTurn, [HouseNext]_house PROVE HouseTypeOK'
    OBVIOUS
  <1>t. SensorsOK /\ VisitOK /\ PageOK /\ NotificationOK /\ WritersOK
    BY DEF HouseTypeOK
  <1>1. CASE SensorsStep /\ UNCHANGED <<visiting, viewing, slot, writers>>
    <2>1. UNCHANGED visiting /\ UNCHANGED viewing /\ UNCHANGED slot /\ UNCHANGED writers
      BY <1>1
    <2> QED
      BY <1>1, <1>t, <2>1, SensorsTyped, TypesAlone DEF HouseTypeOK
  <1>2. CASE VisitStep /\ UNCHANGED <<sensors, viewing, writers>>
    <2>1. UNCHANGED sensors /\ UNCHANGED viewing /\ UNCHANGED writers
      BY <1>2
    <2> QED
      BY <1>2, <1>t, <2>1, VisitTyped, TypesAlone DEF HouseTypeOK
  <1>3. CASE /\ Receive(Server) \/ Poll \/ Age \/ Close \/ Load
             /\ UNCHANGED <<sensors, visiting, slot, writers>>
    <2>1. UNCHANGED sensors /\ UNCHANGED visiting /\ UNCHANGED slot /\ UNCHANGED writers
      BY <1>3
    <2>2. notices' = notices
      BY <2>1 DEF slot
    <2> QED
      BY <1>3, <1>t, <2>1, <2>2, PageTyped, TypesAlone DEF HouseTypeOK
  <1>4. CASE /\ Warn \/ Unwarn \/ DetectorDies \/ Emergency \/ MotorMoves \/ MotorStops
             /\ UNCHANGED <<sensors, visiting, viewing>>
    <2>1. UNCHANGED sensors /\ UNCHANGED visiting /\ UNCHANGED viewing
      BY <1>4
    <2> QED
      BY <1>4, <1>t, <2>1, WritersTyped, TypesAlone DEF HouseTypeOK
  <1>5. CASE UNCHANGED house
    <2>1. UNCHANGED sensors /\ UNCHANGED visiting /\ UNCHANGED viewing /\ UNCHANGED slot /\ UNCHANGED writers
      BY <1>5 DEF house
    <2> QED
      BY <1>t, <2>1, TypesAlone DEF HouseTypeOK
  <1> QED
    BY <1>1, <1>2, <1>3, <1>4, <1>5, HouseStep

-----------------------------------------------------------------------------
\* What is known of the visits depends on the visits only.
LEMMA VisitsAlone ==
    ASSUME UNCHANGED visiting
    PROVE  /\ DeathsCounted => DeathsCounted'
           /\ KnockerLives => KnockerLives'
           /\ InTurn => InTurn'
           /\ Newest => Newest'
           /\ NotOlder => NotOlder'
  BY DEF visiting, knocker, recording, DeathsCounted, KnockerLives, InTurn, Newest, NotOlder, RecordedVisits

\* Nothing resets a socket, takes the recorder down or ends the detector but
\* a death, which is counted.
LEMMA DeathsCountedStep ==
    ASSUME VisitOK, DeathsCounted, KnockerLives, VisitStep
    PROVE  DeathsCounted' /\ KnockerLives'
  <1>t. /\ downs \in Nat /\ downs + 1 > 0 /\ sock \in [Visits -> SockStates]
        /\ recorder \in {"up", "down"}
    <2>1. /\ downs \in Nat /\ sock \in [Visits -> SockStates] /\ recorder \in {"up", "down"}
      BY DEF VisitOK, KnockerOK, RecorderOK
    <2>2. downs + 1 > 0
      BY <2>1
    <2> QED
      BY <2>1, <2>2
  <1>u. ASSUME downs' > 0 PROVE DeathsCounted' /\ KnockerLives'
    BY <1>u DEF DeathsCounted, KnockerLives
  <1>g. RecorderGone \/ MotorGone => downs' > 0
    BY <1>t DEF RecorderGone, MotorGone
  <1>1. ASSUME Knock \/ Quiet \/ Pass \/ VisitEnds PROVE DeathsCounted' /\ KnockerLives'
    <2>1. UNCHANGED <<sock, recorder, downs>> /\ (knockpc' = "dead" => knockpc = "dead")
      BY <1>1 DEF Knock, Quiet, Pass, VisitEnds, recording
    <2> QED
      BY <2>1 DEF DeathsCounted, KnockerLives
  <1>2. ASSUME AskRecording PROVE DeathsCounted' /\ KnockerLives'
    <2>1. UNCHANGED <<recorder, downs>> /\ knockpc' = "record"
          /\ sock' = [sock EXCEPT ![visits] = "connecting"]
      BY <1>2 DEF AskRecording, recording
    <2>2. \A v \in Visits : sock'[v] = "reset" => sock[v] = "reset"
      BY <1>t, <2>1
    <2> QED
      BY <2>1, <2>2 DEF DeathsCounted, KnockerLives
  <1>3. ASSUME NEW v \in Visits, Connect(v) PROVE DeathsCounted' /\ KnockerLives'
    <2>1. UNCHANGED <<recorder, downs>>
      BY <1>3 DEF Connect
    <2>2. CASE recorder = "up"
      <3>1. knockpc' = "sample" /\ sock' = [sock EXCEPT ![v] = "open"]
        BY <1>3, <2>2 DEF Connect, Connected
      <3>2. \A w \in Visits : sock'[w] = "reset" => sock[w] = "reset"
        BY <1>t, <3>1
      <3> QED
        BY <2>1, <3>1, <3>2 DEF DeathsCounted, KnockerLives
    <2>3. CASE recorder = "down"
      BY <1>u, <2>1, <2>3 DEF DeathsCounted
    <2> QED
      BY <1>t, <2>2, <2>3
  <1>4. ASSUME NEW v \in Visits, SocketError(v) PROVE DeathsCounted' /\ KnockerLives'
    <2>1. downs' = downs /\ downs > 0
      BY <1>4 DEF SocketError, DeathsCounted
    <2> QED
      BY <1>u, <2>1
  <1>5. ASSUME NEW v \in Visits, StartRecord(v) \/ ReadFile(v) \/ Recognised(v)
        PROVE  DeathsCounted' /\ KnockerLives'
    <2>1. UNCHANGED <<knockpc, sock, recorder, downs>>
      BY <1>5 DEF StartRecord, ReadFile, Recognised, knocker
    <2> QED
      BY <2>1 DEF DeathsCounted, KnockerLives
  <1>6. ASSUME NEW v \in Visits, OpenDoor(v) \/ OpenEnds(v) PROVE DeathsCounted' /\ KnockerLives'
    <2>1. RecorderGone \/ UNCHANGED <<knockpc, sock, recorder, downs>>
      BY <1>6 DEF OpenDoor, OpenEnds, knocker
    <2>2. CASE RecorderGone
      BY <1>u, <1>g, <2>2
    <2>3. CASE UNCHANGED <<knockpc, sock, recorder, downs>>
      BY <2>3 DEF DeathsCounted, KnockerLives
    <2> QED
      BY <2>1, <2>2, <2>3
  <1>7. ASSUME ServiceDies PROVE DeathsCounted' /\ KnockerLives'
    BY <1>7, <1>u, <1>g DEF ServiceDies
  <1>8. ASSUME ServiceStarts PROVE DeathsCounted' /\ KnockerLives'
    <2>1. UNCHANGED <<knockpc, sock, downs>> /\ (recorder' = "down" => recorder = "down")
      BY <1>8 DEF ServiceStarts, knocker
    <2> QED
      BY <2>1 DEF DeathsCounted, KnockerLives
  <1> QED
    BY <1>1, <1>2, <1>3, <1>4, <1>5, <1>6, <1>7, <1>8 DEF VisitStep, KnockerRuns, RecorderRuns

\* A visit's socket, command and recordings come in turn.
LEMMA InTurnStep ==
    ASSUME VisitOK, InTurn, VisitStep
    PROVE  InTurn'
  <1>t. /\ visits \in 0 .. MaxVisits /\ MaxVisits \in Nat /\ sock \in [Visits -> SockStates]
        /\ job \in [Visits -> Jobs] /\ file \in 0 .. MaxVisits
        /\ recorded \in [Visits -> 0 .. MaxVisits] /\ heard \in [Visits -> 0 .. MaxVisits]
    BY VisitAssumption DEF VisitOK, KnockerOK, RecorderOK
  <1>k. ASSUME UNCHANGED <<knockpc, visits>>,
               \A v \in Visits : /\ sock[v] = "none" => sock'[v] = "none"
                                 /\ sock'[v] \in {"none", "connecting"} => job'[v] = "none"
                                 /\ job'[v] \in {"none", "unread"} => recorded'[v] = 0 /\ heard'[v] = 0
                                 /\ job'[v] = "recorded" => file' # 0 /\ heard'[v] = 0
        PROVE  InTurn'
    <2>1. knockpc = "welcome" => visits > 0 /\ sock[visits] = "none" /\ visits \in Visits
      BY <1>t DEF InTurn, Visits
    <2>0. knockpc' = knockpc /\ visits' = visits
      BY <1>k
    <2>2. \A v \in Visits : visits' < v => sock'[v] = "none"
      BY <1>k, <2>0 DEF InTurn
    <2>3. knockpc' = "welcome" => visits' > 0 /\ sock'[visits'] = "none"
      BY <1>k, <2>1
    <2> QED
      BY <1>k, <2>2, <2>3 DEF InTurn
  <1>1. ASSUME Quiet \/ Pass \/ VisitEnds PROVE InTurn'
    <2>1. UNCHANGED <<visits, sock, job, recorded, heard, file>>
          /\ (knockpc' = "welcome" => knockpc = "welcome")
      BY <1>1 DEF Quiet, Pass, VisitEnds, recording
    <2> QED
      BY <2>1 DEF InTurn
  <1>2. ASSUME Knock PROVE InTurn'
    <2>1. UNCHANGED <<sock, job, recorded, heard, file>>
      BY <1>2 DEF Knock, recording
    <2>2. \/ knockpc' = "welcome" /\ visits' = visits + 1 /\ visits < MaxVisits
          \/ UNCHANGED <<knockpc, visits>>
      BY <1>2 DEF Knock
    <2>3. CASE knockpc' = "welcome" /\ visits' = visits + 1 /\ visits < MaxVisits
      <3>1. visits' \in Visits /\ visits < visits' /\ visits' > 0
            /\ \A v \in Visits : visits' < v => visits < v
        BY <1>t, <2>3 DEF Visits
      <3> QED
        BY <2>1, <3>1 DEF InTurn
    <2>4. CASE UNCHANGED <<knockpc, visits>>
      BY <2>1, <2>4 DEF InTurn
    <2> QED
      BY <2>2, <2>3, <2>4
  <1>3. ASSUME AskRecording PROVE InTurn'
    <2>1. /\ knockpc = "welcome" /\ knockpc' = "record" /\ sock' = [sock EXCEPT ![visits] = "connecting"]
          /\ UNCHANGED <<visits, job, recorded, heard, file>>
      BY <1>3 DEF AskRecording, recording
    <2>2. visits \in Visits /\ sock[visits] = "none" /\ ~(visits < visits)
      BY <1>t, <2>1 DEF InTurn, Visits
    <2>3. job[visits] = "none"
      BY <2>2 DEF InTurn
    <2>4. \A v \in Visits : v # visits => sock'[v] = sock[v]
      BY <1>t, <2>1
    <2> QED
      BY <1>t, <2>1, <2>2, <2>3, <2>4 DEF InTurn
  <1>4. ASSUME NEW v \in Visits, Connect(v) \/ SocketError(v) PROVE InTurn'
    <2>1. /\ UNCHANGED <<visits, recorded, heard, file>> /\ knockpc' \in {"sample", "dead"}
          /\ \/ /\ sock[v] = "connecting"
                /\ sock' = [sock EXCEPT ![v] = "open"] /\ job' = [job EXCEPT ![v] = "unread"]
             \/ UNCHANGED <<sock, job>>
      BY <1>4 DEF Connect, Connected, SocketError, recording
    <2>2. CASE UNCHANGED <<sock, job>>
      BY <2>1, <2>2 DEF InTurn
    <2>3. CASE /\ sock[v] = "connecting"
               /\ sock' = [sock EXCEPT ![v] = "open"] /\ job' = [job EXCEPT ![v] = "unread"]
      <3>1. job[v] = "none" /\ recorded[v] = 0 /\ heard[v] = 0 /\ ~(visits < v)
        BY <2>3 DEF InTurn
      <3>2. sock'[v] = "open" /\ job'[v] = "unread"
        BY <1>t, <2>3
      <3>3. \A w \in Visits \ {v} : sock'[w] = sock[w] /\ job'[w] = job[w]
        BY <1>t, <2>3
      <3> QED
        BY <2>1, <3>1, <3>2, <3>3 DEF InTurn
    <2> QED
      BY <2>1, <2>2, <2>3
  <1>5. ASSUME NEW v \in Visits, StartRecord(v) PROVE InTurn'
    <2>1. /\ UNCHANGED <<knockpc, visits, sock, heard>> /\ job[v] = "unread" /\ file' = v
          /\ job' = [job EXCEPT ![v] = "recorded"]
          /\ recorded' = [recorded EXCEPT ![v] = 1 + Cardinality({w \in Visits : recorded[w] > 0})]
      BY <1>5 DEF StartRecord, Written, knocker
    <2>2. heard[v] = 0 /\ sock[v] \notin {"none", "connecting"} /\ file' # 0
      BY <1>t, <2>1 DEF InTurn, Visits
    <2>3. job'[v] = "recorded"
      BY <1>t, <2>1
    <2>4. \A w \in Visits \ {v} : job'[w] = job[w] /\ recorded'[w] = recorded[w]
      BY <1>t, <2>1
    <2> QED
      BY <1>k, <2>1, <2>2, <2>3, <2>4 DEF InTurn
  <1>6. ASSUME NEW v \in Visits, ReadFile(v) \/ Recognised(v) PROVE InTurn'
    <2>1. /\ UNCHANGED <<knockpc, visits, sock, recorded, file>> /\ job[v] \in {"recorded", "asked"}
          /\ \E j \in {"asked", "over", "opening"} : job' = [job EXCEPT ![v] = j]
          /\ heard' = [heard EXCEPT ![v] = file] \/ heard' = heard
      BY <1>6 DEF ReadFile, Recognised, knocker
    <2>2. job'[v] \in {"asked", "over", "opening"} /\ sock[v] \notin {"none", "connecting"}
      BY <1>t, <2>1 DEF InTurn
    <2>3. \A w \in Visits \ {v} : job'[w] = job[w] /\ heard'[w] = heard[w]
      BY <1>t, <2>1
    <2> QED
      BY <1>k, <2>1, <2>2, <2>3 DEF InTurn
  <1>g. ASSUME RecorderGone, UNCHANGED <<knockpc, visits, recorded, heard, file>> PROVE InTurn'
    <2>1. \A v \in Visits : /\ sock[v] = "none" => sock'[v] = "none"
                            /\ sock'[v] \in {"none", "connecting"} => sock'[v] = sock[v]
                            /\ job'[v] = IF job[v] = "none" THEN "none" ELSE "over"
      <3> SUFFICES ASSUME NEW v \in Visits
                   PROVE  /\ sock[v] = "none" => sock'[v] = "none"
                          /\ sock'[v] \in {"none", "connecting"} => sock'[v] = sock[v]
                          /\ job'[v] = IF job[v] = "none" THEN "none" ELSE "over"
        OBVIOUS
      <3>1. sock'[v] = IF sock[v] # "open" THEN sock[v]
                       ELSE IF job[v] = "unread" THEN "reset" ELSE "closed"
        BY <1>g DEF RecorderGone
      <3>2. job'[v] = IF job[v] = "none" THEN "none" ELSE "over"
        BY <1>g DEF RecorderGone
      <3> QED
        BY <3>1, <3>2
    <2> QED
      BY <1>g, <1>k, <2>1 DEF InTurn
  <1>7. ASSUME NEW v \in Visits, OpenDoor(v) \/ OpenEnds(v) PROVE InTurn'
    <2>1. /\ UNCHANGED <<knockpc, visits, recorded, heard, file>>
          /\ \/ RecorderGone
             \/ /\ sock' = sock /\ job[v] \in {"opening", "opened"}
                /\ \E j \in {"opened", "over"} : job' = [job EXCEPT ![v] = j]
      BY <1>7 DEF OpenDoor, OpenEnds, knocker
    <2>2. CASE ~RecorderGone
      <3>1. job'[v] \in {"opened", "over"} /\ sock[v] \notin {"none", "connecting"}
        BY <1>t, <2>1, <2>2 DEF InTurn
      <3>2. \A w \in Visits \ {v} : job'[w] = job[w]
        BY <1>t, <2>1, <2>2
      <3> QED
        BY <1>k, <2>1, <2>2, <3>1, <3>2 DEF InTurn
    <2> QED
      BY <1>g, <2>1, <2>2
  <1>8. ASSUME ServiceDies PROVE InTurn'
    <2>1. UNCHANGED <<knockpc, visits, recorded, heard, file>>
      BY <1>8 DEF ServiceDies, knocker
    <2>2. CASE MotorGone
      <3>1. PICK end \in {"over", "broken"} :
                job' = [v \in Visits |-> IF job[v] = "opened" THEN end ELSE job[v]]
        BY <2>2 DEF MotorGone
      <3>2. sock' = sock
        BY <2>2 DEF MotorGone
      <3>3. \A v \in Visits : job'[v] = job[v] \/ (job[v] = "opened" /\ job'[v] \in {"over", "broken"})
        <4> SUFFICES ASSUME NEW v \in Visits
                     PROVE  job'[v] = job[v] \/ (job[v] = "opened" /\ job'[v] \in {"over", "broken"})
          OBVIOUS
        <4>1. job'[v] = IF job[v] = "opened" THEN end ELSE job[v]
          BY <3>1
        <4>2. end \in {"over", "broken"}
          OBVIOUS
        <4> QED
          BY <4>1, <4>2
      <3> QED
        BY <1>k, <2>1, <3>2, <3>3 DEF InTurn
    <2> QED
      BY <1>8, <1>g, <2>1, <2>2 DEF ServiceDies
  <1>9. ASSUME ServiceStarts PROVE InTurn'
    <2>1. UNCHANGED <<knockpc, visits, sock, job, recorded, heard, file>>
      BY <1>9 DEF ServiceStarts, knocker
    <2> QED
      BY <2>1 DEF InTurn
  <1> QED
    BY <1>1, <1>2, <1>3, <1>4, <1>5, <1>6, <1>7, <1>8, <1>9 DEF VisitStep, KnockerRuns, RecorderRuns

\* The file holds the latest recording, and what is recognised is at least as
\* new as the visit's own.
LEMMA NewestStep ==
    ASSUME VisitOK, InTurn, Newest, NotOlder, VisitStep
    PROVE  Newest' /\ NotOlder'
  <1>t. /\ recorded \in [Visits -> 0 .. MaxVisits] /\ heard \in [Visits -> 0 .. MaxVisits]
        /\ file \in 0 .. MaxVisits /\ RecorderOK
    BY DEF VisitOK, RecorderOK
  <1>h. \A v \in Visits : heard[v] # 0 => heard[v] \in Visits
    <2>1. MaxVisits \in Nat
      BY VisitAssumption
    <2> QED
      BY <1>t, <2>1 DEF Visits
  <1>u. ASSUME UNCHANGED <<recorded, heard, file>> PROVE Newest' /\ NotOlder'
    BY <1>u DEF Newest, NotOlder, RecordedVisits
  <1>1. ASSUME NEW v \in Visits, StartRecord(v) PROVE Newest' /\ NotOlder'
    <2> DEFINE n == Cardinality(RecordedVisits)
    <2>1. /\ file' = v /\ heard' = heard
          /\ recorded' = [recorded EXCEPT ![v] = 1 + n]
      BY <1>1 DEF StartRecord, Written, RecordedVisits
    <2>2. recorded[v] = 0 /\ heard[v] = 0
      BY <1>1 DEF StartRecord, InTurn
    <2>3. IsFiniteSet(RecordedVisits) /\ v \notin RecordedVisits /\ n \in Nat
      BY <1>t, <2>2, NumberTyped
    <2>4. recorded'[v] = 1 + n /\ \A w \in Visits \ {v} : recorded'[w] = recorded[w]
      BY <1>t, <2>1
    <2>5. RecordedVisits' = RecordedVisits \cup {v}
      <3>1. 1 + n > 0
        BY <2>3
      <3> QED
        BY <2>4, <3>1 DEF RecordedVisits
    <2>6. Cardinality(RecordedVisits \cup {v}) = n + 1
      BY <2>3, FS_AddElement
    <2>7. Cardinality(RecordedVisits)' = n + 1
      BY <2>5, <2>6
    <2>8. \A w \in Visits : recorded[w] <= n /\ recorded[w] \in Nat
      BY <1>t DEF Newest
    <2> HIDE DEF n
    <2>9. \A w \in Visits : recorded'[w] <= n + 1
      BY <2>3, <2>4, <2>8
    <2>10. Newest'
      <3>1. recorded'[file'] = n + 1 /\ file' \in Visits
        BY <2>1, <2>3, <2>4
      <3> QED
        BY <2>7, <2>9, <3>1 DEF Newest
    <2>11. NotOlder'
      <3> SUFFICES ASSUME NEW w \in Visits, heard[w] # 0
                   PROVE  recorded'[heard[w]] >= recorded'[w]
        BY <2>1 DEF NotOlder
      <3>1. w # v /\ heard[w] \in Visits
        BY <1>h, <2>2
      <3>2. recorded'[w] = recorded[w] /\ recorded[heard[w]] >= recorded[w]
        BY <2>4, <3>1 DEF NotOlder
      <3>3. CASE heard[w] = v
        <4>1. recorded[w] <= n /\ recorded[w] \in Nat /\ n \in Nat /\ recorded'[heard[w]] = 1 + n
          BY <2>3, <2>4, <2>8, <3>3
        <4> QED
          BY <3>2, <4>1
      <3>4. CASE heard[w] # v
        BY <2>4, <3>1, <3>2, <3>4
      <3> QED
        BY <3>3, <3>4
    <2> QED
      BY <2>10, <2>11
  <1>2. ASSUME NEW v \in Visits, ReadFile(v) PROVE Newest' /\ NotOlder'
    <2>1. UNCHANGED <<recorded, file>> /\ heard' = [heard EXCEPT ![v] = file]
      BY <1>2 DEF ReadFile
    <2>2. file # 0 /\ file \in Visits /\ recorded[file] >= recorded[v]
      <3>1. file # 0 /\ file \in Visits
        BY <1>2 DEF ReadFile, InTurn, Newest
      <3>2. recorded[file] = Cardinality(RecordedVisits) /\ recorded[v] <= Cardinality(RecordedVisits)
        BY <3>1 DEF Newest
      <3>3. recorded[v] \in Int /\ recorded[file] \in Int
        BY <1>t, <3>1
      <3> QED
        BY <3>1, <3>2, <3>3
    <2>3. Newest'
      BY <2>1 DEF Newest, RecordedVisits
    <2>4. NotOlder'
      BY <1>t, <2>1, <2>2 DEF NotOlder
    <2> QED
      BY <2>3, <2>4
  <1>3. ASSUME ~(\E v \in Visits : StartRecord(v) \/ ReadFile(v)) PROVE UNCHANGED <<recorded, heard, file>>
    <2>1. CASE Knock \/ KnockerRuns
      BY <2>1 DEF Knock, KnockerRuns, Quiet, Pass, AskRecording, VisitEnds, Connect, SocketError, recording
    <2>2. CASE RecorderRuns
      BY <1>3, <2>2 DEF RecorderRuns, Recognised, OpenDoor, OpenEnds
    <2>3. CASE ServiceDies \/ ServiceStarts
      BY <2>3 DEF ServiceDies, ServiceStarts
    <2> QED
      BY <2>1, <2>2, <2>3 DEF VisitStep
  <1> QED
    BY <1>u, <1>1, <1>2, <1>3

-----------------------------------------------------------------------------
\* A step of a reader's page keeps the dialog explained.
LEMMA ModalStep ==
    ASSUME PageOK, ModalHasReason, Receive(Server) \/ Poll \/ Age \/ Close \/ Load
    PROVE  ModalHasReason'
  <1>1. ASSUME page' = page PROVE ModalHasReason'
    BY <1>1 DEF ModalHasReason
  <1>2. ASSUME Poll PROVE ModalHasReason'
    <2> DEFINE p == PopupOf(status.notification)
    <2>1. p \in {"true", "false"} /\ status.notification.title \in Titles
          /\ status.move \in {"true", "false"}
      BY PollTyped DEF PageOK, Notices
    <2>2. /\ page'.popup = p /\ page'.move = status.move
          /\ page'.showModal = IF Touched(p) THEN "true" \in {status.move, p} ELSE page.showModal
          /\ page'.modaltitle = IF Touched(p) THEN Title(p) ELSE page.modaltitle
      BY <1>2 DEF Poll
    <2> HIDE DEF p
    <2>3. CASE Touched(p) /\ p = "true"
      <3>1. page'.modaltitle = status.notification.title /\ DontForget \notin Titles
        BY <2>2, <2>3 DEF Title, Titles, DontForget
      <3> QED
        BY <2>1, <2>2, <2>3, <3>1 DEF ModalHasReason
    <2>4. CASE Touched(p) /\ p = "false"
      <3>1. page'.modaltitle = DontForget
        BY <2>2, <2>4 DEF Title
      <3>2. page'.showModal <=> status.move = "true"
        BY <2>1, <2>2, <2>4
      <3> QED
        BY <2>2, <2>4, <3>1, <3>2 DEF ModalHasReason
    <2>5. CASE ~Touched(p)
      <3>1. page.popup = p /\ (page.move = status.move \/ p = "true")
        BY <2>1, <2>5 DEF Touched
      <3>2. page'.showModal = page.showModal /\ page'.modaltitle = page.modaltitle
        BY <2>2, <2>5
      <3> QED
        BY <2>1, <2>2, <3>1, <3>2 DEF ModalHasReason
    <2> QED
      BY <2>1, <2>3, <2>4, <2>5
  <1>3. ASSUME Close PROVE ModalHasReason'
    <2>1. page'.showModal = FALSE
      BY <1>3 DEF Close, PageOK, Pages
    <2> QED
      BY <2>1 DEF ModalHasReason
  <1>4. ASSUME Load PROVE ModalHasReason'
    BY <1>4 DEF Load, Mounted, ModalHasReason
  <1> QED
    BY <1>1, <1>2, <1>3, <1>4 DEF Receive, Age

\* What a step may do to the dialog.
DialogStep ==
    /\ page.popup # "true" /\ page'.popup = "true" =>
            page'.showModal /\ page'.modaltitle = status.notification.title
    /\ page.showModal /\ ~page'.showModal =>
            viewsLeft' < viewsLeft \/ {page'.popup, page'.move} = {"false"}

\* Every step of the page does no more.
LEMMA DialogKept ==
    ASSUME PageOK, Receive(Server) \/ Poll \/ Age \/ Close \/ Load
    PROVE  DialogStep \/ page' = page
  <1>1. ASSUME Poll PROVE DialogStep
    <2> DEFINE p == PopupOf(status.notification)
    <2>1. p \in {"true", "false"} /\ status.move \in {"true", "false"}
      BY PollTyped DEF PageOK
    <2>2. /\ page'.popup = p /\ page'.move = status.move
          /\ page'.showModal = IF Touched(p) THEN "true" \in {status.move, p} ELSE page.showModal
          /\ page'.modaltitle = IF Touched(p) THEN Title(p) ELSE page.modaltitle
      BY <1>1 DEF Poll
    <2> HIDE DEF p
    <2>3. ASSUME page.popup # "true", p = "true"
          PROVE  page'.showModal /\ page'.modaltitle = status.notification.title
      <3>1. Touched(p)
        BY <2>3 DEF Touched
      <3> QED
        BY <2>2, <2>3, <3>1 DEF Title
    <2>4. ASSUME page.showModal, ~page'.showModal PROVE {p, status.move} = {"false"}
      <3>1. Touched(p) /\ "true" \notin {status.move, p}
        BY <2>2, <2>4
      <3> QED
        BY <2>1, <3>1
    <2> QED
      BY <2>2, <2>3, <2>4 DEF DialogStep
  <1>2. ASSUME Close \/ Load PROVE DialogStep
    <2>1. viewsLeft' = viewsLeft - 1 /\ viewsLeft \in Nat
      BY <1>2 DEF Close, Load, PageOK
    <2>2. viewsLeft' < viewsLeft
      BY <2>1
    <2>3. page'.popup # "true" \/ page'.popup = page.popup
      <3>1. CASE Close
        BY <3>1 DEF Close, PageOK, Pages
      <3>2. CASE Load
        BY <3>2 DEF Load, Mounted
      <3> QED
        BY <1>2, <3>1, <3>2
    <2> QED
      BY <2>2, <2>3 DEF DialogStep
  <1> QED
    BY <1>1, <1>2 DEF Receive, Age

\* The smoke counter counts only while the field says Detected.
LEMMA SmokeStep ==
    ASSUME SensorsOK, SmokeCounts, SensorsStep
    PROVE  SmokeCounts'
  <1>1. Smokecount \in Nat /\ MaxSmokecount \in Nat
    BY SensorsAssumption DEF SensorsOK
  <1>2. ASSUME SmokeFirst \/ SmokeSecond PROVE SmokeCounts'
    BY <1>2 DEF SmokeFirst, SmokeSecond, SmokeCounts
  <1>3. ASSUME MoveStart \/ MoveEnd \/ PublishStatus \/ Sense \/ SensorDies \/ SensorStarts
        PROVE  SmokeCounts'
    <2>1. smokedetect' = smokedetect /\ Smokecount' \in {0, Smokecount}
      BY <1>3
      DEF MoveStart, MoveEnd, PublishStatus, Sense, SensorDies, SensorStarts, smokeDetector
    <2> QED
      BY <1>1, <2>1 DEF SmokeCounts
  <1> QED
    BY <1>2, <1>3 DEF SensorsStep, Polls

-----------------------------------------------------------------------------
\* The invariant that the steps keep.
Inv ==
    /\ HouseTypeOK /\ DeathsCounted /\ KnockerLives
    /\ InTurn /\ Newest /\ NotOlder
    /\ ModalHasReason /\ SmokeCounts

\* The invariant holds at the start.
LEMMA InitHolds == HouseInit => Inv
  <1> SUFFICES ASSUME HouseInit PROVE Inv
    OBVIOUS
  <1>1. PICK s \in Scenarios :
            /\ SensorsInit(s.scripts) /\ VisitInit(s.visits.knocks > 0)
            /\ PageInit /\ watched = ("main" \in s.scripts)
            /\ sensorsLeft = s.sensors /\ visitsLeft = s.visits /\ viewsLeft = s.views
            /\ writesLeft = [alerts |-> s.alerts, emergencies |-> s.emergencies, moves |-> s.moves]
    BY DEF HouseInit
  <1>2. NotificationInit /\ alert = NoAlert /\ doorstatus = ""
    BY DEF HouseInit
  <1>3. /\ s.sensors \in SensorBounds /\ s.visits \in VisitBounds /\ s.views \in Nat
        /\ s.alerts \in Nat /\ s.emergencies \in Nat /\ s.moves \in Nat
    BY HouseAssumption DEF Bounds
  <1>4. "" \in Titles /\ NoAlert \in Notices
    BY DEF NoAlert, Notice, Notices, Untimed, Titles
  <1>5. SensorsOK /\ SmokeCounts
    <2>1. sensorsLeft \in SensorBounds
      BY <1>1, <1>3
    <2>2. /\ smoke = FALSE /\ movement = FALSE /\ lock \in Statuses /\ Smokecount = 0
          /\ smokepc \in {"wait", "down"} /\ movepc \in {"wait", "down"} /\ statuspc \in {"wait", "down"}
          /\ smokedetect \in {"Clean", "Detected"} /\ move = "false"
          /\ doorcurrentstatus \in Statuses
      BY <1>1 DEF SensorsInit
    <2>3. 0 \in 0 .. MaxSmokecount
      BY SensorsAssumption
    <2>4. SensorsOK
      BY <2>1, <2>2, <2>3 DEF SensorsOK
    <2>5. SmokeCounts
      BY <2>2 DEF SmokeCounts
    <2> QED
      BY <2>4, <2>5
  <1>6. VisitOK
    <2>1. KnockerOK
      <3>1. 0 \in 0 .. MaxVisits /\ 0 \in 0 .. 2
        BY VisitAssumption
      <3>2. knockpc = "sample" /\ KnockCount = 0 /\ gap = "long" /\ visits = 0
            /\ sock = [v \in Visits |-> "none"]
        BY <1>1 DEF VisitInit
      <3> QED
        BY <3>1, <3>2 DEF KnockerOK, Gaps, SockStates
    <2>2. RecorderOK
      <3>1. said \in [Visits -> {"OPEN SESAME", "a message"}]
        BY <1>1 DEF VisitInit
      <3>2. 0 \in 0 .. MaxVisits
        BY VisitAssumption
      <3>3. /\ recorder = "up" /\ motor = "up" /\ opens = 0 /\ downs = 0 /\ file = 0
            /\ job = [v \in Visits |-> "none"]
            /\ recorded = [v \in Visits |-> 0] /\ heard = [v \in Visits |-> 0]
        BY <1>1 DEF VisitInit
      <3>4. job \in [Visits -> Jobs]
        BY <3>3 DEF Jobs
      <3> QED
        BY <3>1, <3>2, <3>3, <3>4 DEF RecorderOK
    <2> QED
      BY <1>1, <1>3, <2>1, <2>2 DEF VisitOK
  <1>7. NotificationOK /\ WritersOK
    BY <1>1, <1>2, <1>3, <1>4 DEF NotificationInit, NotificationOK, WritersOK, NoAlert
  <1>8. PageOK /\ ModalHasReason
    <2>1. page \in Pages /\ page.showModal = FALSE
      BY <1>1 DEF PageInit, Mounted, Pages, Titles
    <2>2. status.notification \in Notices /\ status.move \in {"true", "false"}
      BY <1>1, <1>4 DEF PageInit, Unknown, Fields, NoAlert
    <2>3. aged \in 0 .. notices
      <3>1. aged = 0 /\ notices = 0
        BY <1>1, <1>2 DEF PageInit, NotificationInit
      <3> QED
        BY <3>1
    <2>4. watched \in BOOLEAN /\ viewsLeft \in Nat
      BY <1>1, <1>3
    <2> QED
      BY <2>1, <2>2, <2>3, <2>4 DEF PageOK, ModalHasReason
  <1>9. DeathsCounted /\ KnockerLives
    BY <1>1 DEF VisitInit, DeathsCounted, KnockerLives
  <1>10. InTurn /\ NotOlder
    BY <1>1 DEF VisitInit, InTurn, NotOlder
  <1>11. Newest
    <2>0. file = 0 /\ \A v \in Visits : recorded[v] = 0
      BY <1>1 DEF VisitInit
    <2>1. RecordedVisits = {} /\ file = 0 /\ \A v \in Visits : recorded[v] = 0
      BY <2>0 DEF RecordedVisits
    <2>2. Cardinality(RecordedVisits) = 0
      BY <2>1, FS_EmptySet
    <2> QED
      BY <2>1, <2>2 DEF Newest
  <1> QED
    BY <1>5, <1>6, <1>7, <1>8, <1>9, <1>10, <1>11 DEF Inv, HouseTypeOK

\* Every step keeps the invariant.
LEMMA StepKeeps == Inv /\ [HouseNext]_house => Inv'
  <1> SUFFICES ASSUME Inv, [HouseNext]_house PROVE Inv'
    OBVIOUS
  <1>t. /\ HouseTypeOK /\ SensorsOK /\ VisitOK /\ PageOK
        /\ DeathsCounted /\ KnockerLives /\ InTurn /\ Newest /\ NotOlder
        /\ ModalHasReason /\ SmokeCounts
    BY DEF Inv, HouseTypeOK
  <1>1. HouseTypeOK'
    BY <1>t, TypeStep
  <1>2. DeathsCounted' /\ KnockerLives' /\ InTurn' /\ Newest' /\ NotOlder'
    <2>1. VisitStep \/ UNCHANGED visiting
      BY HouseStep DEF house
    <2>2. CASE VisitStep
      BY <1>t, <2>2, DeathsCountedStep, InTurnStep, NewestStep
    <2>3. CASE UNCHANGED visiting
      BY <1>t, <2>3, VisitsAlone
    <2> QED
      BY <2>1, <2>2, <2>3
  <1>3. ModalHasReason'
    <2>1. (Receive(Server) \/ Poll \/ Age \/ Close \/ Load) \/ UNCHANGED viewing
      BY HouseStep DEF house
    <2>2. UNCHANGED viewing => ModalHasReason'
      BY <1>t DEF viewing, ModalHasReason
    <2> QED
      BY <1>t, <2>1, <2>2, ModalStep
  <1>4. SmokeCounts'
    <2>1. SensorsStep \/ UNCHANGED sensors
      BY HouseStep DEF house
    <2>2. UNCHANGED sensors => SmokeCounts'
      BY <1>t DEF sensors, smokeDetector, SmokeCounts
    <2> QED
      BY <1>t, <2>1, <2>2, SmokeStep
  <1> QED
    BY <1>1, <1>2, <1>3, <1>4 DEF Inv

\* The invariant holds in every state.
LEMMA InvHolds == HouseSpec => []Inv
  BY InitHolds, StepKeeps, PTL DEF HouseSpec

\* The fields, the page and the processes stay within their types.
THEOREM TypeCorrect == HouseSpec => []HouseTypeOK
  <1>1. Inv => HouseTypeOK
    BY DEF Inv
  <1> QED
    BY <1>1, InvHolds, PTL

\* Visitors, however many and however they overlap, do not end the knock
\* detector: only the death of one of the services does.
THEOREM KnockDetectorLives == HouseSpec => []KnockerLives
  <1>1. Inv => KnockerLives
    BY DEF Inv
  <1> QED
    BY <1>1, InvHolds, PTL

\* No visitor is answered for what an earlier one said.
THEOREM RecognisedNotOlder == HouseSpec => []NotOlder
  <1>1. Inv => NotOlder
    BY DEF Inv
  <1> QED
    BY <1>1, InvHolds, PTL

\* The dialog that the page shows has a reason in what the page derived last.
THEOREM ModalReasoned == HouseSpec => []ModalHasReason
  <1>1. Inv => ModalHasReason
    BY DEF Inv
  <1> QED
    BY <1>1, InvHolds, PTL

\* The field says Detected while the smoke detector counts.
THEOREM SmokeIsPublished == HouseSpec => []SmokeCounts
  <1>1. Inv => SmokeCounts
    BY DEF Inv
  <1> QED
    BY <1>1, InvHolds, PTL

\* A popup opens its dialog, and the dialog goes only with its reasons or by
\* the user's hand.
THEOREM DialogFollowsThePage == HouseSpec => DialogFollows
  <1>1. Inv /\ [HouseNext]_house => [DialogStep]_page
    <2> SUFFICES ASSUME Inv, [HouseNext]_house PROVE [DialogStep]_page
      OBVIOUS
    <2>1. PageOK
      BY DEF Inv, HouseTypeOK
    <2>2. (Receive(Server) \/ Poll \/ Age \/ Close \/ Load) \/ page' = page
      BY HouseStep DEF house, viewing
    <2> QED
      BY <2>1, <2>2, DialogKept
  <1>2. [][DialogStep]_page => DialogFollows
    BY DEF DialogStep, DialogFollows
  <1> QED
    BY <1>1, <1>2, InvHolds, PTL DEF HouseSpec

=============================================================================
