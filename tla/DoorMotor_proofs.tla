-------------------------- MODULE DoorMotor_proofs --------------------------
(***************************************************************************)
(* Proofs about the motor service, for every lock (thresholds, tolerance,  *)
(* rotation), every set of connections and every bound: its type           *)
(* invariant, that one request is executed at a time (OneAtATime), that    *)
(* the motor never overruns either end (NoOverrun), that the relay is cut  *)
(* (RelayCut), and that the motor moves the lock only as the request being *)
(* served asks (MovesAsAsked).                                             *)
(***************************************************************************)
EXTENDS DoorMotor, TLAPS

\* A reading has one of the three statuses.
LEMMA StatusType ==
    ASSUME NEW r \in Reads, NEW p \in {0, 1}
    PROVE  StatusOf(r, p) \in Statuses
  BY DEF StatusOf, Statuses, HighEnd, LowEnd

\* A reading that is at an end strictly is there with tolerance too: a command
\* that was not answered "already there" starts outside its strict zone.
LEMMA StrictIsTolerant ==
    ASSUME NEW r \in Reads, NEW g \in Goals, StatusOf(r, 0) = g
    PROVE  StatusOf(r, 1) = g
  BY ConfigAssumption DEF StatusOf, Goals, HighEnd, LowEnd, Reads

\* One step from outside the strict zone of a goal, in the direction of that
\* goal, overshoots the threshold by at most one reading.
LEMMA OneStep ==
    ASSUME NEW r \in (LowThreshold - 1) .. (HighThreshold + 1),
           NEW g \in Goals, StatusOf(r, 0) # g
    PROVE  LET n == IF DirectionTo(g) = 1 THEN r - 1 ELSE r + 1
           IN  /\ n \in (LowThreshold - 1) .. (HighThreshold + 1)
               /\ IF g = HighEnd THEN n > r ELSE n < r
  BY ConfigAssumption DEF StatusOf, Goals, HighEnd, LowEnd, DirectionTo, DirectionToOpen

-----------------------------------------------------------------------------
\* The initial values have their types.
LEMMA InitType == Init => TypeOK
  <1> SUFFICES ASSUME Init PROVE TypeOK
    OBVIOUS
  <1> USE ConfigAssumption, BoundsAssumption
  <1>1. conn \in [Conns -> ConnStates]
    BY DEF Init, Free, Conn, ConnStates, Commands, Replies
  <1>2. db \in DBs
    BY DEF Init, DBs, Messages
  <1>3. QED
    BY <1>1, <1>2 DEF Init, TypeOK, PCs, Statuses, Reads

\* A write more leaves out a sequence of writes.
LEMMA AppendTyped ==
    ASSUME out \in Seq(Writes), NEW w \in Writes
    PROVE  Append(out, w) \in Seq(Writes)
  OBVIOUS

\* What the handler publishes are writes of its fields.
LEMMA WritesTyped ==
    /\ \A s \in Statuses : Write("doorstatus", s) \in Writes
    /\ \A g \in Goals : Write("doorstatus", Progress(g)) \in Writes
    /\ \A s \in Statuses : Write("doorneedtobe", s) \in Writes
    /\ \A m \in Messages : Write("doormsg", m) \in Writes
  BY DEF Write, Writes, Transitional, Progress

\* The messages are among those the clients know.
LEMMA MessagesTyped ==
    ASSUME NEW g \in Goals, NEW s \in Statuses
    PROVE  Already(g) \in Messages /\ Success(g) \in Messages /\ Failure(g, s) \in Messages
  BY DEF Messages


\* What TypeOK leaves out and both it and the safety properties need: while
\* the handler runs, cur is the one connection being served, its request is a
\* command, and inside StepMotor the direction pin is set for that command.
Serving ==
    /\ pc \in {"down", "idle"} => cur = NoConn /\ inOperation = 0
    /\ pc \notin {"down", "idle"} =>
          cur \in Conns /\ conn[cur].cmd \in Goals /\ inOperation = 1
    /\ pc \in Working => directionPin = DirectionTo(Goal)
    /\ \A c \in Conns : conn[c].st = "served" <=> c = cur

\* Nobody is served at the start.
LEMMA InitServing == Init => Serving
  BY ConnsAssumption DEF Init, Serving, Working, Free, Conn

\* Every step keeps the types.
LEMMA NextType == TypeOK /\ Serving /\ [Next]_vars => TypeOK'
  <1> SUFFICES ASSUME TypeOK, Serving, [Next]_vars PROVE TypeOK'
    OBVIOUS
  <1> USE ConfigAssumption, BoundsAssumption DEF TypeOK
  <1>1. ASSUME NEW c \in Conns, Request(c) PROVE TypeOK'
    <2>1. conn' \in [Conns -> ConnStates]
      BY <1>1 DEF Request, Sent, Conn, ConnStates, Replies
    <2> QED
      BY <2>1, <1>1 DEF Request, process, pins
  <1>2. ASSUME NEW c \in Conns, Hangup(c) PROVE TypeOK'
    <2>1. conn' \in [Conns -> ConnStates]
      BY <1>2 DEF Hangup, Free, Conn, ConnStates, Commands, Replies
    <2> QED
      BY <2>1, <1>2 DEF Hangup, process, pins, bounds
  <1>3. ASSUME NEW c \in Conns, Refuse(c) PROVE TypeOK'
    <2>1. conn' \in [Conns -> ConnStates]
      BY <1>3 DEF Refuse, Answered, ConnStates, Replies
    <2> QED
      BY <2>1, <1>3 DEF Refuse, process, pins, bounds
  <1>4. ASSUME NEW c \in Conns, AlreadyThere(c) PROVE TypeOK'
    <2>1. conn' \in [Conns -> ConnStates]
      BY <1>4 DEF AlreadyThere, Served, ConnStates
    <2>2. Write("doormsg", Already(conn[c].cmd)) \in Writes
      BY <1>4, WritesTyped DEF AlreadyThere, Messages
    <2> QED
      BY <2>1, <2>2, <1>4 DEF AlreadyThere, PCs, pins, bounds
  <1>5. ASSUME NEW c \in Conns, Engage(c) PROVE TypeOK'
    <2>1. conn' \in [Conns -> ConnStates]
      BY <1>5 DEF Engage, Served, ConnStates
    <2>2. Write("doorstatus", Progress(conn[c].cmd)) \in Writes
      BY <1>5, WritesTyped DEF Engage
    <2>3. directionPin' \in {0, 1}
      BY <1>5 DEF Engage, DirectionTo, DirectionToOpen
    <2> QED
      BY <2>1, <2>2, <2>3, <1>5 DEF Engage, PCs, Working, bounds
  <1>6. ASSUME Start PROVE TypeOK'
    <2>1. Write("doorstatus", StatusOf(read, 1)) \in Writes
      BY <1>6, StatusType, WritesTyped
    <2> QED
      BY <2>1, <1>6 DEF Start, PCs, bounds
  <1>7. ASSUME Raise PROVE TypeOK'
    <2>1. read' \in Reads
      BY <1>7 DEF Raise, AfterEdge
    <2> QED
      BY <2>1, <1>7 DEF Raise, PCs, Working, bounds
  <1>8. ASSUME Finish, pc \in Working PROVE out' \in Seq(Writes)
    <2>1. StatusOf(read, 1) \in Statuses /\ Goal \in Goals
      BY <1>8, StatusType DEF Serving, Working, Goal
    <2>2. Write("doormsg", IF StatusOf(read, 1) = Goal THEN Success(Goal)
                           ELSE Failure(Goal, StatusOf(read, 1))) \in Writes
      BY <2>1, MessagesTyped, WritesTyped
    <2> QED
      BY <1>8, <2>2 DEF Finish
  <1>9. ASSUME Check1 PROVE TypeOK'
    <2>1. CASE Reached
      BY <2>1, <1>8, <1>9 DEF Check1, Finish, PCs, Working, bounds
    <2>2. CASE ~Reached
      BY <2>2, <1>9 DEF Check1, PCs, Working, bounds
    <2> QED
      BY <2>1, <2>2
  <1>10. ASSUME Check2 PROVE TypeOK'
    <2>1. CASE Finish
      BY <2>1, <1>8, <1>10 DEF Check2, Finish, PCs, Working, bounds
    <2>2. CASE ~LastStep /\ i' = NextStep /\ pc' = "raise" /\ UNCHANGED <<relay, out>>
      BY <2>2, <1>10 DEF Check2, LastStep, NextStep, PCs, Working, bounds
    <2> QED
      BY <2>1, <2>2, <1>10 DEF Check2
  <1>11. ASSUME Settle PROVE TypeOK'
    <2>1. seen' \in Statuses
      BY <1>11, StatusType DEF Settle
    <2> QED
      BY <2>1, <1>11, WritesTyped DEF Settle, PCs, pins, bounds
  <1>12. ASSUME Reply PROVE TypeOK'
    <2>1. conn' \in [Conns -> ConnStates]
      BY <1>12 DEF Reply, Answered, ConnStates, Replies
    <2> QED
      BY <2>1, <1>12, WritesTyped DEF Reply, PCs, Statuses, pins, bounds
  <1>13. ASSUME Deliver PROVE TypeOK'
    <2>1. Head(out) \in Writes /\ out' \in Seq(Writes)
      BY <1>13 DEF Deliver
    <2>2. db' \in DBs
      BY <2>1, <1>13 DEF Deliver, Writes, DBs
    <2> QED
      BY <2>1, <2>2, <1>13 DEF Deliver, process, pins, bounds
  <1>14. ASSUME Turn PROVE TypeOK'
    BY <1>14 DEF Turn, process, pins
  <1>15. ASSUME Crash PROVE TypeOK'
    <2>1. conn' \in [Conns -> ConnStates]
      BY <1>15 DEF Crash, Free, Conn, ConnStates, Commands, Replies
    <2>2. out' \in Seq(Writes)
      BY <1>15 DEF Crash
    <2> QED
      BY <2>1, <2>2, <1>15 DEF Crash, PCs, Statuses, pins
  <1>16. CASE UNCHANGED vars
    BY <1>16 DEF vars, process, pins, bounds
  <1> QED
    BY <1>1, <1>2, <1>3, <1>4, <1>5, <1>6, <1>7, <1>9, <1>10, <1>11, <1>12,
       <1>13, <1>14, <1>15, <1>16 DEF Next, Handler, Running

\* Every step keeps the handler at one client.
LEMMA NextServing == TypeOK /\ Serving /\ [Next]_vars => Serving'
  <1> SUFFICES ASSUME TypeOK, Serving, [Next]_vars PROVE Serving'
    OBVIOUS
  <1> USE ConnsAssumption DEF TypeOK, Serving, Goal, Working
  <1>1. ASSUME NEW c \in Conns, Request(c) PROVE Serving'
    BY <1>1 DEF Request, Sent, Conn, Free, process, pins
  <1>2. ASSUME NEW c \in Conns, Hangup(c) PROVE Serving'
    BY <1>2 DEF Hangup, Free, Conn, process, pins
  <1>3. ASSUME NEW c \in Conns, Refuse(c) PROVE Serving'
    BY <1>3 DEF Refuse, Answered, ConnStates, process, pins
  <1>4. ASSUME NEW c \in Conns, AlreadyThere(c) PROVE Serving'
    BY <1>4 DEF AlreadyThere, Served, ConnStates, pins
  <1>5. ASSUME NEW c \in Conns, Engage(c) PROVE Serving'
    BY <1>5 DEF Engage, Served, ConnStates
  <1>6. ASSUME Start PROVE Serving'
    BY <1>6 DEF Start
  <1>7. ASSUME Raise PROVE Serving'
    BY <1>7 DEF Raise
  <1>8. ASSUME Check1 PROVE Serving'
    BY <1>8 DEF Check1, Finish
  <1>9. ASSUME Check2 PROVE Serving'
    BY <1>9 DEF Check2, Finish
  <1>10. ASSUME Settle PROVE Serving'
    BY <1>10 DEF Settle, pins
  <1>11. ASSUME Reply PROVE Serving'
    BY <1>11 DEF Reply, Answered, ConnStates, pins
  <1>12. ASSUME Deliver \/ Turn PROVE Serving'
    BY <1>12 DEF Deliver, Turn, process, pins
  <1>13. ASSUME Crash PROVE Serving'
    BY <1>13 DEF Crash, Free, Conn, pins
  <1>14. CASE UNCHANGED vars
    BY <1>14 DEF vars, process, pins
  <1> QED
    BY <1>1, <1>2, <1>3, <1>4, <1>5, <1>6, <1>7, <1>8, <1>9, <1>10, <1>11,
       <1>12, <1>13, <1>14 DEF Next, Handler, Running

\* Every reachable state of the motor service is well typed, and the handler
\* serves the connection cur with the pins set for its command.
THEOREM TypeCorrect == Spec => [](TypeOK /\ Serving)
  <1>1. Init => TypeOK /\ Serving
    BY InitType, InitServing
  <1>2. (TypeOK /\ Serving) /\ [Next]_vars => (TypeOK /\ Serving)'
    BY NextType, NextServing
  <1> QED
    BY <1>1, <1>2, PTL DEF Spec

\* The handler never runs for two requests at once, and inOperation marks the
\* time it runs.
THEOREM OneAtATimeHolds == Spec => []OneAtATime
  <1>1. TypeOK /\ Serving => OneAtATime
    BY ConnsAssumption DEF TypeOK, Serving, OneAtATime
  <1> QED
    BY <1>1, TypeCorrect, PTL

-----------------------------------------------------------------------------
\* NoOverrun is not inductive: whether the next rising edge may move the lock
\* depends on what the loop read before it.  Without a hand on the lock, that
\* reading still holds when the motor steps.
Within ==
    turns = 0 =>
        /\ read \in (LowThreshold - 1) .. (HighThreshold + 1)
        /\ pc = "raise" => StatusOf(read, 0) # Goal

\* Every step keeps the lock within a step of the thresholds.
LEMMA NextWithin == TypeOK /\ Serving /\ Within /\ [Next]_vars => Within'
  <1> SUFFICES ASSUME TypeOK, Serving, Within, [Next]_vars PROVE Within'
    OBVIOUS
  <1> USE DEF Within, Goal, Reached
  <1>1. ASSUME NEW c \in Conns, Engage(c) PROVE Within'
    <2>1. StatusOf(read, 0) # conn[c].cmd
      BY <1>1, StrictIsTolerant DEF Engage, TypeOK
    <2>2. conn'[cur'].cmd = conn[c].cmd
      BY <1>1 DEF Engage, Served, TypeOK, ConnStates
    <2> QED
      BY <1>1, <2>1, <2>2 DEF Engage, bounds, StatusOf
  <1>2. ASSUME Raise PROVE Within'
    <2> SUFFICES ASSUME turns = 0
                 PROVE read' \in (LowThreshold - 1) .. (HighThreshold + 1)
      BY <1>2 DEF Raise, bounds
    <2>1. StatusOf(read, 0) # Goal /\ Goal \in Goals /\ directionPin = DirectionTo(Goal)
      BY <1>2 DEF Raise, bounds, Serving, Working
    <2>2. read' \in AfterEdge(read) \cup {read}
      BY <1>2 DEF Raise
    <2>3. read' \in {read, IF DirectionTo(Goal) = 1 THEN read - 1 ELSE read + 1}
      BY <2>1, <2>2 DEF AfterEdge
    <2>4. read \in (LowThreshold - 1) .. (HighThreshold + 1)
      BY <1>2 DEF Raise, bounds
    <2> QED
      BY <2>1, <2>3, <2>4, OneStep
  <1>3. ASSUME Check1 \/ Check2 PROVE Within'
    BY <1>3 DEF Check1, Check2, Finish, StatusOf, bounds
  <1>4. ASSUME Turn PROVE Within'
    BY <1>4, BoundsAssumption DEF Turn, TypeOK
  <1>5. ASSUME NEW c \in Conns, Request(c) \/ Hangup(c) \/ Refuse(c) PROVE Within'
    <2>1. UNCHANGED <<pc, cur, read, turns>>
      BY <1>5 DEF Request, Hangup, Refuse, process, bounds
    <2>2. pc = "raise" => cur \in Conns /\ cur # c
      BY <1>5 DEF Serving, Request, Hangup, Refuse, Free, Conn
    <2>3. pc = "raise" => conn'[cur] = conn[cur]
      BY <1>5, <2>2 DEF Request, Hangup, Refuse, TypeOK
    <2> QED
      BY <2>1, <2>3 DEF StatusOf
  <1>6. ASSUME NEW c \in Conns, AlreadyThere(c) PROVE Within'
    BY <1>6 DEF AlreadyThere, bounds
  <1>7. ASSUME Start \/ Settle \/ Reply \/ Crash PROVE Within'
    BY <1>7 DEF Start, Settle, Reply, Crash, bounds
  <1>8. ASSUME Deliver \/ UNCHANGED vars PROVE Within'
    BY <1>8 DEF Deliver, vars, process, bounds, StatusOf
  <1> QED
    BY <1>1, <1>2, <1>3, <1>4, <1>5, <1>6, <1>7, <1>8 DEF Next, Handler, Running

\* However the commands, crashes and thresholds fall, the motor alone never
\* drives the lock more than one reading past a threshold.
THEOREM MotorNeverOverruns == Spec => []NoOverrun
  <1>1. Init => Within
    BY DEF Init, Within
  <1>2. Within => NoOverrun
    BY DEF Within, NoOverrun
  <1> QED
    BY <1>1, <1>2, NextWithin, TypeCorrect, PTL DEF Spec

-----------------------------------------------------------------------------
\* The relay is on only inside StepMotor's loop, as long as the process has
\* not died there.
THEOREM RelayIsCut == Spec => []RelayCut
  <1> USE DEF RelayCut, Working
  <1>1. Init => RelayCut
    BY DEF Init
  <1>2. TypeOK /\ RelayCut /\ [Next]_vars => RelayCut'
    <2> SUFFICES ASSUME TypeOK, RelayCut, [Next]_vars PROVE RelayCut'
      OBVIOUS
    <2>1. ASSUME NEW c \in Conns, Request(c) \/ Hangup(c) \/ Handler(c)
          PROVE RelayCut'
      BY <2>1 DEF Request, Hangup, Handler, Refuse, AlreadyThere, Engage,
                  process, pins, bounds
    <2>2. ASSUME Start PROVE RelayCut'
      BY <2>2 DEF Start, bounds
    <2>3. ASSUME Running PROVE RelayCut'
      BY <2>3 DEF Running, Raise, Check1, Check2, Settle, Reply, Finish, pins, bounds
    <2>4. ASSUME Deliver \/ Turn \/ Crash \/ UNCHANGED vars PROVE RelayCut'
      BY <2>4 DEF Deliver, Turn, Crash, vars, process, pins, bounds, TypeOK
    <2> QED
      BY <2>1, <2>2, <2>3, <2>4 DEF Next
  <1> QED
    BY <1>1, <1>2, TypeCorrect, PTL DEF Spec

-----------------------------------------------------------------------------
\* A step that moves the lock and is not a turn of the handle is a rising edge
\* made for the request being served, and moves it towards that request's end.
THEOREM MotorMovesAsAsked == Spec => MovesAsAsked
  <1> DEFINE Asked ==
        read' # read /\ turns' = turns =>
          /\ cur \in Conns /\ conn[cur].st = "served" /\ conn[cur].cmd \in Goals
          /\ IF conn[cur].cmd = HighEnd THEN read' > read ELSE read' < read
  <1>1. TypeOK /\ Serving /\ [Next]_vars => [Asked]_vars
    <2> SUFFICES ASSUME TypeOK, Serving, Next, read' # read, turns' = turns
                 PROVE Asked
      OBVIOUS
    <2>1. Raise
      BY DEF Next, Request, Hangup, Handler, Refuse, AlreadyThere, Engage, Start,
             Running, Check1, Check2, Settle, Reply, Deliver, Turn, Crash, TypeOK
    <2>2. cur \in Conns /\ conn[cur].st = "served" /\ Goal \in Goals
          /\ directionPin = DirectionTo(Goal)
      BY <2>1 DEF Raise, Serving, Working, Goal
    <2>3. read' = IF DirectionTo(Goal) = 1 THEN read - 1 ELSE read + 1
      BY <2>1, <2>2 DEF Raise, AfterEdge
    <2>4. IF Goal = HighEnd THEN read' > read ELSE read' < read
      BY <2>2, <2>3, ConfigAssumption
         DEF HighEnd, DirectionTo, DirectionToOpen, Goals, TypeOK, Reads
    <2> QED
      BY <2>2, <2>4 DEF Goal
  <1> QED
    BY <1>1, TypeCorrect, PTL DEF Spec, MovesAsAsked

=============================================================================
