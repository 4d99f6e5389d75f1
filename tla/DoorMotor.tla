----------------------------- MODULE DoorMotor -----------------------------
(***************************************************************************)
(* The motor service of the door, src/smartdoor/scripts/doorCommand.js: a  *)
(* TCP server on port 6001 that turns the lock with a stepper motor and    *)
(* publishes doorstatus, doorneedtobe and doormsg in the database.         *)
(*                                                                         *)
(* The process is one node.js event loop.  A data handler runs to the end  *)
(* before another one starts, but it runs for many seconds (it busy-waits  *)
(* between motor steps), and the potentiometer, the relay and the database *)
(* are seen by the other processes of the door, by the web page and by     *)
(* whoever holds the handle meanwhile.  The handler is therefore split at  *)
(* each of its sensor reads; pc says where in the handler the process is.  *)
(*                                                                         *)
(* Outside src/, modelled from its use: the lock and its potentiometer     *)
(* (`read`), the relay and the stepper driver, the kernel's sockets, and   *)
(* the database client, which sends the process's writes in order (`out`). *)
(***************************************************************************)
EXTENDS MotorStatus, Sequences

CONSTANTS
    Conns,              \* connections that clients may have open at once
    NoConn,             \* stands for no connection
    MotorThreshold,     \* config.MotorThreshold: most steps of one command
    MaxRequests,        \* bound: requests sent in a behaviour
    MaxTurns,           \* bound: turns of the handle by hand
    MaxCrashes          \* bound: crashes of the process

ASSUME BoundsAssumption ==
    /\ MotorThreshold \in Nat \ {0}
    /\ MaxRequests \in Nat /\ MaxTurns \in Nat /\ MaxCrashes \in Nat

ASSUME ConnsAssumption == NoConn \notin Conns

VARIABLES
    pc,         \* position of the process in its handler
    cur,        \* connection whose request the handler serves
    i,          \* loop counter of StepMotor
    seen,       \* local variable motorStatus of the data handler
    inOperation,
    stepPin, directionPin, relay,       \* output pins 12, 11 and 7
    read,       \* what the potentiometer reads
    conn,       \* the connections: state, request and reply of each
    out,        \* database writes of the process not yet at the server
    db,         \* the fields of the door this process writes
    requests, turns, crashes            \* used up parts of the bounds

process == <<pc, cur, i, seen, inOperation>>
pins == <<stepPin, directionPin, relay>>
bounds == <<requests, turns, crashes>>
vars == <<process, pins, read, conn, out, db, bounds>>

-----------------------------------------------------------------------------
Commands == Goals \cup {"Bad"}      \* "Bad": any other data

Working == {"raise", "check1", "check2"}        \* inside StepMotor's loop
PCs == {"down", "idle", "settle", "need"} \cup Working

Door(s) == <<"Door", s>>
BadCommand == <<"Error, bad command">>
AlreadyWorking == <<"Error, already working">>
NoReply == <<"none">>
Replies == {Door(s) : s \in Statuses} \cup {NoReply, BadCommand, AlreadyWorking}

NoMsg == <<"none">>
Already(g) == <<"Already", g>>
Success(g) == <<"Success", g>>
Failure(g, s) == <<"Failure", g, s>>
Messages ==
    {NoMsg} \cup {Already(g) : g \in Goals} \cup {Success(g) : g \in Goals}
            \cup {Failure(g, s) : g \in Goals, s \in Statuses}

Transitional == {"Locking", "Unlocking"}
Progress(g) == IF g = "Open" THEN "Unlocking" ELSE "Locking"

\* A connection is free, or has sent a request that nobody read, or is the
\* one being served, or has its reply.
Conn(st, cmd, reply) == [st |-> st, cmd |-> cmd, reply |-> reply]
Free == Conn("free", "Bad", NoReply)
Sent(cmd) == Conn("sent", cmd, NoReply)
Served(cn) == [cn EXCEPT !.st = "served"]
Answered(cn, r) == [cn EXCEPT !.st = "replied", !.reply = r]

ConnStates ==
    [st : {"free", "sent", "served", "replied"}, cmd : Commands, reply : Replies]

Write(key, val) == [key |-> key, val |-> val]
Writes ==
    [key : {"doorstatus"}, val : Statuses \cup Transitional]
    \cup [key : {"doorneedtobe"}, val : Statuses]
    \cup [key : {"doormsg"}, val : Messages]
DBs ==
    [doorstatus : Statuses \cup Transitional,
     doorneedtobe : Statuses,
     doormsg : Messages]

-----------------------------------------------------------------------------
\* The process is not running yet; the lock is anywhere the motor can have
\* left it, and the database holds what an earlier run published.
Init ==
    /\ pc = "down" /\ cur = NoConn /\ i = 0
    /\ seen = "Middle" /\ inOperation = 0
    /\ stepPin = 0 /\ directionPin = 0 /\ relay = 0
    /\ read \in (LowThreshold - 1) .. (HighThreshold + 1)
    /\ conn = [c \in Conns |-> Free]
    /\ out = <<>>
    /\ \E s \in Statuses :
          db = [doorstatus |-> s, doorneedtobe |-> s, doormsg |-> NoMsg]
    /\ requests = 0 /\ turns = 0 /\ crashes = 0

(***************************************************************************)
(* The clients: a script of the door opens a connection, writes one        *)
(* command and destroys the socket when an answer arrives.                 *)
(***************************************************************************)
Request(c) ==
    /\ pc # "down" /\ conn[c] = Free /\ requests < MaxRequests
    /\ \E cmd \in Commands : conn' = [conn EXCEPT ![c] = Sent(cmd)]
    /\ requests' = requests + 1
    /\ UNCHANGED <<process, pins, read, out, db, turns, crashes>>

Hangup(c) ==
    /\ conn[c].st = "replied"
    /\ conn' = [conn EXCEPT ![c] = Free]
    /\ UNCHANGED <<process, pins, read, out, db, bounds>>

\* Mutant: starting publishes nothing.
StartSilent ==
    /\ pc = "down"
    /\ pc' = "idle"
    /\ stepPin' \in {0, stepPin} /\ relay' \in {0, relay}
    /\ UNCHANGED <<cur, i, seen, inOperation, directionPin, read, conn, out, db, bounds>>

(***************************************************************************)
(* The process.  Starting it reads the lock once and publishes doorstatus. *)
(* The output pins are in whatever state the kernel left or set them.      *)
(***************************************************************************)
Start ==
    /\ pc = "down"
    /\ pc' = "idle"
    /\ stepPin' \in {0, stepPin} /\ relay' \in {0, relay}
    /\ out' = Append(out, Write("doorstatus", StatusOf(read, 1)))
    /\ UNCHANGED <<cur, i, seen, inOperation, directionPin, read, conn, db, bounds>>

\* Data that is no command, or that finds a command in progress, is answered
\* at once.
Refuse(c) ==
    /\ pc = "idle" /\ conn[c].st = "sent"
    /\ inOperation = 1 \/ conn[c].cmd = "Bad"
    /\ conn' = [conn EXCEPT ![c] =
                  Answered(@, IF inOperation = 1 THEN AlreadyWorking ELSE BadCommand)]
    /\ UNCHANGED <<process, pins, read, out, db, bounds>>

\* A command whose goal is already reached moves nothing.
AlreadyThere(c) ==
    /\ pc = "idle" /\ conn[c].st = "sent" /\ conn[c].cmd \in Goals
    /\ inOperation = 0 /\ StatusOf(read, 1) = conn[c].cmd
    /\ inOperation' = 1 /\ cur' = c /\ pc' = "settle"
    /\ conn' = [conn EXCEPT ![c] = Served(@)]
    /\ out' = Append(out, Write("doormsg", Already(conn[c].cmd)))
    /\ UNCHANGED <<i, seen, pins, read, db, bounds>>

\* Otherwise the progress is published, the relay switched on and the
\* direction set.
Engage(c) ==
    /\ pc = "idle" /\ conn[c].st = "sent" /\ conn[c].cmd \in Goals
    /\ inOperation = 0 /\ StatusOf(read, 1) # conn[c].cmd
    /\ inOperation' = 1 /\ cur' = c /\ pc' = "raise" /\ i' = 0
    /\ conn' = [conn EXCEPT ![c] = Served(@)]
    /\ out' = Append(out, Write("doorstatus", Progress(conn[c].cmd)))
    /\ relay' = 1 /\ directionPin' = DirectionTo(conn[c].cmd)
    /\ UNCHANGED <<seen, stepPin, read, db, bounds>>

\* Where the lock may stand after a rising edge on the step pin: the motor
\* turns it one reading clockwise (down) or counter-clockwise (up), or the
\* step does not show on the potentiometer (fine steps, a jam, no power).
AfterEdge(r) ==
    {r} \cup IF relay = 1
             THEN {IF directionPin = 1 THEN r - 1 ELSE r + 1} \cap Reads
             ELSE {}

Raise ==
    /\ pc = "raise"
    /\ stepPin' = 1
    /\ read' \in IF stepPin = 0 THEN AfterEdge(read) ELSE {read}
    /\ pc' = "check1"
    /\ UNCHANGED <<cur, i, seen, inOperation, directionPin, relay, conn,
                   out, db, bounds>>

\* The command being executed.
Goal == conn[cur].cmd

\* Mutants: only the test for Open was kept; the relay is left on; the message
\* uses the strict reading; i++ is missing.
ReachedOpenOnly == Goal = "Open" /\ StatusOf(read, 0) = Goal

FinishPowered ==
    /\ i' = 0 /\ pc' = "settle"
    /\ LET s == StatusOf(read, 1)
       IN  out' = Append(out, Write("doormsg",
                      IF s = Goal THEN Success(Goal) ELSE Failure(Goal, s)))
    /\ UNCHANGED relay

FinishStrict ==
    /\ relay' = 0 /\ i' = 0 /\ pc' = "settle"
    /\ LET s == StatusOf(read, 0)
       IN  out' = Append(out, Write("doormsg",
                      IF s = Goal THEN Success(Goal) ELSE Failure(Goal, s)))

SameStep == i

\* What the loop tests after each half step, and its bookkeeping.
Reached == StatusOf(read, 0) = Goal
LastStep == i + 1 >= MotorThreshold
NextStep == i + 1

\* Leaving StepMotor (and its local i): the relay goes off and the outcome is
\* published.
Finish ==
    /\ relay' = 0 /\ i' = 0
    /\ pc' = "settle"
    /\ LET s == StatusOf(read, 1)
       IN  out' = Append(out, Write("doormsg",
                      IF s = Goal THEN Success(Goal) ELSE Failure(Goal, s)))

Check1 ==
    /\ pc = "check1"
    /\ \/ /\ Reached
          /\ Finish
          /\ UNCHANGED stepPin
       \/ /\ ~Reached
          /\ stepPin' = 0
          /\ pc' = "check2"
          /\ UNCHANGED <<i, relay, out>>
    /\ UNCHANGED <<cur, seen, inOperation, directionPin, read, conn, db, bounds>>

Check2 ==
    /\ pc = "check2"
    /\ \/ /\ Reached \/ LastStep
          /\ Finish
       \/ /\ ~Reached /\ ~LastStep
          /\ i' = NextStep
          /\ pc' = "raise"
          /\ UNCHANGED <<relay, out>>
    /\ UNCHANGED <<cur, seen, inOperation, stepPin, directionPin, read, conn, db,
                   bounds>>

\* Mutant: doorstatus is not written after the work.
SettleSilent ==
    /\ pc = "settle"
    /\ seen' = StatusOf(read, 1)
    /\ pc' = "need"
    /\ UNCHANGED <<cur, i, inOperation, pins, read, conn, out, db, bounds>>

\* Back in the data handler: the lock is read again for doorstatus ...
Settle ==
    /\ pc = "settle"
    /\ seen' = StatusOf(read, 1)
    /\ out' = Append(out, Write("doorstatus", seen'))
    /\ pc' = "need"
    /\ UNCHANGED <<cur, i, inOperation, pins, read, conn, db, bounds>>

\* Mutants: inOperation is not reset; the lock is read once more.
ReplyBusy ==
    /\ pc = "need"
    /\ out' = Append(out, Write("doorneedtobe", seen))
    /\ conn' = [conn EXCEPT ![cur] = Answered(@, Door(seen))]
    /\ cur' = NoConn /\ pc' = "idle" /\ seen' = "Middle"
    /\ UNCHANGED <<i, inOperation, pins, read, db, bounds>>

ReplyReread ==
    /\ pc = "need"
    /\ out' = Append(out, Write("doorneedtobe", StatusOf(read, 1)))
    /\ inOperation' = 0
    /\ conn' = [conn EXCEPT ![cur] = Answered(@, Door(seen))]
    /\ cur' = NoConn /\ pc' = "idle" /\ seen' = "Middle"
    /\ UNCHANGED <<i, pins, read, db, bounds>>

\* ... and the same value becomes doorneedtobe and the reply.
Reply ==
    /\ pc = "need"
    /\ out' = Append(out, Write("doorneedtobe", seen))
    /\ inOperation' = 0
    /\ conn' = [conn EXCEPT ![cur] = Answered(@, Door(seen))]
    /\ cur' = NoConn /\ pc' = "idle" /\ seen' = "Middle"
    /\ UNCHANGED <<i, pins, read, db, bounds>>

(***************************************************************************)
(* The surroundings.                                                       *)
(***************************************************************************)
Deliver ==
    /\ out # <<>>
    /\ db' = [db EXCEPT ![Head(out).key] = Head(out).val]
    /\ out' = Tail(out)
    /\ UNCHANGED <<process, pins, read, conn, bounds>>

\* Someone turns the lock by hand.
Turn ==
    /\ turns < MaxTurns
    /\ turns' = turns + 1
    /\ read' \in Reads \ {read}
    /\ UNCHANGED <<process, pins, conn, out, db, requests, crashes>>

\* The process dies (an uncaught 'error' event of a socket, a kill, a reboot):
\* its connections are reset, the writes it had not handed to the network are
\* lost, and the pins keep their levels.
Crash ==
    /\ pc # "down" /\ crashes < MaxCrashes
    /\ crashes' = crashes + 1
    /\ pc' = "down" /\ cur' = NoConn
    /\ i' = 0 /\ seen' = "Middle" /\ inOperation' = 0
    /\ conn' = [c \in Conns |-> Free]
    /\ \E k \in 0 .. Len(out) : out' = SubSeq(out, 1, k)
    /\ UNCHANGED <<pins, read, db, requests, turns>>

Handler(c) == Refuse(c) \/ AlreadyThere(c) \/ Engage(c)
Running == Raise \/ Check1 \/ Check2 \/ Settle \/ Reply

Next ==
    \/ \E c \in Conns : Request(c) \/ Hangup(c) \/ Handler(c)
    \/ Start \/ Running
    \/ Deliver \/ Turn \/ Crash

Spec == Init /\ [][Next]_vars

\* The running process takes its next step; a readable socket is served after
\* finitely many others, since every round of the event loop takes all of
\* them (nothing orders two sockets: SF, not a queue); the database client
\* sends what it holds.  Nothing promises that the process is ever started.
Fairness ==
    /\ WF_vars(Running)
    /\ \A c \in Conns : SF_vars(Handler(c))
    /\ WF_vars(Deliver)

FairSpec == Spec /\ Fairness

-----------------------------------------------------------------------------
(***************************************************************************)
(* Properties.                                                             *)
(***************************************************************************)
TypeOK ==
    /\ pc \in PCs /\ cur \in Conns \cup {NoConn}
    /\ i \in 0 .. (MotorThreshold - 1) /\ seen \in Statuses /\ inOperation \in {0, 1}
    /\ stepPin \in {0, 1} /\ directionPin \in {0, 1} /\ relay \in {0, 1}
    /\ read \in Reads
    /\ conn \in [Conns -> ConnStates]
    /\ out \in Seq(Writes) /\ db \in DBs
    /\ requests \in 0 .. MaxRequests /\ turns \in 0 .. MaxTurns
    /\ crashes \in 0 .. MaxCrashes

\* While nobody turns the lock by hand, the motor never drives it more than
\* one reading past the strict threshold of either end, whatever commands
\* arrive, whenever the process dies and whichever rotation closes the lock:
\* the two checks of StepMotor's loop stop it in time.
NoOverrun ==
    turns = 0 => read \in (LowThreshold - 1) .. (HighThreshold + 1)

\* The relay feeds the motor only while StepMotor is in its loop, unless the
\* process died there: every way out of the loop switches it off.
RelayCut == relay = 1 /\ crashes = 0 => pc \in Working

\* The handler is never entered twice: inOperation marks exactly the time
\* between accepting a command and answering it, for one connection.
OneAtATime ==
    pc # "down" =>
        /\ inOperation = 1 <=> pc # "idle"
        /\ \A c \in Conns : conn[c].st = "served" <=> (c = cur /\ pc # "idle")

\* Once the process idles and its writes have arrived, the database does not
\* show an operation in progress (the web page would keep its button
\* disabled), not even when the process died in the middle of one.
NoStuckProgress ==
    pc = "idle" /\ out = <<>> => db.doorstatus \in Statuses

\* The two fields that a command leaves behind, doorstatus for the web page
\* and doorneedtobe for the break detector, agree once they have arrived,
\* as long as the process did not die between writing them.
FieldsAgree ==
    pc = "idle" /\ out = <<>> /\ crashes = 0 /\ db.doormsg # NoMsg
        => db.doorstatus = db.doorneedtobe

\* The message of doorCom and the status published after it come from
\* different readings.  They still tell the same story when nobody turned
\* the lock: success means that the lock is where it was asked to be.
MessageTrue ==
    pc = "idle" /\ out = <<>> /\ crashes = 0 /\ turns = 0 =>
        \A g \in Goals :
            /\ db.doormsg \in {Already(g), Success(g)} => db.doorneedtobe = g
            /\ \A s \in Statuses :
                  db.doormsg = Failure(g, s) => db.doorneedtobe = s /\ s # g

\* Except by hand, the lock moves only while some client is waiting for the
\* very command that moves it, and only towards the end that command names.
MovesAsAsked ==
    [][ read' # read /\ turns' = turns =>
          /\ cur \in Conns /\ conn[cur].st = "served" /\ conn[cur].cmd \in Goals
          /\ IF conn[cur].cmd = HighEnd THEN read' > read ELSE read' < read ]_vars

\* Every request is answered, even with a jammed motor, a handle that turns
\* against it and other clients that keep sending, unless the process dies.
EveryRequestAnswered ==
    \A c \in Conns :
        conn[c].st = "sent" ~> (conn[c].st = "replied" \/ pc = "down")

\* The web page disables its button while doorstatus shows an operation in
\* progress: that ends, unless the process died and nobody starts it.
ProgressEnds ==
    (db.doorstatus \in Transitional)
        ~> (db.doorstatus \in Statuses \/ pc = "down")

-----------------------------------------------------------------------------
\* The handler, which takes many seconds and many readings, looks atomic from
\* outside: the abstract service sees a served request as still waiting, and
\* the last doorneedtobe the process wrote as the current one.
OutsideConn ==
    [c \in Conns |->
        [st |-> IF conn[c].st = "served" THEN "sent" ELSE conn[c].st,
         cmd |-> conn[c].cmd, reply |-> conn[c].reply]]

LastNeed ==
    LET written == {k \in 1 .. Len(out) : out[k].key = "doorneedtobe"}
    IN  IF written = {} THEN db.doorneedtobe
        ELSE out[CHOOSE k \in written : \A j \in written : j <= k].val

Service == INSTANCE LockService WITH conn <- OutsideConn, need <- LastNeed

\* The motor service implements LockService: one answer per request, given
\* together with the doorneedtobe that it announces.
ImplementsLockService == Service!Spec

=============================================================================
