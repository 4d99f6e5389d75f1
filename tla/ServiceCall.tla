---------------------------- MODULE ServiceCall ----------------------------
(***************************************************************************)
(* applyService of src/smartdoor/scripts/online.js: the calls that the     *)
(* listener makes to a local service, here the motor service on port 6001. *)
(* Every call opens a socket of its own and writes one word when it        *)
(* connects.  A call made in an emergency connects again, four seconds     *)
(* after each error, and each attempt adds another listener for 'connect', *)
(* none of which is removed when the attempt fails.                        *)
(*                                                                         *)
(* The module follows the words: a listener that fires writes the word     *)
(* again, the service reads what has arrived as one chunk, and a chunk of  *)
(* more than one word is no command.                                       *)
(*                                                                         *)
(* Outside src/, modelled from its use: the sockets of node.js and of the  *)
(* kernel, and whoever starts and stops the service.  The service itself   *)
(* is doorCommand.js, reduced to what a caller sees (see DoorMotor).       *)
(***************************************************************************)
EXTENDS Integers, Sequences

CONSTANTS
    Calls,          \* the calls of a behaviour
    Emergencies,    \* those made with emergency == true
    MaxWords,       \* bound: listeners and words counted apart, more are equal
    MaxDeaths       \* bound: deaths of the service

ASSUME CallsAssumption ==
    /\ Emergencies \subseteq Calls
    /\ MaxWords \in Nat /\ MaxWords >= 2 /\ MaxDeaths \in Nat

VARIABLES
    phase,          \* the socket of each call
    listeners,      \* its listeners for 'connect' that have not fired
    emergencycount, \* the global of online.js
    wire,           \* words of the call that the service has not read
    answer,         \* the response on its way back, or None
    up,             \* the service is running
    working,        \* the calls whose command the service is executing
    written,        \* for the properties: calls whose word was ever written
    executed,       \* for the properties: how often each call was executed
    deaths

caller == <<phase, listeners, emergencycount>>
service == <<up, working>>
vars == <<caller, wire, answer, service, written, executed, deaths>>

None == "none"
Phases == {"new", "connecting", "waiting", "open", "closed"}

AtMost(n) == IF n > MaxWords THEN MaxWords ELSE n

-----------------------------------------------------------------------------
Init ==
    /\ phase = [c \in Calls |-> "new"] /\ listeners = [c \in Calls |-> 0]
    /\ emergencycount = 0
    /\ wire = [c \in Calls |-> 0] /\ answer = [c \in Calls |-> None]
    /\ up \in BOOLEAN /\ working = {}
    /\ written = {} /\ executed = [c \in Calls |-> 0] /\ deaths = 0

\* Mutants: attempts are limited; every call is made again.
AfterErrorLimited(c) ==
    IF c \in Emergencies /\ listeners[c] < 3 THEN "waiting" ELSE "closed"
AfterErrorAll(c) == IF emergencycount < 3 THEN "waiting" ELSE "closed"

\* What the 'error' handler makes of a socket.
AfterError(c) ==
    IF c \in Emergencies /\ emergencycount < 3 THEN "waiting" ELSE "closed"

ApplyService(c) ==
    /\ phase[c] = "new"
    /\ emergencycount' = 0
    /\ phase' = [phase EXCEPT ![c] = "connecting"]
    /\ listeners' = [listeners EXCEPT ![c] = 1]
    /\ UNCHANGED <<wire, answer, service, written, executed, deaths>>

\* 'connect': every listener writes the word.
Connected(c) ==
    /\ phase[c] = "connecting" /\ up
    /\ phase' = [phase EXCEPT ![c] = "open"]
    /\ listeners' = [listeners EXCEPT ![c] = 0]
    /\ wire' = [wire EXCEPT ![c] = listeners[c]]
    /\ written' = written \cup {c}
    /\ UNCHANGED <<emergencycount, answer, service, executed, deaths>>

\* 'error' of an attempt to connect: its listener stays.
Refused(c) ==
    /\ phase[c] = "connecting" /\ ~up
    /\ phase' = [phase EXCEPT ![c] = AfterError(c)]
    /\ UNCHANGED <<listeners, emergencycount, wire, answer, service, written,
                   executed, deaths>>

\* The timer set by the 'error' handler connects again, with a new listener.
Timeout(c) ==
    /\ phase[c] = "waiting"
    /\ phase' = [phase EXCEPT ![c] = "connecting"]
    /\ listeners' = [listeners EXCEPT ![c] = AtMost(@ + 1)]
    /\ UNCHANGED <<emergencycount, wire, answer, service, written, executed, deaths>>

\* 'data': whatever the response says, the socket is destroyed.
Response(c) ==
    /\ phase[c] = "open" /\ answer[c] # None
    /\ phase' = [phase EXCEPT ![c] = "closed"]
    /\ answer' = [answer EXCEPT ![c] = None]
    /\ UNCHANGED <<listeners, emergencycount, wire, service, written, executed, deaths>>

-----------------------------------------------------------------------------
\* The service's event loop takes some of the words that have arrived as one
\* chunk, when it is not busy.  One word is a command, more are not.  What a
\* destroyed socket had sent can still be read, or was reset.
Read(c) ==
    /\ up /\ working = {} /\ phase[c] \in {"open", "closed"}
    /\ \E k \in 1 .. wire[c] :
          /\ wire' = [wire EXCEPT ![c] = @ - k]
          /\ \/ /\ k = 1
                /\ working' = {c}
                /\ UNCHANGED answer
             \/ /\ k > 1
                /\ answer' = [answer EXCEPT ![c] = IF phase[c] = "open" THEN "bad" ELSE @]
                /\ UNCHANGED working
    /\ UNCHANGED <<caller, up, written, executed, deaths>>

Execute(c) ==
    /\ c \in working
    /\ working' = {}
    /\ executed' = [executed EXCEPT ![c] = AtMost(@ + 1)]
    /\ answer' = [answer EXCEPT ![c] =
                    IF phase[c] = "open" /\ @ = None THEN "done" ELSE @]
    /\ UNCHANGED <<caller, wire, up, written, deaths>>

Reset(c) ==
    /\ phase[c] = "closed" /\ wire[c] > 0
    /\ wire' = [wire EXCEPT ![c] = 0]
    /\ UNCHANGED <<caller, answer, service, written, executed, deaths>>

\* The service dies.  The kernel ends its connections: with an error for some
\* callers, with an orderly close for others.
Die ==
    /\ up /\ deaths < MaxDeaths
    /\ deaths' = deaths + 1
    /\ up' = FALSE /\ working' = {}
    /\ wire' = [c \in Calls |-> 0]
    /\ answer' = [c \in Calls |-> None]
    /\ \E broken \in SUBSET {c \in Calls : phase[c] = "open"} :
          phase' = [c \in Calls |->
                      IF phase[c] # "open" THEN phase[c]
                      ELSE IF c \in broken THEN AfterError(c) ELSE "closed"]
    /\ UNCHANGED <<listeners, emergencycount, written, executed>>

Come ==
    /\ ~up
    /\ up' = TRUE
    /\ UNCHANGED <<caller, wire, answer, working, written, executed, deaths>>

Next ==
    \/ \E c \in Calls :
          \/ ApplyService(c) \/ Connected(c) \/ Refused(c) \/ Timeout(c) \/ Response(c)
          \/ Read(c) \/ Execute(c) \/ Reset(c)
    \/ Die \/ Come

Spec == Init /\ [][Next]_vars

\* Sockets report, the timer fires, and a running service reads (SF: it may be
\* busy with another call in between) and finishes.  Nobody promises to start
\* the service.
Fairness ==
    \A c \in Calls :
        /\ WF_vars(Connected(c) \/ Refused(c)) /\ WF_vars(Timeout(c))
        /\ WF_vars(Response(c)) /\ SF_vars(Read(c)) /\ WF_vars(Execute(c))

FairSpec == Spec /\ Fairness

-----------------------------------------------------------------------------
(***************************************************************************)
(* Properties.                                                             *)
(***************************************************************************)
TypeOK ==
    /\ phase \in [Calls -> Phases] /\ listeners \in [Calls -> 0 .. MaxWords]
    /\ emergencycount = 0
    /\ wire \in [Calls -> 0 .. MaxWords] /\ answer \in [Calls -> {None, "bad", "done"}]
    /\ up \in BOOLEAN /\ working \subseteq Calls
    /\ written \subseteq Calls /\ executed \in [Calls -> 0 .. MaxWords]
    /\ deaths \in 0 .. MaxDeaths

\* An everyday call is executed at most once, whatever fails: only a call made
\* in an emergency may move the lock again.
EverydayOnce ==
    \A c \in Calls \ Emergencies : executed[c] + wire[c] <= 1

\* An emergency call does not give up before the service has taken its word:
\* the limit on emergencycount never stops it, because nothing counts.
NeverGivesUp ==
    \A c \in Emergencies : phase[c] = "closed" => c \in written

\* An emergency call whose word was never sent reaches the service once it
\* runs for good.
EmergencyReaches ==
    <>[]up => \A c \in Emergencies : phase[c] = "connecting" ~> c \in written

\* What the error handler's message promises ("keeping trying to apply
\* service!"): the emergency call is applied once the service runs for good.
EmergencyApplied ==
    <>[]up => \A c \in Emergencies : phase[c] = "connecting" ~> executed[c] > 0

=============================================================================
