----------------------------- MODULE AlarmLink -----------------------------
(***************************************************************************)
(* The alarm service of the door, src/smartdoor/scripts/btkeepalive.js: a  *)
(* TCP server on port 6007 that switches a siren on and off over a         *)
(* Bluetooth serial line, pings the siren's controller every six seconds,  *)
(* repeats a command until the controller confirms it, publishes the       *)
(* fields alarm and bt, and has itself restarted after three failures.     *)
(*                                                                         *)
(* Outside src/, modelled from its use: the controller behind the line     *)
(* (it obeys and echoes "1" and "0" and answers "3" with "5" or "4"), the  *)
(* serial line, which may lose characters and hands over as one chunk what *)
(* arrived together, and systemd, which restarts the service when asked,   *)
(* or fails to.                                                            *)
(***************************************************************************)
EXTENDS Integers, Sequences

CONSTANTS
    Conns,          \* connections that clients may have open at once
    NoConn,         \* stands for no connection
    Backoff,        \* 1000: the counters start from -Backoff after a recovery
    MaxRequests,    \* bound: requests sent in a behaviour
    MaxLosses,      \* bound: characters lost on the line
    MaxSilent,      \* bound: ticks without a pong counted apart
    MaxLine         \* bound: characters on the line in each direction

ASSUME AlarmAssumption ==
    /\ NoConn \notin Conns
    /\ Backoff \in Nat /\ MaxRequests \in Nat /\ MaxLosses \in Nat /\ MaxSilent \in Nat
    /\ MaxLine \in Nat /\ MaxLine >= 3

VARIABLES
    receivedpong, failcount, btdata, btwait, btwaitfailcount, socketwrite,
    conn,           \* the connections: state, request and reply of each
    restarting,     \* systemd was asked to restart the service
    toDevice, toHost,   \* the serial line, both ways
    siren,          \* the siren, as the controller drives it
    bt, alarm,      \* the published fields
    silent,         \* for the properties: ticks since a pong was read
    requests, losses

link == <<receivedpong, failcount, btdata, btwait, btwaitfailcount, socketwrite>>
line == <<toDevice, toHost>>
vars == <<link, conn, restarting, line, siren, bt, alarm, silent, requests, losses>>

-----------------------------------------------------------------------------
Ping == "3"
Chars == {"0", "1", Ping}
Answers == {"0", "1", "4", "5"}
Requests == {"On", "Off", "Bad"}        \* "Bad": any other data

CharOf(request) == IF request = "On" THEN "1" ELSE "0"
SirenOf(char) == IF char = "0" THEN "Off" ELSE "On"
Pong(s) == IF s = "On" THEN "5" ELSE "4"

BadCommand == "Error, bad command"
Conn(st, request, reply) == [st |-> st, request |-> request, reply |-> reply]
Free == Conn("free", "Bad", "none")

\* The state of a process that has just opened the line.
Fresh ==
    /\ receivedpong' = 0 /\ failcount' = 0
    /\ btdata' = "" /\ btwait' = FALSE /\ btwaitfailcount' = 0
    /\ socketwrite' = NoConn

Init ==
    /\ receivedpong = 0 /\ failcount = 0
    /\ btdata = "" /\ btwait = FALSE /\ btwaitfailcount = 0 /\ socketwrite = NoConn
    /\ conn = [c \in Conns |-> Free] /\ restarting = FALSE
    /\ toDevice = <<>> /\ toHost = <<>>
    /\ siren \in {"On", "Off"} /\ alarm \in {"On", "Off"} /\ bt = "Off"
    /\ silent = MaxSilent /\ requests = 0 /\ losses = 0

-----------------------------------------------------------------------------
\* Clients.
Request(c) ==
    /\ conn[c] = Free /\ requests < MaxRequests
    /\ \E r \in Requests : conn' = [conn EXCEPT ![c] = Conn("sent", r, "none")]
    /\ requests' = requests + 1
    /\ UNCHANGED <<link, restarting, line, siren, bt, alarm, silent, losses>>

Hangup(c) ==
    /\ conn[c].st = "replied"
    /\ conn' = [conn EXCEPT ![c] = Free]
    /\ UNCHANGED <<link, restarting, line, siren, bt, alarm, silent, requests, losses>>

-----------------------------------------------------------------------------
\* The data handler of the server.
Refuse(c) ==
    /\ conn[c].st = "sent" /\ conn[c].request = "Bad"
    /\ conn' = [conn EXCEPT ![c].st = "replied", ![c].reply = BadCommand]
    /\ UNCHANGED <<link, restarting, line, siren, bt, alarm, silent, requests, losses>>

\* Mutant: the client that waits first stays the one to be answered.
AcceptKeepingWaiter(c) ==
    /\ conn[c].st = "sent" /\ conn[c].request # "Bad" /\ Len(toDevice) < MaxLine
    /\ btdata' = CharOf(conn[c].request)
    /\ btwait' = TRUE
    /\ toDevice' = Append(toDevice, btdata')
    /\ socketwrite' = IF btwait THEN socketwrite ELSE c
    /\ conn' = [conn EXCEPT ![c].st = "waiting"]
    /\ UNCHANGED <<receivedpong, failcount, btwaitfailcount, restarting, toHost,
                   siren, bt, alarm, silent, requests, losses>>

\* The latest command replaces the one that was waited for, and its client
\* the one that waited.
Accept(c) ==
    /\ conn[c].st = "sent" /\ conn[c].request # "Bad" /\ Len(toDevice) < MaxLine
    /\ btdata' = CharOf(conn[c].request)
    /\ btwait' = TRUE
    /\ toDevice' = Append(toDevice, btdata')
    /\ socketwrite' = c
    /\ conn' = [conn EXCEPT ![c].st = "waiting"]
    /\ UNCHANGED <<receivedpong, failcount, btwaitfailcount, restarting, toHost,
                   siren, bt, alarm, silent, requests, losses>>

\* Mutants: a pong does not publish the siren's state; any echo confirms.
PongIgnored(char) == alarm
ConfirmsAny(char) == btwait

\* What a pong says of the siren, and which echo confirms a command.
PongAlarm(char) == IF char = "4" THEN "Off" ELSE "On"
Confirms(char) == btwait /\ char = btdata

\* The data handler of the serial port, on a chunk of one character ...
ReadPong ==
    /\ toHost # <<>> /\ Head(toHost) \in {"4", "5"}
    /\ receivedpong' = 1 /\ failcount' = 0
    /\ bt' = "On" /\ alarm' = PongAlarm(Head(toHost))
    /\ silent' = 0
    /\ toHost' = Tail(toHost)
    /\ UNCHANGED <<btdata, btwait, btwaitfailcount, socketwrite, conn, restarting,
                   toDevice, siren, requests, losses>>

ReadEcho ==
    /\ toHost # <<>> /\ Head(toHost) \in {"0", "1"}
    /\ \/ /\ Confirms(Head(toHost))
          /\ alarm' = SirenOf(Head(toHost))
          /\ btwait' = FALSE /\ btwaitfailcount' = 0
          /\ conn' = [conn EXCEPT ![socketwrite].st = "replied",
                                  ![socketwrite].reply = SirenOf(Head(toHost))]
       \/ /\ ~Confirms(Head(toHost))
          /\ UNCHANGED <<alarm, btwait, btwaitfailcount, conn>>
    /\ toHost' = Tail(toHost)
    /\ UNCHANGED <<receivedpong, failcount, btdata, socketwrite, restarting,
                   toDevice, siren, bt, silent, requests, losses>>

\* ... and on a longer one, which equals none of the characters.
ReadChunk ==
    /\ \E k \in 2 .. Len(toHost) : toHost' = SubSeq(toHost, k + 1, Len(toHost))
    /\ UNCHANGED <<link, conn, restarting, toDevice, siren, bt, alarm, silent,
                   requests, losses>>

\* Mutants: repeated commands are not counted; recovery at the fourth failure.
WaitsUncounted == btwaitfailcount
FailingLate(fails, waits) == fails > 3 \/ waits > 3

\* A tick counts a missing pong and a missing confirmation ...
Fails == IF receivedpong = 0 THEN failcount + 1 ELSE failcount
Waits == IF btwait THEN btwaitfailcount + 1 ELSE btwaitfailcount

\* ... the service recovers from three of either, and sets both back.
Failing(fails, waits) == fails >= 3 \/ waits >= 3
Counted(n, recover) == IF recover THEN -Backoff ELSE n

\* The timer.  It fires when the line has room for what it writes.
Tick ==
    /\ Len(toDevice) + 2 <= MaxLine
    /\ silent' = IF silent < MaxSilent THEN silent + 1 ELSE MaxSilent
    /\ LET recover == Failing(Fails, Waits)
       IN  /\ failcount' = Counted(Fails, recover)
           /\ btwaitfailcount' = Counted(Waits, recover)
           /\ bt' = IF recover THEN "Off" ELSE bt
           /\ restarting' = (restarting \/ recover)
    /\ receivedpong' = 0
    /\ toDevice' = toDevice \o (IF btwait THEN <<btdata>> ELSE <<>>) \o <<Ping>>
    /\ UNCHANGED <<btdata, btwait, socketwrite, conn, toHost, siren, alarm,
                   requests, losses>>

\* systemd kills the service and starts it: connections, the pending command
\* and what was on the line are gone; bt is published as Off.
Restart ==
    /\ restarting
    /\ restarting' = FALSE
    /\ Fresh
    /\ conn' = [c \in Conns |-> Free]
    /\ toHost' = <<>> /\ toDevice' = <<>>
    /\ bt' = "Off"
    /\ UNCHANGED <<siren, alarm, silent, requests, losses>>

RestartFails ==
    /\ restarting
    /\ restarting' = FALSE
    /\ UNCHANGED <<link, conn, line, siren, bt, alarm, silent, requests, losses>>

-----------------------------------------------------------------------------
\* The controller obeys one character and answers it.
Device ==
    /\ toDevice # <<>> /\ Len(toHost) < MaxLine
    /\ LET char == Head(toDevice)
       IN  /\ siren' = IF char = Ping THEN siren ELSE SirenOf(char)
           /\ toHost' = Append(toHost, IF char = Ping THEN Pong(siren) ELSE char)
    /\ toDevice' = Tail(toDevice)
    /\ UNCHANGED <<link, conn, restarting, bt, alarm, silent, requests, losses>>

Lose ==
    /\ losses < MaxLosses
    /\ losses' = losses + 1
    /\ \/ toDevice # <<>> /\ toDevice' = Tail(toDevice) /\ UNCHANGED toHost
       \/ toHost # <<>> /\ toHost' = Tail(toHost) /\ UNCHANGED toDevice
    /\ UNCHANGED <<link, conn, restarting, siren, bt, alarm, silent, requests>>

Server(c) == Refuse(c) \/ Accept(c)
Port == ReadPong \/ ReadEcho \/ ReadChunk

Next ==
    \/ \E c \in Conns : Request(c) \/ Hangup(c) \/ Server(c)
    \/ Port \/ Tick \/ Restart \/ RestartFails \/ Device \/ Lose

Spec == Init /\ [][Next]_vars

\* The timer fires, the port and the sockets are read (SF for the sockets: the
\* line may be full in between), the controller answers.
Fairness ==
    /\ WF_vars(Tick) /\ WF_vars(Port) /\ WF_vars(Device)
    /\ \A c \in Conns : SF_vars(Server(c))

FairSpec == Spec /\ Fairness

-----------------------------------------------------------------------------
(***************************************************************************)
(* Properties.                                                             *)
(***************************************************************************)
LinkOK ==
    /\ receivedpong \in {0, 1} /\ failcount \in -Backoff .. 2
    /\ btdata \in {"", "0", "1"} /\ btwait \in BOOLEAN
    /\ btwaitfailcount \in -Backoff .. 2 /\ socketwrite \in Conns \cup {NoConn}
ConnOK ==
    conn \in [Conns -> [st : {"free", "sent", "waiting", "replied"},
                        request : Requests, reply : {"none", "On", "Off", BadCommand}]]
LineOK == toDevice \in Seq(Chars) /\ toHost \in Seq(Answers)
FieldsOK == siren \in {"On", "Off"} /\ alarm \in {"On", "Off"} /\ bt \in {"On", "Off"}
CountsOK ==
    /\ restarting \in BOOLEAN /\ silent \in 0 .. MaxSilent
    /\ requests \in 0 .. MaxRequests /\ losses \in 0 .. MaxLosses

TypeOK == LinkOK /\ ConnOK /\ LineOK /\ FieldsOK /\ CountsOK

\* The web page is told that the siren is reachable only while a pong was read
\* within the last three ticks, recoveries and restarts included.
BtIsRecent == bt = "On" => silent <= 3

\* Whoever a confirmation goes to is waiting for it: the one client that the
\* service remembers asked for the state it waits to be confirmed.
WaiterWaits ==
    btwait => /\ socketwrite \in Conns
              /\ conn[socketwrite].st = "waiting"
              /\ CharOf(conn[socketwrite].request) = btdata

\* A client is told that the siren does what it asked for, never the opposite
\* of it, whatever echoes of earlier commands are still on the line.
AnsweredAsAsked ==
    \A c \in Conns :
        conn[c].st = "replied" /\ conn[c].request # "Bad" => conn[c].reply = conn[c].request

\* A command does not stay unconfirmed in silence: either the controller
\* confirms it or the service asks for its own restart.
ConfirmedOrRecovering == btwait ~> (~btwait \/ restarting)

\* Once the siren is left alone, the published field tells the truth, however
\* many characters were lost and whatever stale echoes were taken for
\* confirmations, as long as pongs keep being read.
AlarmConverges ==
    []<>(receivedpong = 1) => <>[](alarm = siren)

=============================================================================
