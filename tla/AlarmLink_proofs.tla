-------------------------- MODULE AlarmLink_proofs --------------------------
(***************************************************************************)
(* Proofs about the alarm link, for any number of clients and requests,    *)
(* losses and restarts, any length of the line and any back-off of the     *)
(* counters.                                                               *)
(*                                                                         *)
(* TypeOK and WaiterWaits are inductive together: what a tick repeats is a *)
(* character because somebody waits for it.  AnsweredAsAsked follows from  *)
(* the two.  BtIsRecent rests on Heard: while bt is On the failures are    *)
(* counted from the last pong, because every recovery that would set the   *)
(* counter back publishes Off.                                             *)
(***************************************************************************)
EXTENDS AlarmLink, TLAPS

\* While bt is On the failures are counted from the last pong.
Heard ==
    bt = "On" => /\ failcount >= 0 /\ silent <= failcount + 1
                 /\ receivedpong = 1 => silent = 0

\* The client has its answer, and its command was one.
Answered(c) == conn[c].st = "replied" /\ conn[c].request # "Bad"

\* Lines stay lines when a character is added or characters are taken off.
LEMMA LineTyped ==
    ASSUME NEW S, NEW s \in Seq(S)
    PROVE  /\ \A e \in S : Append(s, e) \in Seq(S) /\ s \o <<e>> \in Seq(S)
           /\ s # <<>> => Head(s) \in S /\ Tail(s) \in Seq(S)
           /\ \A k \in 2 .. Len(s) : SubSeq(s, k + 1, Len(s)) \in Seq(S)
  <1>1. \A e \in S : Append(s, e) \in Seq(S) /\ s \o <<e>> \in Seq(S)
    OBVIOUS
  <1>2. s # <<>> => Head(s) \in S /\ Tail(s) \in Seq(S)
    OBVIOUS
  <1>3. ASSUME NEW k \in 2 .. Len(s) PROVE SubSeq(s, k + 1, Len(s)) \in Seq(S)
    OBVIOUS
  <1> QED
    BY <1>1, <1>2, <1>3

\* Counting one more failure, or setting the counter back, keeps its range.
LEMMA CountTyped ==
    ASSUME NEW n \in -Backoff .. 2, NEW m \in {n, n + 1}, NEW b \in BOOLEAN,
           m >= 3 => b
    PROVE  Counted(m, b) \in -Backoff .. 2
  BY AlarmAssumption DEF Counted

\* The counters run from below zero, where a recovery puts them, to two.
LEMMA CountRange == 0 \in -Backoff .. 2 /\ \A n \in -Backoff .. 2 : n \in Int /\ n <= 2
  BY AlarmAssumption

\* The process's own variables.
LEMMA LinkStep == LinkOK /\ ConnOK /\ [Next]_vars => LinkOK'
  <1> SUFFICES ASSUME LinkOK, ConnOK, [Next]_vars PROVE LinkOK'
    OBVIOUS
  <1> USE DEF LinkOK
  <1>1. ASSUME NEW c \in Conns, Request(c) \/ Hangup(c) \/ Refuse(c) PROVE LinkOK'
    BY <1>1 DEF Request, Hangup, Refuse, link
  <1>2. ASSUME NEW c \in Conns, Accept(c) PROVE LinkOK'
    BY <1>2 DEF Accept, CharOf
  <1>3. ASSUME ReadPong PROVE LinkOK'
    BY <1>3, CountRange DEF ReadPong
  <1>4. ASSUME ReadEcho PROVE LinkOK'
    BY <1>4, CountRange DEF ReadEcho
  <1>5. ASSUME ReadChunk \/ RestartFails \/ Device \/ Lose PROVE LinkOK'
    BY <1>5 DEF ReadChunk, RestartFails, Device, Lose, link
  <1>6. ASSUME Tick PROVE LinkOK'
    <2> DEFINE recover == Failing(Fails, Waits)
    <2>1. Fails \in {failcount, failcount + 1} /\ Waits \in {btwaitfailcount, btwaitfailcount + 1}
      BY DEF Fails, Waits
    <2>2. recover \in BOOLEAN /\ (Fails >= 3 => recover) /\ (Waits >= 3 => recover)
      BY DEF Failing
    <2>3. failcount' = Counted(Fails, recover) /\ btwaitfailcount' = Counted(Waits, recover)
      BY <1>6 DEF Tick
    <2> HIDE DEF recover
    <2>4. failcount' \in -Backoff .. 2 /\ btwaitfailcount' \in -Backoff .. 2
      BY <2>1, <2>2, <2>3, CountTyped
    <2> QED
      BY <1>6, <2>4 DEF Tick
  <1>7. ASSUME Restart PROVE LinkOK'
    BY <1>7, CountRange DEF Restart, Fresh
  <1>8. CASE UNCHANGED vars
    BY <1>8 DEF vars, link
  <1> QED
    BY <1>1, <1>2, <1>3, <1>4, <1>5, <1>6, <1>7, <1>8 DEF Next, Server, Port

\* The connections.
LEMMA ConnStep == LinkOK /\ ConnOK /\ WaiterWaits /\ [Next]_vars => ConnOK'
  <1> SUFFICES ASSUME LinkOK, ConnOK, WaiterWaits, [Next]_vars PROVE ConnOK'
    OBVIOUS
  <1> USE DEF ConnOK
  <1>1. ASSUME NEW c \in Conns, Request(c) \/ Hangup(c) PROVE ConnOK'
    BY <1>1 DEF Request, Hangup, Conn, Free, Requests
  <1>2. ASSUME NEW c \in Conns, Refuse(c) \/ Accept(c) PROVE ConnOK'
    BY <1>2 DEF Refuse, Accept
  <1>3. ASSUME ReadEcho PROVE ConnOK'
    BY <1>3 DEF ReadEcho, SirenOf
  <1>4. ASSUME ReadPong \/ ReadChunk \/ Tick \/ RestartFails \/ Device \/ Lose PROVE ConnOK'
    BY <1>4 DEF ReadPong, ReadChunk, Tick, RestartFails, Device, Lose
  <1>5. ASSUME Restart PROVE ConnOK'
    BY <1>5 DEF Restart, Conn, Free, Requests
  <1>6. CASE UNCHANGED vars
    BY <1>6 DEF vars
  <1> QED
    BY <1>1, <1>2, <1>3, <1>4, <1>5, <1>6 DEF Next, Server, Port

\* The line: what a tick repeats is a character because somebody waits for it.
LEMMA LineStep == LineOK /\ FieldsOK /\ WaiterWaits /\ [Next]_vars => LineOK'
  <1> SUFFICES ASSUME LineOK, FieldsOK, WaiterWaits, [Next]_vars PROVE LineOK'
    OBVIOUS
  <1> USE DEF LineOK
  <1>0. \A r : CharOf(r) \in Chars
    BY DEF CharOf, Chars
  <1>1. ASSUME NEW c \in Conns, Request(c) \/ Hangup(c) \/ Refuse(c) PROVE LineOK'
    BY <1>1 DEF Request, Hangup, Refuse, line
  <1>2. ASSUME NEW c \in Conns, Accept(c) PROVE LineOK'
    <2>1. btdata' \in Chars /\ toDevice' = Append(toDevice, btdata') /\ toHost' = toHost
      BY <1>0, <1>2 DEF Accept
    <2> QED
      BY <2>1, LineTyped
  <1>3. ASSUME ReadPong \/ ReadEcho PROVE LineOK'
    <2>1. toHost # <<>> /\ toHost' = Tail(toHost) /\ toDevice' = toDevice
      BY <1>3 DEF ReadPong, ReadEcho
    <2> QED
      BY <2>1, LineTyped
  <1>4. ASSUME ReadChunk PROVE LineOK'
    <2>1. /\ \E k \in 2 .. Len(toHost) : toHost' = SubSeq(toHost, k + 1, Len(toHost))
          /\ toDevice' = toDevice
      BY <1>4 DEF ReadChunk
    <2> QED
      BY <2>1, LineTyped
  <1>5. ASSUME Tick PROVE LineOK'
    <2>1. /\ toDevice' = toDevice \o (IF btwait THEN <<btdata>> ELSE <<>>) \o <<Ping>>
          /\ toHost' = toHost
      BY <1>5 DEF Tick
    <2>2. Ping \in Chars
      BY DEF Chars
    <2>3. toDevice \o (IF btwait THEN <<btdata>> ELSE <<>>) \in Seq(Chars)
      <3>1. CASE btwait
        BY <1>0, <3>1, LineTyped DEF WaiterWaits
      <3>2. CASE ~btwait
        <4>1. toDevice \o <<>> = toDevice
          OBVIOUS
        <4> QED
          BY <3>2, <4>1
      <3> QED
        BY <3>1, <3>2
    <2> QED
      BY <2>1, <2>2, <2>3, LineTyped
  <1>6. ASSUME Restart PROVE LineOK'
    BY <1>6 DEF Restart
  <1>7. ASSUME RestartFails PROVE LineOK'
    BY <1>7 DEF RestartFails, line
  <1>8. ASSUME Device PROVE LineOK'
    <2>1. toDevice # <<>> /\ Head(toDevice) \in Chars /\ toDevice' = Tail(toDevice)
      BY <1>8, LineTyped DEF Device
    <2>2. /\ toHost' = Append(toHost, IF Head(toDevice) = Ping THEN Pong(siren) ELSE Head(toDevice))
          /\ (IF Head(toDevice) = Ping THEN Pong(siren) ELSE Head(toDevice)) \in Answers
      BY <1>8, <2>1 DEF Device, Chars, Answers, Pong, Ping
    <2> QED
      BY <2>1, <2>2, LineTyped
  <1>9. ASSUME Lose PROVE LineOK'
    <2>1. \/ toDevice # <<>> /\ toDevice' = Tail(toDevice) /\ toHost' = toHost
          \/ toHost # <<>> /\ toHost' = Tail(toHost) /\ toDevice' = toDevice
      BY <1>9 DEF Lose
    <2> QED
      BY <2>1, LineTyped
  <1>10. CASE UNCHANGED vars
    BY <1>10 DEF vars, line
  <1> QED
    BY <1>1, <1>2, <1>3, <1>4, <1>5, <1>6, <1>7, <1>8, <1>9, <1>10 DEF Next, Server, Port

\* The fields, the siren and the counts.
LEMMA FieldsStep == FieldsOK /\ CountsOK /\ [Next]_vars => FieldsOK' /\ CountsOK'
  <1> SUFFICES ASSUME FieldsOK, CountsOK, [Next]_vars PROVE FieldsOK' /\ CountsOK'
    OBVIOUS
  <1> USE AlarmAssumption DEF FieldsOK, CountsOK
  <1>1. ASSUME NEW c \in Conns, Request(c) PROVE FieldsOK' /\ CountsOK'
    BY <1>1 DEF Request
  <1>2. ASSUME NEW c \in Conns, Hangup(c) \/ Refuse(c) \/ Accept(c) PROVE FieldsOK' /\ CountsOK'
    BY <1>2 DEF Hangup, Refuse, Accept
  <1>3. ASSUME ReadPong \/ ReadEcho \/ ReadChunk PROVE FieldsOK' /\ CountsOK'
    BY <1>3 DEF ReadPong, ReadEcho, ReadChunk, PongAlarm, SirenOf
  <1>4. ASSUME Tick PROVE FieldsOK' /\ CountsOK'
    BY <1>4 DEF Tick, Failing
  <1>5. ASSUME Restart \/ RestartFails PROVE FieldsOK' /\ CountsOK'
    BY <1>5 DEF Restart, RestartFails
  <1>6. ASSUME Device \/ Lose PROVE FieldsOK' /\ CountsOK'
    BY <1>6 DEF Device, Lose, SirenOf
  <1>7. CASE UNCHANGED vars
    BY <1>7 DEF vars
  <1> QED
    BY <1>1, <1>2, <1>3, <1>4, <1>5, <1>6, <1>7 DEF Next, Server, Port

\* Who waits, and for what.
LEMMA WaiterStep == LinkOK /\ ConnOK /\ WaiterWaits /\ [Next]_vars => WaiterWaits'
  <1> SUFFICES ASSUME LinkOK, ConnOK, WaiterWaits, [Next]_vars PROVE WaiterWaits'
    OBVIOUS
  <1> USE DEF WaiterWaits, ConnOK
  <1>1. ASSUME NEW c \in Conns, Request(c) PROVE WaiterWaits'
    BY <1>1 DEF Request, Conn, Free, link
  <1>2. ASSUME NEW c \in Conns, Hangup(c) \/ Refuse(c) PROVE WaiterWaits'
    BY <1>2 DEF Hangup, Refuse, link
  <1>3. ASSUME NEW c \in Conns, Accept(c) PROVE WaiterWaits'
    BY <1>3 DEF Accept
  <1>4. ASSUME ReadEcho PROVE WaiterWaits'
    BY <1>4 DEF ReadEcho, Confirms
  <1>5. ASSUME ReadPong \/ ReadChunk \/ Tick \/ RestartFails \/ Device \/ Lose PROVE WaiterWaits'
    BY <1>5 DEF ReadPong, ReadChunk, Tick, RestartFails, Device, Lose, link
  <1>6. ASSUME Restart PROVE WaiterWaits'
    BY <1>6 DEF Restart, Fresh
  <1>7. CASE UNCHANGED vars
    BY <1>7 DEF vars, link
  <1> QED
    BY <1>1, <1>2, <1>3, <1>4, <1>5, <1>6, <1>7 DEF Next, Server, Port

\* Types, and who waits, are kept by every step.
LEMMA TypeStep == TypeOK /\ WaiterWaits /\ [Next]_vars => TypeOK' /\ WaiterWaits'
  BY LinkStep, ConnStep, LineStep, FieldsStep, WaiterStep DEF TypeOK

\* Only a confirmation answers a command, and it confirms what its client asked.
LEMMA AnswerStep ==
    ConnOK /\ WaiterWaits /\ AnsweredAsAsked /\ [Next]_vars => AnsweredAsAsked'
  <1> SUFFICES ASSUME ConnOK, WaiterWaits, AnsweredAsAsked, [Next]_vars,
                      NEW d \in Conns, Answered(d)'
               PROVE  conn'[d].reply = conn'[d].request
    BY DEF AnsweredAsAsked, Answered
  <1>0. Answered(d) => conn[d].reply = conn[d].request
    BY DEF AnsweredAsAsked, Answered
  <1> USE <1>0 DEF ConnOK, Answered
  <1>1. ASSUME NEW c \in Conns, Request(c) \/ Hangup(c) PROVE conn'[d].reply = conn'[d].request
    BY <1>1 DEF Request, Hangup, Conn, Free
  <1>2. ASSUME NEW c \in Conns, Refuse(c) \/ Accept(c) PROVE conn'[d].reply = conn'[d].request
    BY <1>2 DEF Refuse, Accept
  <1>3. ASSUME ReadEcho PROVE conn'[d].reply = conn'[d].request
    <2>1. CASE Confirms(Head(toHost)) /\ d = socketwrite
      <3>1. /\ conn'[d].reply = SirenOf(Head(toHost))
            /\ conn'[d].request = conn[d].request
        BY <1>3, <2>1 DEF ReadEcho
      <3>2. CharOf(conn[d].request) = Head(toHost) /\ conn[d].request \in {"On", "Off"}
        BY <2>1, <3>1 DEF Confirms, WaiterWaits, Requests
      <3> QED
        BY <3>1, <3>2 DEF CharOf, SirenOf
    <2>2. CASE ~(Confirms(Head(toHost)) /\ d = socketwrite)
      BY <1>3, <2>2 DEF ReadEcho, Confirms, WaiterWaits
    <2> QED
      BY <2>1, <2>2
  <1>4. ASSUME ReadPong \/ ReadChunk \/ Tick \/ RestartFails \/ Device \/ Lose
        PROVE  conn'[d].reply = conn'[d].request
    BY <1>4 DEF ReadPong, ReadChunk, Tick, RestartFails, Device, Lose
  <1>5. ASSUME Restart PROVE conn'[d].reply = conn'[d].request
    BY <1>5 DEF Restart, Free, Conn
  <1>6. CASE UNCHANGED vars
    BY <1>6 DEF vars
  <1> QED
    BY <1>1, <1>2, <1>3, <1>4, <1>5, <1>6 DEF Next, Server, Port

\* While bt is On, ticks without a pong are counted.
LEMMA HeardStep == LinkOK /\ CountsOK /\ Heard /\ [Next]_vars => Heard'
  <1> SUFFICES ASSUME LinkOK, CountsOK, Heard, [Next]_vars PROVE Heard'
    OBVIOUS
  <1> USE DEF Heard, link, line
  <1>1. ASSUME NEW c \in Conns, Request(c) \/ Hangup(c) \/ Server(c) PROVE Heard'
    BY <1>1 DEF Request, Hangup, Server, Refuse, Accept
  <1>2. ASSUME ReadPong PROVE Heard'
    BY <1>2 DEF ReadPong
  <1>3. ASSUME ReadEcho \/ ReadChunk \/ RestartFails \/ Device \/ Lose PROVE Heard'
    BY <1>3 DEF ReadEcho, ReadChunk, RestartFails, Device, Lose
  <1>4. ASSUME Tick PROVE Heard'
    <2>1. /\ failcount \in Int /\ silent \in 0 .. MaxSilent /\ receivedpong \in {0, 1}
      BY CountRange DEF LinkOK, CountsOK
    <2>2. silent' <= silent + 1 /\ receivedpong' = 0
      BY <1>4, <2>1, AlarmAssumption DEF Tick
    <2>3. SUFFICES ASSUME bt' = "On" PROVE failcount' >= 0 /\ silent' <= failcount' + 1
      BY <2>2
    <2>4. bt = "On" /\ failcount' = Fails
      BY <1>4, <2>3 DEF Tick, Counted
    <2>5. silent' \in Int
      BY <1>4, <2>1, AlarmAssumption DEF Tick
    <2> QED
      BY <2>1, <2>2, <2>4, <2>5 DEF Fails
  <1>5. ASSUME Restart PROVE Heard'
    BY <1>5 DEF Restart
  <1>6. CASE UNCHANGED vars
    BY <1>6 DEF vars
  <1> QED
    BY <1>1, <1>2, <1>3, <1>4, <1>5, <1>6 DEF Next, Port

\* A process that has just started satisfies all of them.
LEMMA InitHolds == Init => TypeOK /\ WaiterWaits /\ AnsweredAsAsked /\ Heard
  <1> SUFFICES ASSUME Init PROVE TypeOK /\ WaiterWaits /\ AnsweredAsAsked /\ Heard
    OBVIOUS
  <1>1. TypeOK
    <2>1. LinkOK
      BY CountRange DEF Init, LinkOK
    <2>4. FieldsOK
      BY DEF Init, FieldsOK
    <2>5. CountsOK
      <3>1. restarting = FALSE /\ silent = MaxSilent /\ requests = 0 /\ losses = 0
        BY DEF Init
      <3>2. MaxSilent \in Nat /\ MaxRequests \in Nat /\ MaxLosses \in Nat
        BY AlarmAssumption
      <3>3. silent \in 0 .. MaxSilent /\ requests \in 0 .. MaxRequests /\ losses \in 0 .. MaxLosses
        BY <3>1, <3>2
      <3>4. restarting \in BOOLEAN
        BY <3>1
      <3> QED
        BY <3>3, <3>4 DEF CountsOK
    <2>2. ConnOK
      BY DEF Init, ConnOK, Free, Conn, Requests
    <2>3. LineOK
      <3>1. \A S : <<>> \in Seq(S)
        OBVIOUS
      <3> QED
        BY <3>1 DEF Init, LineOK
    <2> QED
      BY <2>1, <2>2, <2>3, <2>4, <2>5 DEF TypeOK
  <1>2. WaiterWaits /\ AnsweredAsAsked /\ Heard
    BY DEF Init, WaiterWaits, AnsweredAsAsked, Heard, Free, Conn
  <1> QED
    BY <1>1, <1>2

\* Every variable keeps its type, and the client that is remembered waits for
\* the state that is to be confirmed.
THEOREM TypeCorrect == Spec => []TypeOK
  BY InitHolds, TypeStep, PTL DEF Spec

\* Whoever waits for a confirmation is remembered until it comes.
THEOREM WaiterIsRemembered == Spec => []WaiterWaits
  BY InitHolds, TypeStep, PTL DEF Spec

\* Clients are told what they asked for, whatever echoes are on the line.
THEOREM ClientsAnsweredAsAsked == Spec => []AnsweredAsAsked
  <1>1. TypeOK => ConnOK
    BY DEF TypeOK
  <1> QED
    BY <1>1, InitHolds, TypeStep, AnswerStep, PTL DEF Spec

\* The published bt is never older than three ticks.
THEOREM BtStaysRecent == Spec => []BtIsRecent
  <1>1. TypeOK => LinkOK /\ CountsOK
    BY DEF TypeOK
  <1>2. LinkOK /\ CountsOK /\ Heard => BtIsRecent
    <2> SUFFICES ASSUME LinkOK, CountsOK, Heard, bt = "On" PROVE silent <= 3
      BY DEF BtIsRecent
    <2>1. failcount \in Int /\ failcount <= 2 /\ silent <= failcount + 1
      BY CountRange DEF LinkOK, Heard
    <2>2. silent \in Int
      BY AlarmAssumption DEF CountsOK
    <2> QED
      BY <2>1, <2>2
  <1> QED
    BY <1>1, <1>2, InitHolds, TypeStep, HeardStep, PTL DEF Spec

=============================================================================
