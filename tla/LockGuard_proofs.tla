-------------------------- MODULE LockGuard_proofs --------------------------
(***************************************************************************)
(* Proofs about the motor service and the break-in detector around one     *)
(* lock, for any number of listeners, connections and requests, and any    *)
(* configuration.                                                          *)
(*                                                                         *)
(* AlertHasCause rests on Untouched: before the first request and the      *)
(* first turn of the handle nothing moves the lock, so that what a         *)
(* listener saw when it raised the alert is still there.                   *)
(***************************************************************************)
EXTENDS LockGuard, DoorMotor_proofs

\* Without a request no command is known, and the handler does not run.
Untouched ==
    requests = 0 => pc \in {"down", "idle"} /\ \A c \in Conns : conn[c] = Free

\* A listener that waits is one that still has to run.
Busy == alert # "none" => turn > 0

\* The steps of the two processes.
LEMMA GuardedStep ==
    ASSUME [GuardedNext]_allVars
    PROVE  /\ [Next]_vars
           /\ \/ /\ UNCHANGED <<listeners, snap, turn, AlretCount, alert, popup>>
                 /\ inbox' = inbox \/ inbox' = Append(inbox, db'.doorneedtobe)
              \/ GuardStep(db.doorneedtobe, read) /\ UNCHANGED vars
  BY DEF GuardedNext, MotorStep, DetectorStep, allVars, guard

\* The detector's variables keep their types.
LEMMA GuardTyped ==
    ASSUME TypeOK, TypeOK', GuardTypeOK, Busy, [GuardedNext]_allVars
    PROVE  GuardTypeOK' /\ Busy'
  <1>t. /\ listeners \in 0 .. MaxListeners /\ turn \in 0 .. MaxListeners /\ MaxListeners \in Nat \ {0}
        /\ inbox \in Seq(Statuses) /\ snap \in Statuses \cup {NoValue}
        /\ AlretCount \in 0 .. 2 /\ alert \in {"none", "shown", "quiet"} /\ popup \in BOOLEAN
        /\ alert # "none" => turn > 0
        /\ db.doorneedtobe \in Statuses /\ db'.doorneedtobe \in Statuses
    BY ListenersAssumption DEF GuardTypeOK, Busy, TypeOK, DBs
  <1>1. CASE /\ UNCHANGED <<listeners, snap, turn, AlretCount, alert, popup>>
             /\ inbox' = inbox \/ inbox' = Append(inbox, db'.doorneedtobe)
    <2>1. inbox' \in Seq(Statuses)
      BY <1>t, <1>1
    <2> QED
      BY <1>t, <1>1, <2>1 DEF GuardTypeOK, Busy
  <1>2. ASSUME AddListener(db.doorneedtobe) PROVE GuardTypeOK' /\ Busy'
    <2>1. inbox' \in Seq(Statuses)
      BY <1>t, <1>2 DEF AddListener
    <2>2. listeners' \in 1 .. MaxListeners /\ turn' \in 0 .. MaxListeners
      BY <1>t, <1>2 DEF AddListener, FirstRun
    <2>3. UNCHANGED <<snap, AlretCount, alert, popup>> /\ alert = "none"
      BY <1>t, <1>2 DEF AddListener
    <2> QED
      BY <1>t, <2>1, <2>2, <2>3 DEF GuardTypeOK, Busy
  <1>3. ASSUME Value PROVE GuardTypeOK' /\ Busy'
    <2>1. Head(inbox) \in Statuses /\ inbox' \in Seq(Statuses)
      BY <1>t, <1>3 DEF Value
    <2>2. /\ snap' = Head(inbox) /\ turn' \in {0, listeners}
          /\ UNCHANGED <<listeners, AlretCount, alert, popup>>
      BY <1>3 DEF Value
    <2>3. alert = "none"
      BY <1>t, <1>3 DEF Value
    <2>4. turn' \in 0 .. MaxListeners /\ snap' \in Statuses
      BY <1>t, <2>1, <2>2
    <2> QED
      BY <1>t, <2>1, <2>2, <2>3, <2>4 DEF GuardTypeOK, Busy
  <1>4. ASSUME Agree(read) \/ Disagree(read)
        PROVE  GuardTypeOK' /\ Busy'
    <2>1. /\ UNCHANGED <<listeners, inbox, snap>> /\ turn > 0
          /\ \/ turn' = turn - 1 /\ UNCHANGED alert
             \/ turn' = turn /\ alert' = "shown"
      BY <1>4 DEF Agree, Disagree
    <2>2. turn' \in 0 .. MaxListeners /\ alert' \in {"none", "shown", "quiet"}
      BY <1>t, <2>1
    <2>3. AlretCount' \in 0 .. 2
      <3>1. AlretCount' \in {0, AlretCount, 2} \/ (AlretCount' = AlretCount + 1 /\ AlretCount + 1 < 2)
        BY <1>4 DEF Agree, Disagree
      <3> QED
        BY <1>t, <3>1
    <2>4. popup' \in {popup, TRUE}
      BY <1>4 DEF Agree, Disagree
    <2>5. alert' # "none" => turn' > 0
      BY <1>4, <2>1 DEF Agree, Disagree
    <2> QED
      BY <1>t, <2>1, <2>2, <2>3, <2>4, <2>5 DEF GuardTypeOK, Busy
  <1>5. ASSUME TakeBack PROVE GuardTypeOK' /\ Busy'
    BY <1>t, <1>5 DEF TakeBack, GuardTypeOK, Busy
  <1>6. ASSUME Return PROVE GuardTypeOK' /\ Busy'
    <2>1. turn' \in 0 .. MaxListeners /\ alert' = "none"
          /\ UNCHANGED <<listeners, inbox, snap, AlretCount, popup>>
      BY <1>t, <1>6 DEF Return
    <2> QED
      BY <1>t, <2>1 DEF GuardTypeOK, Busy
  <1> QED
    BY <1>1, <1>2, <1>3, <1>4, <1>5, <1>6, GuardedStep DEF GuardStep

\* Nobody but a client starts the handler.
LEMMA NextUntouched ==
    ASSUME TypeOK, Untouched, [Next]_vars
    PROVE  /\ Untouched'
           /\ requests' = 0 /\ turns' = 0 => requests = 0 /\ turns = 0 /\ read' = read
  <1>t. requests \in Nat /\ turns \in Nat
    BY BoundsAssumption DEF TypeOK
  <1>1. ASSUME NEW c \in Conns, Request(c) PROVE requests' # 0
    BY <1>t, <1>1 DEF Request
  <1>2. ASSUME NEW c \in Conns, Hangup(c) \/ Handler(c) PROVE requests' = requests /\ requests # 0
    <2>1. conn[c] # Free
      BY <1>2 DEF Hangup, Handler, Refuse, AlreadyThere, Engage, Free, Conn
    <2>2. requests' = requests
      BY <1>2 DEF Hangup, Handler, Refuse, AlreadyThere, Engage, bounds
    <2> QED
      BY <2>1, <2>2 DEF Untouched
  <1>3. ASSUME Running PROVE requests' = requests /\ requests # 0
    <2>1. pc \notin {"down", "idle"} /\ requests' = requests
      BY <1>3 DEF Running, Raise, Check1, Check2, Settle, Reply, bounds
    <2> QED
      BY <2>1 DEF Untouched
  <1>4. ASSUME Start PROVE pc' = "idle" /\ UNCHANGED <<conn, read, requests, turns>>
    BY <1>4 DEF Start, bounds
  <1>5. ASSUME Deliver \/ UNCHANGED vars PROVE UNCHANGED <<pc, conn, read, requests, turns>>
    BY <1>5 DEF Deliver, vars, process, bounds
  <1>6. ASSUME Turn PROVE UNCHANGED <<pc, conn, requests>> /\ turns' # 0
    BY <1>t, <1>6 DEF Turn, process
  <1>7. ASSUME Crash
        PROVE  pc' = "down" /\ conn' = [c \in Conns |-> Free] /\ UNCHANGED <<read, requests, turns>>
    BY <1>7 DEF Crash
  <1> QED
    BY <1>1, <1>2, <1>3, <1>4, <1>5, <1>6, <1>7 DEF Next, Untouched

\* An alert is raised over what is still there, or somebody has been at work.
LEMMA NextCause ==
    ASSUME TypeOK, Untouched, AlertHasCause, [GuardedNext]_allVars
    PROVE  AlertHasCause'
  <1> SUFFICES ASSUME popup', requests' = 0, turns' = 0 PROVE StatusOf(read', 1) # "Close"
    <2>1. requests' \in Nat /\ turns' \in Nat
      <3>1. [Next]_vars /\ requests \in Nat /\ turns \in Nat
        BY GuardedStep, BoundsAssumption DEF TypeOK
      <3> QED
        BY <3>1 DEF Next, Request, Hangup, Handler, Refuse, AlreadyThere, Engage, Start, Running,
                    Raise, Check1, Check2, Settle, Reply, Deliver, Turn, Crash, bounds, vars
    <2> QED
      BY <2>1 DEF AlertHasCause, StatusOf
  <1>1. requests = 0 /\ turns = 0 /\ read' = read
    BY NextUntouched, GuardedStep
  <1>2. CASE popup
    BY <1>1, <1>2 DEF AlertHasCause
  <1>3. CASE ~popup
    <2>1. Disagree(read) /\ snap = "Close"
      BY <1>3, GuardedStep DEF GuardStep, AddListener, Value, Agree, Disagree, TakeBack, Return
    <2> QED
      BY <1>1, <2>1 DEF Disagree, Sees
  <1> QED
    BY <1>2, <1>3

-----------------------------------------------------------------------------
\* The invariant that the steps keep.
Inv == BothTypeOK /\ Serving /\ Busy /\ Untouched /\ AlertHasCause

\* It holds at the start.
LEMMA InitHolds == GuardedInit => Inv
  <1> SUFFICES ASSUME GuardedInit PROVE Inv
    OBVIOUS
  <1>1. TypeOK /\ Serving
    BY InitType, InitServing DEF GuardedInit
  <1>2. GuardTypeOK /\ Busy /\ AlertHasCause
    <2>1. /\ listeners = 0 /\ inbox = <<>> /\ snap = NoValue /\ turn = 0
          /\ AlretCount = 0 /\ alert = "none" /\ popup = FALSE
      BY DEF GuardedInit, GuardInit
    <2>2. inbox \in Seq(Statuses) /\ 0 \in 0 .. MaxListeners
      BY <2>1, ListenersAssumption
    <2>3. GuardTypeOK
      <3>1. listeners \in 0 .. MaxListeners /\ turn \in 0 .. MaxListeners
        BY <2>1, <2>2
      <3>2. AlretCount \in 0 .. 2 /\ alert \in {"none", "shown", "quiet"}
        BY <2>1
      <3>4. popup \in BOOLEAN
        BY <2>1
      <3>3. inbox \in Seq(Statuses) /\ snap \in Statuses \cup {NoValue}
        BY <2>1, <2>2
      <3> QED
        BY <3>1, <3>2, <3>3, <3>4 DEF GuardTypeOK
    <2> QED
      BY <2>1, <2>3 DEF Busy, AlertHasCause
  <1>3. Untouched
    BY DEF GuardedInit, Init, Untouched
  <1> QED
    BY <1>1, <1>2, <1>3 DEF Inv, BothTypeOK

\* Every step keeps it.
LEMMA StepKeeps == Inv /\ [GuardedNext]_allVars => Inv'
  <1> SUFFICES ASSUME Inv, [GuardedNext]_allVars PROVE Inv'
    OBVIOUS
  <1>t. TypeOK /\ GuardTypeOK /\ Serving /\ Busy /\ Untouched /\ AlertHasCause
    BY DEF Inv, BothTypeOK
  <1>1. [Next]_vars
    BY GuardedStep
  <1>2. TypeOK' /\ Serving'
    BY <1>t, <1>1, NextType, NextServing
  <1>3. GuardTypeOK' /\ Busy'
    BY <1>t, <1>2, GuardTyped
  <1>4. Untouched'
    BY <1>t, <1>1, NextUntouched
  <1>5. AlertHasCause'
    BY <1>t, NextCause
  <1> QED
    BY <1>2, <1>3, <1>4, <1>5 DEF Inv, BothTypeOK

\* The two processes' variables keep their types around one lock.
THEOREM BothTypeCorrect == GuardedSpec => []BothTypeOK
  <1>1. Inv => BothTypeOK
    BY DEF Inv
  <1> QED
    BY <1>1, InitHolds, StepKeeps, PTL DEF GuardedSpec

\* No alert over a lock that is closed and was left alone, however many
\* listeners the detector has piled up and however they are interleaved.
THEOREM AlertsHaveCauses == GuardedSpec => []AlertHasCause
  <1>1. Inv => AlertHasCause
    BY DEF Inv
  <1> QED
    BY <1>1, InitHolds, StepKeeps, PTL DEF GuardedSpec

=============================================================================
