------------------------- MODULE MgmtClient_proofs -------------------------
(***************************************************************************)
(* Proofs about the management client, for every set of commands, events   *)
(* and filters and every bound.                                            *)
(*                                                                         *)
(* The invariant Inv joins the properties of the run with what they rest   *)
(* on: who holds the references (RefsCounted), which callback has what     *)
(* (FramesAgree), that a client without references is empty (FreedIsEmpty) *)
(* and that the two queues hold what they are for (KindsAgree).  It is     *)
(* shown inductive one conjunct and one action at a time; the refinement   *)
(* of MgmtService is then one lemma for each kind of step.                 *)
(*                                                                         *)
(* Two more invariants rest on it.  ListenersInv follows the listeners:    *)
(* where each is, what a notification leaves marked, and whom its walk     *)
(* still has to reach.  AnswersInv counts: of every command at most as     *)
(* many requests are pending as answers are on their way, which is why the *)
(* writer is woken again; and it follows the answers that go astray.       *)
(***************************************************************************)
EXTENDS MgmtClient, FiniteSetTheorems, WellFoundedInduction, TLAPS

\* The references: the program's, and the one can_read_data takes around a
\* callback.
RefsCounted ==
    ref_count = (IF held THEN 1 ELSE 0) + (IF running \in {"complete", "notify"} THEN 1 ELSE 0)

FramesAgree ==
    /\ current # 0 <=> running \in {"complete", "write"}
    /\ in_notify <=> running = "notify"

\* A request gets an id of its own and a record of its type.
LEMMA NewTyped ==
    ASSUME TypeOK, NEW c \in Commands, NEW k \in Kinds, NewRequest(c, k)
    PROVE  /\ next_request_id \in Ids /\ next_request_id' \in 1 .. (MaxId + 1)
           /\ command' \in [Ids -> Commands \cup {Unused}] /\ kind' \in [Ids -> Kinds]
  <1>1. budget.ids \in 0 .. MaxId
    BY DEF TypeOK, FramesOK, Bounds
  <1>2. next_request_id \in 1 .. (MaxId + 1) /\ next_request_id <= budget.ids
    BY DEF TypeOK, RequestsOK, NewRequest
  <1>3. next_request_id \in Ids
    BY <1>1, <1>2, MgmtAssumption DEF Ids
  <1> QED
    BY <1>1, <1>2, <1>3, MgmtAssumption DEF TypeOK, RequestsOK, NewRequest

\* Calling a request's callback keeps the histories typed.
LEMMA CallTyped ==
    ASSUME TypeOK, NEW r \in Ids, NEW by \in Ids \cup {0}, Call(r, by)
    PROVE  calls' \in [Ids -> Nat] /\ answered' \in [Ids -> Ids \cup {0}]
  BY DEF TypeOK, RequestsOK, Call

\* So does destroying requests.
LEMMA DestroyTyped ==
    ASSUME TypeOK, NEW S, Destroy(S)
    PROVE  destroys' \in [Ids -> Nat]
  BY DEF TypeOK, RequestsOK, Destroy

\* A failed write keeps the bounds within their range.
LEMMA FailureTyped ==
    ASSUME TypeOK, NEW r \in Ids, NotWritten(r)
    PROVE  budget' \in Bounds
  <1> USE DEF TypeOK, FramesOK
  <1>1. CASE UNCHANGED budget
    BY <1>1
  <1>2. CASE budget.failures > 0 /\ budget' = [budget EXCEPT !.failures = @ - 1]
    <2>1. budget.failures - 1 \in Nat
      BY <1>2 DEF Bounds
    <2> QED
      BY <1>2, <2>1 DEF Bounds
  <1> QED
    BY <1>1, <1>2 DEF NotWritten

\* What send_request leaves behind, whether it succeeds or fails.
LEMMA WriteTyped ==
    ASSUME TypeOK, NEW r \in Ids, Written(r) \/ NotWritten(r)
    PROVE  /\ calls' \in [Ids -> Nat] /\ answered' \in [Ids -> Ids \cup {0}]
           /\ destroys' \in [Ids -> Nat] /\ sent' \in [Ids -> Nat] /\ writes' \in Nat
           /\ pending_list' \subseteq Ids /\ kernel' \subseteq Ids /\ budget' \in Bounds
  <1>1. CASE Written(r)
    BY <1>1 DEF Written, fates, TypeOK, RequestsOK, QueuesOK, FramesOK
  <1>2. CASE NotWritten(r)
    BY <1>2, FailureTyped, CallTyped DEF NotWritten, wire, TypeOK, RequestsOK, QueuesOK
  <1> QED
    BY <1>1, <1>2

\* Outside a notification the walk is of its type.
LEMMA NoWalkTyped == NoWalk \in Walks
  BY DEF NoWalk, Walks

\* What the release of the client leaves behind.
LEMMA FreeTyped ==
    ASSUME TypeOK, NEW S, FreeAll(S)
    PROVE  QueuesOK' /\ RequestsOK' /\ ListenersOK' /\ budget' \in Bounds
             /\ {writer_active', open', reading'} \subseteq BOOLEAN
  <1> USE DEF TypeOK, FreeAll
  <1>1. QueuesOK'
    BY DEF QueuesOK
  <1>2. destroys' \in [Ids -> Nat]
    BY DestroyTyped
  <1>3. RequestsOK'
    BY <1>2 DEF RequestsOK, requests
  <1>4. ListenersOK' /\ budget' \in Bounds /\ {writer_active', open', reading'} \subseteq BOOLEAN
    BY DEF ListenersOK, FramesOK
  <1> QED
    BY <1>1, <1>3, <1>4

\* A listener gets an id of its own and a record of its type.
LEMMA RegisterTyped ==
    ASSUME TypeOK, NEW f \in Filters, Register(f)
    PROVE  ListenersOK'
  <1>1. budget.notifies \in 0 .. MaxNotify
    BY DEF TypeOK, FramesOK, Bounds
  <1>2. next_notify_id \in Notifies /\ next_notify_id' \in 1 .. (MaxNotify + 1)
    BY <1>1, MgmtAssumption DEF TypeOK, ListenersOK, Register, Notifies
  <1> QED
    BY <1>2 DEF TypeOK, ListenersOK, Register

\* What is read from the socket is an answer to a command or an event.
LEMMA HeadTyped ==
    ASSUME TypeOK, inbox # <<>>
    PROVE  /\ Tail(inbox) \in Seq(Messages)
           /\ Head(inbox)[1] = "answer" => Head(inbox)[2] \in Ids
           /\ Head(inbox)[1] = "event" => Head(inbox)[2] \in Events
  <1>1. inbox \in Seq(Messages) BY DEF TypeOK, QueuesOK
  <1>2. Head(inbox) \in Messages /\ Tail(inbox) \in Seq(Messages) BY <1>1
  <1> QED
    BY <1>2 DEF Messages

\* A step of queue_foreach keeps the walk typed.
LEMMA VisitTyped ==
    ASSUME TypeOK, NEW n \in Notifies, NEW e \in Events \cup {NoFilter},
           NEW began \in SUBSET Notifies, NEW heard \in SUBSET Notifies,
           Visit(n, e, began, heard)
    PROVE  walk' \in Walks
  BY DEF Visit, Walks

\* The kernel's answer keeps the socket typed.
LEMMA AnswerTyped ==
    ASSUME TypeOK, NEW q \in Ids, Answer(q)
    PROVE  inbox' \in Seq(Messages) /\ kernel' \subseteq Ids
  <1>1. <<"answer", q>> \in Messages BY DEF Messages
  <1> QED
    BY <1>1 DEF TypeOK, QueuesOK, Answer

\* So does its event.
LEMMA EmitTyped ==
    ASSUME TypeOK, NEW e \in Events, Emit(e)
    PROVE  inbox' \in Seq(Messages) /\ budget' \in Bounds
  <1>1. <<"event", e>> \in Messages BY DEF Messages
  <1>2. budget \in Bounds /\ budget.events - 1 \in Nat
    BY DEF TypeOK, FramesOK, Emit, Bounds
  <1>3. budget' \in Bounds
    BY <1>2 DEF Emit, Bounds
  <1> QED
    BY <1>1, <1>3 DEF TypeOK, QueuesOK, Emit

\* A fault keeps the bounds within their range.
LEMMA FaultTyped ==
    ASSUME TypeOK, budget.faults > 0, budget' = [budget EXCEPT !.faults = @ - 1]
    PROVE  budget' \in Bounds
  <1>1. budget \in Bounds /\ budget.faults - 1 \in Nat
    BY DEF TypeOK, FramesOK, Bounds
  <1> QED
    BY <1>1 DEF Bounds

-----------------------------------------------------------------------------
\* Every step keeps the count of the references right.
LEMMA RefsStep ==
    ASSUME TypeOK, RefsCounted, FramesAgree, Next
    PROVE  RefsCounted'
  <1> USE DEF RefsCounted, refs, frames, PutRef
  <1>1. ASSUME Program PROVE RefsCounted'
    <2>1. CASE Unref
      BY <2>1 DEF Unref
    <2>2. CASE ~Unref
      <3>1. UNCHANGED <<refs, running>>
        BY <1>1, <2>2 DEF Program, Send, Reply, SendNowait, Cancel, CancelIndex, CancelAll, Without,
           Register, Unregister, UnregisterIndex, UnregisterAll, Drop
      <3> QED BY <3>1
    <2> QED BY <2>1, <2>2
  <1>2. CASE CanWriteData
    BY <1>2 DEF CanWriteData, Idle
  <1>3. CASE Read
    BY <1>3 DEF Read, ReadAnswer, ReadEvent, Idle, TypeOK
  <1>4. CASE Return
    <2>1. CASE Complete \/ NotifyDone
      BY <2>1 DEF Complete, NotifyDone
    <2>2. CASE WriteFailed
      BY <2>2 DEF WriteFailed
    <2>3. CASE NotifyNext
      BY <2>3 DEF NotifyNext
    <2>4. ASSUME NEW r \in Ids, NowaitFailed(r) PROVE RefsCounted'
      BY <2>4 DEF NowaitFailed
    <2> QED BY <1>4, <2>1, <2>2, <2>3, <2>4 DEF Return
  <1>5. CASE Hangup \/ ReadFails \/ (\E q \in Ids : Answer(q)) \/ (\E e \in Events : Emit(e))
    BY <1>5 DEF Hangup, ReadFails, Answer, Emit
  <1> QED
    BY <1>1, <1>2, <1>3, <1>4, <1>5 DEF Next

\* Every step keeps the types.
LEMMA TypeStep ==
    ASSUME TypeOK, RefsCounted, FramesAgree, Next
    PROVE  TypeOK'
  <1> USE DEF TypeOK
  <1>0. ref_count' \in 0 .. 2
    BY RefsStep DEF RefsCounted, FlagsOK
  <1>1. ASSUME NEW c \in Commands, Send(c) PROVE TypeOK'
    <2>1. QueuesOK'
      BY <1>1, NewTyped DEF QueuesOK, Send, Awake, Kinds, queues, wire
    <2>2. RequestsOK'
      BY <1>1, NewTyped DEF RequestsOK, Send, Awake, Kinds, requests, wire, fates
    <2>3. ListenersOK'
      BY <1>1, NewTyped DEF ListenersOK, Send, Awake, Kinds, listeners
    <2>4. FramesOK'
      BY <1>1, NewTyped DEF FramesOK, Send, Awake, Kinds, frames, refs, Places
    <2>5. FlagsOK'
      BY <1>1, NewTyped DEF FlagsOK, Send, Awake, Kinds, io, refs, listeners, frames
    <2> QED BY <2>1, <2>2, <2>3, <2>4, <2>5, <1>0
  <1>2. ASSUME NEW c \in Commands, Reply(c) PROVE TypeOK'
    <2>1. QueuesOK'
      BY <1>2, NewTyped DEF QueuesOK, Reply, Awake, Kinds, queues, wire
    <2>2. RequestsOK'
      BY <1>2, NewTyped DEF RequestsOK, Reply, Awake, Kinds, requests, wire, fates
    <2>3. ListenersOK'
      BY <1>2, NewTyped DEF ListenersOK, Reply, Awake, Kinds, listeners
    <2>4. FramesOK'
      BY <1>2, NewTyped DEF FramesOK, Reply, Awake, Kinds, frames, refs, Places
    <2>5. FlagsOK'
      BY <1>2, NewTyped DEF FlagsOK, Reply, Awake, Kinds, io, refs, listeners, frames
    <2> QED BY <2>1, <2>2, <2>3, <2>4, <2>5, <1>0
  <1>3. ASSUME NEW c \in Commands, SendNowait(c) PROVE TypeOK'
    <2>1. QueuesOK'
      BY <1>3, NewTyped, WriteTyped DEF QueuesOK, SendNowait, Kinds, queues, wire
    <2>2. RequestsOK'
      BY <1>3, NewTyped, WriteTyped DEF RequestsOK, SendNowait, Kinds, requests, wire, fates
    <2>3. ListenersOK'
      BY <1>3, NewTyped, WriteTyped DEF ListenersOK, SendNowait, Kinds, listeners
    <2>4. FramesOK'
      BY <1>3, NewTyped, WriteTyped DEF FramesOK, SendNowait, Kinds, frames, refs, Places
    <2>5. FlagsOK'
      BY <1>3, NewTyped, WriteTyped DEF FlagsOK, SendNowait, Kinds, io, refs, listeners, frames
    <2> QED BY <2>1, <2>2, <2>3, <2>4, <2>5, <1>0
  <1>4. ASSUME NEW r \in Ids, Cancel(r) PROVE TypeOK'
    <2>1. QueuesOK'
      BY <1>4, DestroyTyped DEF QueuesOK, Cancel, Without, Awake, queues, wire
    <2>2. RequestsOK'
      BY <1>4, DestroyTyped DEF RequestsOK, Cancel, Without, Awake, requests, wire, fates
    <2>3. ListenersOK'
      BY <1>4, DestroyTyped DEF ListenersOK, Cancel, Without, Awake, listeners
    <2>4. FramesOK'
      BY <1>4, DestroyTyped DEF FramesOK, Cancel, Without, Awake, frames, refs, Places
    <2>5. FlagsOK'
      BY <1>4, DestroyTyped DEF FlagsOK, Cancel, Without, Awake, io, refs, listeners, frames
    <2> QED BY <2>1, <2>2, <2>3, <2>4, <2>5, <1>0
  <1>5. ASSUME NEW i \in Indexes, CancelIndex(i) PROVE TypeOK'
    <2>1. QueuesOK'
      BY <1>5, DestroyTyped DEF QueuesOK, CancelIndex, Without, queues, wire
    <2>2. RequestsOK'
      BY <1>5, DestroyTyped DEF RequestsOK, CancelIndex, Without, requests, wire, fates
    <2>3. ListenersOK'
      BY <1>5, DestroyTyped DEF ListenersOK, CancelIndex, Without, listeners
    <2>4. FramesOK'
      BY <1>5, DestroyTyped DEF FramesOK, CancelIndex, Without, frames, refs, Places
    <2>5. FlagsOK'
      BY <1>5, DestroyTyped DEF FlagsOK, CancelIndex, Without, io, refs, listeners, frames
    <2> QED BY <2>1, <2>2, <2>3, <2>4, <2>5, <1>0
  <1>6. ASSUME NEW i \in Indexes, UnregisterIndex(i) PROVE TypeOK'
    <2>1. QueuesOK'
      BY <1>6 DEF QueuesOK, UnregisterIndex, Drop, queues, wire
    <2>2. RequestsOK'
      BY <1>6 DEF RequestsOK, UnregisterIndex, Drop, requests, wire, fates
    <2>3. ListenersOK'
      BY <1>6 DEF ListenersOK, UnregisterIndex, Drop, listeners
    <2>4. FramesOK'
      BY <1>6 DEF FramesOK, UnregisterIndex, Drop, frames, refs, Places
    <2>5. FlagsOK'
      BY <1>6 DEF FlagsOK, UnregisterIndex, Drop, io, refs, listeners, frames
    <2> QED BY <2>1, <2>2, <2>3, <2>4, <2>5, <1>0
  <1>7. ASSUME NEW f \in Filters, Register(f) PROVE TypeOK'
    <2>1. QueuesOK'
      BY <1>7, RegisterTyped DEF QueuesOK, Register, queues, wire
    <2>2. RequestsOK'
      BY <1>7, RegisterTyped DEF RequestsOK, Register, requests, wire, fates
    <2>3. ListenersOK'
      BY <1>7, RegisterTyped DEF ListenersOK, Register, listeners
    <2>4. FramesOK'
      BY <1>7, RegisterTyped DEF FramesOK, Register, frames, refs, Places
    <2>5. FlagsOK'
      BY <1>7, RegisterTyped DEF FlagsOK, Register, io, refs, listeners, frames
    <2> QED BY <2>1, <2>2, <2>3, <2>4, <2>5, <1>0
  <1>8. ASSUME NEW n \in Notifies, Unregister(n) PROVE TypeOK'
    <2>1. QueuesOK'
      BY <1>8 DEF QueuesOK, Unregister, queues, wire
    <2>2. RequestsOK'
      BY <1>8 DEF RequestsOK, Unregister, requests, wire, fates
    <2>3. ListenersOK'
      BY <1>8 DEF ListenersOK, Unregister, listeners
    <2>4. FramesOK'
      BY <1>8 DEF FramesOK, Unregister, frames, refs, Places
    <2>5. FlagsOK'
      BY <1>8 DEF FlagsOK, Unregister, io, refs, listeners, frames
    <2> QED BY <2>1, <2>2, <2>3, <2>4, <2>5, <1>0
  <1>9. CASE CancelAll
    <2>1. QueuesOK'
      BY <1>9, DestroyTyped DEF QueuesOK, CancelAll, Without, queues, wire
    <2>2. RequestsOK'
      BY <1>9, DestroyTyped DEF RequestsOK, CancelAll, Without, requests, wire, fates
    <2>3. ListenersOK'
      BY <1>9, DestroyTyped DEF ListenersOK, CancelAll, Without, listeners
    <2>4. FramesOK'
      BY <1>9, DestroyTyped DEF FramesOK, CancelAll, Without, frames, refs, Places
    <2>5. FlagsOK'
      BY <1>9, DestroyTyped DEF FlagsOK, CancelAll, Without, io, refs, listeners, frames
    <2> QED BY <2>1, <2>2, <2>3, <2>4, <2>5, <1>0
  <1>10. CASE UnregisterAll
    <2>1. QueuesOK'
      BY <1>10 DEF QueuesOK, UnregisterAll, Drop, queues, wire
    <2>2. RequestsOK'
      BY <1>10 DEF RequestsOK, UnregisterAll, Drop, requests, wire, fates
    <2>3. ListenersOK'
      BY <1>10 DEF ListenersOK, UnregisterAll, Drop, listeners
    <2>4. FramesOK'
      BY <1>10 DEF FramesOK, UnregisterAll, Drop, frames, refs, Places
    <2>5. FlagsOK'
      BY <1>10 DEF FlagsOK, UnregisterAll, Drop, io, refs, listeners, frames
    <2> QED BY <2>1, <2>2, <2>3, <2>4, <2>5, <1>0
  <1>11. CASE Unref
    <2>1. QueuesOK'
      BY <1>11, FreeTyped DEF QueuesOK, Unref, queues, wire
    <2>2. RequestsOK'
      BY <1>11, FreeTyped DEF RequestsOK, Unref, requests, wire, fates
    <2>3. ListenersOK'
      BY <1>11, FreeTyped DEF ListenersOK, Unref, listeners
    <2>4. FramesOK'
      BY <1>11, FreeTyped DEF FramesOK, Unref, frames, refs, Places
    <2>5. FlagsOK'
      BY <1>11, FreeTyped DEF FlagsOK, Unref, io, refs, listeners, frames
    <2> QED BY <2>1, <2>2, <2>3, <2>4, <2>5, <1>0
  <1>12. CASE CanWriteData
    <2>1. QueuesOK'
      BY <1>12, WriteTyped DEF QueuesOK, CanWriteData, queues, wire
    <2>2. RequestsOK'
      BY <1>12, WriteTyped DEF RequestsOK, CanWriteData, requests, wire, fates
    <2>3. ListenersOK'
      BY <1>12, WriteTyped DEF ListenersOK, CanWriteData, listeners
    <2>4. FramesOK'
      BY <1>12, WriteTyped DEF FramesOK, CanWriteData, frames, refs, Places
    <2>5. FlagsOK'
      BY <1>12, WriteTyped DEF FlagsOK, CanWriteData, io, refs, listeners, frames
    <2> QED BY <2>1, <2>2, <2>3, <2>4, <2>5, <1>0
  <1>13. CASE ReadAnswer
    <2>1. QueuesOK'
      BY <1>13, CallTyped, HeadTyped DEF QueuesOK, ReadAnswer, Idle, Awake, queues, wire
    <2>2. RequestsOK'
      BY <1>13, CallTyped, HeadTyped DEF RequestsOK, ReadAnswer, Idle, Awake, requests, wire, fates
    <2>3. ListenersOK'
      BY <1>13, CallTyped, HeadTyped DEF ListenersOK, ReadAnswer, Idle, Awake, listeners
    <2>4. FramesOK'
      BY <1>13, CallTyped, HeadTyped DEF FramesOK, ReadAnswer, Idle, Awake, frames, refs, Places
    <2>5. FlagsOK'
      BY <1>13, CallTyped, HeadTyped DEF FlagsOK, ReadAnswer, Idle, Awake, io, refs, listeners, frames
    <2> QED BY <2>1, <2>2, <2>3, <2>4, <2>5, <1>0
  <1>14. CASE ReadEvent
    <2>1. QueuesOK'
      BY <1>14, HeadTyped, VisitTyped DEF QueuesOK, ReadEvent, Idle, queues, wire
    <2>2. RequestsOK'
      BY <1>14, HeadTyped, VisitTyped DEF RequestsOK, ReadEvent, Idle, requests, wire, fates
    <2>3. ListenersOK'
      BY <1>14, HeadTyped, VisitTyped DEF ListenersOK, ReadEvent, Idle, listeners
    <2>4. FramesOK'
      <3>1. walk' \in Walks
        <4>1. CASE UNCHANGED walk
          BY <4>1 DEF FramesOK
        <4>2. CASE ~ UNCHANGED walk
          BY <1>14, <4>2, HeadTyped, VisitTyped DEF ReadEvent, frames, ListenersOK
        <4> QED BY <4>1, <4>2
      <3> QED BY <1>14, <3>1 DEF FramesOK, ReadEvent, Idle, frames, Places
    <2>5. FlagsOK'
      BY <1>14, HeadTyped, VisitTyped DEF FlagsOK, ReadEvent, Idle, io, refs, listeners, frames
    <2> QED BY <2>1, <2>2, <2>3, <2>4, <2>5, <1>0
  <1>15. CASE Complete
    <2>1. QueuesOK'
      BY <1>15, DestroyTyped, FreeTyped DEF QueuesOK, Complete, Awake, queues, wire
    <2>2. RequestsOK'
      BY <1>15, DestroyTyped, FreeTyped DEF RequestsOK, Complete, Awake, requests, wire, fates
    <2>3. ListenersOK'
      BY <1>15, DestroyTyped, FreeTyped DEF ListenersOK, Complete, Awake, listeners
    <2>4. FramesOK'
      BY <1>15, DestroyTyped, FreeTyped DEF FramesOK, Complete, Awake, frames, refs, Places
    <2>5. FlagsOK'
      BY <1>15, DestroyTyped, FreeTyped DEF FlagsOK, Complete, Awake, io, refs, listeners, frames
    <2> QED BY <2>1, <2>2, <2>3, <2>4, <2>5, <1>0
  <1>16. CASE WriteFailed
    <2>1. QueuesOK'
      BY <1>16, DestroyTyped DEF QueuesOK, WriteFailed, queues, wire
    <2>2. RequestsOK'
      BY <1>16, DestroyTyped DEF RequestsOK, WriteFailed, requests, wire, fates
    <2>3. ListenersOK'
      BY <1>16, DestroyTyped DEF ListenersOK, WriteFailed, listeners
    <2>4. FramesOK'
      BY <1>16, DestroyTyped DEF FramesOK, WriteFailed, frames, refs, Places
    <2>5. FlagsOK'
      BY <1>16, DestroyTyped DEF FlagsOK, WriteFailed, io, refs, listeners, frames
    <2> QED BY <2>1, <2>2, <2>3, <2>4, <2>5, <1>0
  <1>17. CASE NotifyNext
    <2>1. QueuesOK'
      BY <1>17, VisitTyped DEF QueuesOK, NotifyNext, queues, wire
    <2>2. RequestsOK'
      BY <1>17, VisitTyped DEF RequestsOK, NotifyNext, requests, wire, fates
    <2>3. ListenersOK'
      BY <1>17, VisitTyped DEF ListenersOK, NotifyNext, listeners
    <2>4. FramesOK'
      <3>1. /\ walk.event \in Events \cup {NoFilter}
            /\ walk.began \in SUBSET Notifies /\ walk.heard \in SUBSET Notifies
        BY DEF FramesOK, Walks
      <3>2. walk' \in Walks
        BY <1>17, <3>1, VisitTyped DEF NotifyNext
      <3> QED BY <1>17, <3>2 DEF FramesOK, NotifyNext
    <2>5. FlagsOK'
      BY <1>17, VisitTyped DEF FlagsOK, NotifyNext, io, refs, listeners, frames
    <2> QED BY <2>1, <2>2, <2>3, <2>4, <2>5, <1>0
  <1>18. CASE NotifyDone
    <2>1. QueuesOK'
      BY <1>18, FreeTyped, NoWalkTyped DEF QueuesOK, NotifyDone, queues, wire
    <2>2. RequestsOK'
      BY <1>18, FreeTyped, NoWalkTyped DEF RequestsOK, NotifyDone, requests, wire, fates
    <2>3. ListenersOK'
      BY <1>18, FreeTyped, NoWalkTyped DEF ListenersOK, NotifyDone, listeners
    <2>4. FramesOK'
      BY <1>18, FreeTyped, NoWalkTyped DEF FramesOK, NotifyDone, frames, refs, Places
    <2>5. FlagsOK'
      BY <1>18, FreeTyped, NoWalkTyped DEF FlagsOK, NotifyDone, io, refs, listeners, frames
    <2> QED BY <2>1, <2>2, <2>3, <2>4, <2>5, <1>0
  <1>19. ASSUME NEW r \in Ids, NowaitFailed(r) PROVE TypeOK'
    <2>1. QueuesOK'
      BY <1>19, DestroyTyped DEF QueuesOK, NowaitFailed, queues, wire
    <2>2. RequestsOK'
      BY <1>19, DestroyTyped DEF RequestsOK, NowaitFailed, requests, wire, fates
    <2>3. ListenersOK'
      BY <1>19, DestroyTyped DEF ListenersOK, NowaitFailed, listeners
    <2>4. FramesOK'
      BY <1>19, DestroyTyped DEF FramesOK, NowaitFailed, frames, refs, Places
    <2>5. FlagsOK'
      BY <1>19, DestroyTyped DEF FlagsOK, NowaitFailed, io, refs, listeners, frames
    <2> QED BY <2>1, <2>2, <2>3, <2>4, <2>5, <1>0
  <1>20. CASE Hangup
    <2>1. QueuesOK'
      BY <1>20, FaultTyped DEF QueuesOK, Hangup, queues, wire
    <2>2. RequestsOK'
      BY <1>20, FaultTyped DEF RequestsOK, Hangup, requests, wire, fates
    <2>3. ListenersOK'
      BY <1>20, FaultTyped DEF ListenersOK, Hangup, listeners
    <2>4. FramesOK'
      BY <1>20, FaultTyped DEF FramesOK, Hangup, frames, refs, Places
    <2>5. FlagsOK'
      BY <1>20, FaultTyped DEF FlagsOK, Hangup, io, refs, listeners, frames
    <2> QED BY <2>1, <2>2, <2>3, <2>4, <2>5, <1>0
  <1>21. CASE ReadFails
    <2>1. QueuesOK'
      BY <1>21, FaultTyped DEF QueuesOK, ReadFails, queues, wire
    <2>2. RequestsOK'
      BY <1>21, FaultTyped DEF RequestsOK, ReadFails, requests, wire, fates
    <2>3. ListenersOK'
      BY <1>21, FaultTyped DEF ListenersOK, ReadFails, listeners
    <2>4. FramesOK'
      BY <1>21, FaultTyped DEF FramesOK, ReadFails, frames, refs, Places
    <2>5. FlagsOK'
      BY <1>21, FaultTyped DEF FlagsOK, ReadFails, io, refs, listeners, frames
    <2> QED BY <2>1, <2>2, <2>3, <2>4, <2>5, <1>0
  <1>22. ASSUME NEW q \in Ids, Answer(q) PROVE TypeOK'
    <2>1. QueuesOK'
      BY <1>22, AnswerTyped DEF QueuesOK, Answer, queues, wire
    <2>2. RequestsOK'
      BY <1>22, AnswerTyped DEF RequestsOK, Answer, requests, wire, fates
    <2>3. ListenersOK'
      BY <1>22, AnswerTyped DEF ListenersOK, Answer, listeners
    <2>4. FramesOK'
      BY <1>22, AnswerTyped DEF FramesOK, Answer, frames, refs, Places
    <2>5. FlagsOK'
      BY <1>22, AnswerTyped DEF FlagsOK, Answer, io, refs, listeners, frames
    <2> QED BY <2>1, <2>2, <2>3, <2>4, <2>5, <1>0
  <1>23. ASSUME NEW e \in Events, Emit(e) PROVE TypeOK'
    <2>1. QueuesOK'
      BY <1>23, EmitTyped DEF QueuesOK, Emit, queues, wire
    <2>2. RequestsOK'
      BY <1>23, EmitTyped DEF RequestsOK, Emit, requests, wire, fates
    <2>3. ListenersOK'
      BY <1>23, EmitTyped DEF ListenersOK, Emit, listeners
    <2>4. FramesOK'
      BY <1>23, EmitTyped DEF FramesOK, Emit, frames, refs, Places
    <2>5. FlagsOK'
      BY <1>23, EmitTyped DEF FlagsOK, Emit, io, refs, listeners, frames
    <2> QED BY <2>1, <2>2, <2>3, <2>4, <2>5, <1>0
  <1> QED
    BY <1>1, <1>2, <1>3, <1>4, <1>5, <1>6, <1>7, <1>8, <1>9, <1>10, <1>11, <1>12, <1>13, <1>14, <1>15, <1>16, <1>17, <1>18, <1>19, <1>20, <1>21, <1>22, <1>23
       DEF Next, Program, Read, Return

-----------------------------------------------------------------------------
\* After the last reference the queues are empty and the socket is closed.
FreedIsEmpty == ref_count = 0 => Queued = {} /\ ~open

\* Each queue holds what its call put there.
KindsAgree ==
    /\ \A r \in request_queue : kind[r] = "request"
    /\ \A r \in reply_queue : kind[r] = "reply"

\* Every step keeps the running callback and its request together.
LEMMA FramesStep ==
    ASSUME TypeOK, FramesAgree, Next
    PROVE  FramesAgree'
  <1> USE DEF FramesAgree, frames, TypeOK, FramesOK, Ids
  <1>1. ASSUME NEW c \in Commands, Send(c) PROVE FramesAgree'
    BY <1>1 DEF Send, NewRequest, Awake
  <1>2. ASSUME NEW c \in Commands, Reply(c) PROVE FramesAgree'
    BY <1>2 DEF Reply, NewRequest, Awake
  <1>3. ASSUME NEW c \in Commands, SendNowait(c) PROVE FramesAgree'
    BY <1>3 DEF SendNowait, NewRequest, Written, NotWritten, Call
  <1>4. ASSUME NEW r \in Ids, Cancel(r) PROVE FramesAgree'
    BY <1>4 DEF Cancel, Without, Destroy
  <1>5. ASSUME NEW i \in Indexes, CancelIndex(i) PROVE FramesAgree'
    BY <1>5 DEF CancelIndex, Without, Destroy
  <1>6. CASE CancelAll
    BY <1>6 DEF CancelAll, Without, Destroy
  <1>7. CASE UnregisterAll \/ \E i \in Indexes : UnregisterIndex(i)
    BY <1>7 DEF UnregisterAll, UnregisterIndex, Drop
  <1>8. CASE (\E f \in Filters : Register(f)) \/ \E n \in Notifies : Unregister(n)
    BY <1>8 DEF Register, Unregister
  <1>9. CASE Unref
    BY <1>9 DEF Unref, PutRef, FreeAll, Destroy
  <1>10. CASE CanWriteData
    <2>1. CASE UNCHANGED frames
      BY <2>1
    <2>2. ASSUME NEW r \in Ids, Idle, running' = "write", current' = r, UNCHANGED in_notify
          PROVE  FramesAgree'
      BY <2>2 DEF Idle
    <2> QED BY <1>10, <2>1, <2>2 DEF CanWriteData
  <1>11. CASE ReadAnswer
    BY <1>11 DEF ReadAnswer, Idle, FirstSent, Matching, Call
  <1>12. CASE Complete
    BY <1>12 DEF Complete, PutRef, FreeAll, Destroy
  <1>13. CASE WriteFailed
    BY <1>13 DEF WriteFailed, Destroy
  <1>14. CASE NotifyDone
    BY <1>14 DEF NotifyDone, PutRef, FreeAll, Destroy
  <1>15. ASSUME NEW r \in Ids, NowaitFailed(r) PROVE FramesAgree'
    BY <1>15 DEF NowaitFailed, Destroy
  <1>16. CASE ReadEvent \/ NotifyNext
    BY <1>16 DEF ReadEvent, NotifyNext, Idle
  <1>17. CASE Hangup \/ ReadFails
    BY <1>17 DEF Hangup, ReadFails
  <1>18. CASE (\E q \in Ids : Answer(q)) \/ \E e \in Events : Emit(e)
    BY <1>18 DEF Answer, Emit
  <1> QED
    BY <1>1, <1>2, <1>3, <1>4, <1>5, <1>6, <1>7, <1>8, <1>9, <1>10, <1>11, <1>12, <1>13, <1>14, <1>15, <1>16, <1>17, <1>18
       DEF Next, Program, Read, Return

\* Every step keeps a client that has no reference empty and closed.
LEMMA FreedStep ==
    ASSUME TypeOK, RefsCounted, FramesAgree, FreedIsEmpty, Next
    PROVE  FreedIsEmpty'
  <1> USE DEF FreedIsEmpty, RefsCounted, FramesAgree, Queued, queues, io, refs, frames, TypeOK, FlagsOK
  <1>1. ASSUME NEW c \in Commands, Send(c) PROVE FreedIsEmpty'
    BY <1>1 DEF Send, NewRequest, Awake
  <1>2. ASSUME NEW c \in Commands, Reply(c) PROVE FreedIsEmpty'
    BY <1>2 DEF Reply, NewRequest, Awake
  <1>3. ASSUME NEW c \in Commands, SendNowait(c) PROVE FreedIsEmpty'
    BY <1>3 DEF SendNowait, NewRequest, Written, NotWritten, Call
  <1>4. ASSUME NEW r \in Ids, Cancel(r) PROVE FreedIsEmpty'
    BY <1>4 DEF Cancel, Without, Destroy
  <1>5. ASSUME NEW i \in Indexes, CancelIndex(i) PROVE FreedIsEmpty'
    BY <1>5 DEF CancelIndex, Without, Destroy
  <1>6. CASE CancelAll
    BY <1>6 DEF CancelAll, Without, Destroy
  <1>7. CASE UnregisterAll \/ \E i \in Indexes : UnregisterIndex(i)
    BY <1>7 DEF UnregisterAll, UnregisterIndex, Drop
  <1>8. CASE (\E f \in Filters : Register(f)) \/ \E n \in Notifies : Unregister(n)
    BY <1>8 DEF Register, Unregister
  <1>9. CASE Unref
    BY <1>9 DEF Unref, PutRef, FreeAll, Destroy
  <1>10. CASE CanWriteData
    BY <1>10 DEF CanWriteData, Idle
  <1>11. CASE ReadAnswer
    BY <1>11 DEF ReadAnswer, Idle, FirstSent, Matching, Call
  <1>12. CASE Complete
    BY <1>12 DEF Complete, PutRef, FreeAll, Destroy
  <1>13. CASE WriteFailed
    BY <1>13 DEF WriteFailed, Destroy
  <1>14. CASE NotifyDone
    BY <1>14 DEF NotifyDone, PutRef, FreeAll, Destroy
  <1>15. ASSUME NEW r \in Ids, NowaitFailed(r) PROVE FreedIsEmpty'
    BY <1>15 DEF NowaitFailed, Destroy
  <1>16. CASE ReadEvent \/ NotifyNext
    BY <1>16 DEF ReadEvent, NotifyNext
  <1>17. CASE Hangup \/ ReadFails
    BY <1>17 DEF Hangup, ReadFails
  <1>18. CASE (\E q \in Ids : Answer(q)) \/ \E e \in Events : Emit(e)
    BY <1>18 DEF Answer, Emit
  <1> QED
    BY <1>1, <1>2, <1>3, <1>4, <1>5, <1>6, <1>7, <1>8, <1>9, <1>10, <1>11, <1>12, <1>13, <1>14, <1>15, <1>16, <1>17, <1>18
       DEF Next, Program, Read, Return

\* Every step leaves each request in one place.
LEMMA InOnePlaceStep ==
    ASSUME TypeOK, FramesAgree, InOnePlace, Next
    PROVE  InOnePlace'
  <1> USE DEF InOnePlace, Placed, PlacesApart, Given, Running, Queued, TypeOK, QueuesOK, RequestsOK,
          FramesOK, FramesAgree, Ids, queues, requests, frames, fates
  <1>0. ASSUME UNCHANGED <<queues, requests, current, nested, calls, destroys>> PROVE InOnePlace'
    BY <1>0
  <1>1. ASSUME NEW c \in Commands, Send(c) PROVE InOnePlace'
    <2>1. PlacesApart'
      BY <1>1 DEF Send, NewRequest
    <2>2. ASSUME NEW q \in Ids PROVE Placed(q)'
      BY <1>1, Placed(q) DEF Send, NewRequest
    <2> QED BY <2>1, <2>2
  <1>2. ASSUME NEW c \in Commands, Reply(c) PROVE InOnePlace'
    <2>1. PlacesApart'
      BY <1>2 DEF Reply, NewRequest
    <2>2. ASSUME NEW q \in Ids PROVE Placed(q)'
      BY <1>2, Placed(q) DEF Reply, NewRequest
    <2> QED BY <2>1, <2>2
  <1>3. ASSUME NEW c \in Commands, SendNowait(c) PROVE InOnePlace'
    <2>1. PlacesApart'
      BY <1>3 DEF SendNowait, NewRequest, Written, NotWritten
    <2>2. ASSUME NEW q \in Ids PROVE Placed(q)'
      <3>1. CASE Written(next_request_id)
        BY <1>3, <3>1, Placed(q) DEF SendNowait, NewRequest, Written
      <3>2. CASE NotWritten(next_request_id)
        <4>1. next_request_id \in Ids
          BY <1>3, NewTyped DEF SendNowait, Kinds
        <4>2. CASE q = next_request_id
          <5>1. q \notin Queued \cup Running /\ destroys[q] = 0 /\ calls[q] = 0
            BY <4>2, Placed(q)
          <5>2. q \in nested' /\ UNCHANGED <<queues, destroys>> /\ calls'[q] = 1
            BY <1>3, <3>2, <4>1, <4>2, <5>1 DEF SendNowait, Written, NotWritten, Call
          <5> QED BY <1>3, <4>2, <5>1, <5>2 DEF SendNowait, NewRequest
        <4>3. CASE q # next_request_id
          BY <1>3, <3>2, <4>1, <4>3, Placed(q) DEF SendNowait, NewRequest, NotWritten, Call
        <4> QED BY <4>2, <4>3
      <3> QED BY <1>3, <3>1, <3>2 DEF SendNowait
    <2> QED BY <2>1, <2>2
  <1>4. ASSUME NEW r \in Ids, Cancel(r) PROVE InOnePlace'
    <2>1. PlacesApart'
      BY <1>4 DEF Cancel, Without, Destroy
    <2>2. ASSUME NEW q \in Ids PROVE Placed(q)'
      BY <1>4, Placed(q) DEF Cancel, Without, Destroy
    <2> QED BY <2>1, <2>2
  <1>5. ASSUME NEW i \in Indexes, CancelIndex(i) PROVE InOnePlace'
    <2>1. PlacesApart'
      BY <1>5 DEF CancelIndex, Without, Destroy
    <2>2. ASSUME NEW q \in Ids PROVE Placed(q)'
      BY <1>5, Placed(q) DEF CancelIndex, Without, Destroy
    <2> QED BY <2>1, <2>2
  <1>6. CASE CancelAll
    <2>1. PlacesApart'
      BY <1>6 DEF CancelAll, Without, Destroy
    <2>2. ASSUME NEW q \in Ids PROVE Placed(q)'
      BY <1>6, Placed(q) DEF CancelAll, Without, Destroy
    <2> QED BY <2>1, <2>2
  <1>7. CASE Unref
    <2>1. PlacesApart'
      BY <1>7 DEF Unref, FreeAll
    <2>2. ASSUME NEW q \in Ids PROVE Placed(q)'
      <3>1. CASE ref_count = 1
        BY <1>7, <3>1, Placed(q) DEF Unref, FreeAll, Destroy
      <3>2. CASE ref_count # 1
        BY <1>7, <3>2, Placed(q) DEF Unref, Destroy
      <3> QED BY <3>1, <3>2
    <2> QED BY <2>1, <2>2
  <1>8. CASE CanWriteData
    <2>1. CASE UNCHANGED <<queues, frames, fates>>
      BY <1>0, <1>8, <2>1 DEF CanWriteData
    <2>2. ASSUME NEW r \in Ids, Turn(r), Written(r), UNCHANGED frames,
                 reply_queue' = reply_queue \ {r}, request_queue' = request_queue \ {r}
          PROVE  InOnePlace'
      <3>1. UNCHANGED requests /\ r \in Queued
        BY <1>8, <2>2 DEF CanWriteData, Turn, First
      <3>2. PlacesApart'
        BY <2>2, <3>1 DEF Written
      <3>3. ASSUME NEW q \in Ids PROVE Placed(q)'
        BY <2>2, <3>1, Placed(q) DEF Written, Turn, First
      <3> QED BY <3>2, <3>3
    <2>3. ASSUME NEW r \in Ids, Turn(r), NotWritten(r), Idle, current' = r, UNCHANGED nested,
                 reply_queue' = reply_queue \ {r}, request_queue' = request_queue \ {r}
          PROVE  InOnePlace'
      <3>1. UNCHANGED requests /\ r \in Queued /\ r \notin pending_list
        BY <1>8, <2>3 DEF CanWriteData, Turn, First
      <3>2. PlacesApart'
        BY <2>3, <3>1 DEF NotWritten, Idle
      <3>3. ASSUME NEW q \in Ids PROVE Placed(q)'
        BY <2>3, <3>1, Placed(q) DEF NotWritten, Call, Idle, Turn, First
      <3> QED BY <3>2, <3>3
    <2> QED BY <1>8, <2>1, <2>2, <2>3 DEF CanWriteData
  <1>9. CASE ReadAnswer
    <2>1. CASE UNCHANGED <<queues, frames, fates>>
      BY <1>0, <1>9, <2>1 DEF ReadAnswer
    <2>2. ASSUME NEW r \in pending_list, NEW by, Call(r, by), pending_list' = pending_list \ {r},
                 current' = r, UNCHANGED <<request_queue, reply_queue, destroys, nested>>
          PROVE  InOnePlace'
      <3>1. UNCHANGED requests /\ Idle
        BY <1>9 DEF ReadAnswer
      <3>2. PlacesApart'
        BY <2>2, <3>1 DEF Idle
      <3>3. ASSUME NEW q \in Ids PROVE Placed(q)'
        BY <2>2, <3>1, Placed(q) DEF Idle, Call
      <3> QED BY <3>2, <3>3
    <2> QED BY <1>9, <2>1, <2>2 DEF ReadAnswer, FirstSent, Matching
  <1>10. CASE Complete
    <2>1. PlacesApart'
      BY <1>10 DEF Complete, FreeAll
    <2>2. ASSUME NEW q \in Ids PROVE Placed(q)'
      <3>1. CASE ref_count = 1
        BY <1>10, <3>1, Placed(q) DEF Complete, FreeAll, Destroy
      <3>2. CASE ref_count # 1
        BY <1>10, <3>2, Placed(q) DEF Complete, Destroy
      <3> QED BY <3>1, <3>2
    <2> QED BY <2>1, <2>2
  <1>11. CASE WriteFailed
    <2>1. PlacesApart'
      BY <1>11 DEF WriteFailed, Destroy
    <2>2. ASSUME NEW q \in Ids PROVE Placed(q)'
      BY <1>11, Placed(q) DEF WriteFailed, Destroy
    <2> QED BY <2>1, <2>2
  <1>12. CASE NotifyDone
    <2>1. PlacesApart'
      BY <1>12 DEF NotifyDone, FreeAll
    <2>2. ASSUME NEW q \in Ids PROVE Placed(q)'
      <3>1. CASE ref_count = 1
        BY <1>12, <3>1, Placed(q) DEF NotifyDone, FreeAll, Destroy
      <3>2. CASE ref_count # 1
        BY <1>12, <3>2, Placed(q) DEF NotifyDone, Destroy
      <3> QED BY <3>1, <3>2
    <2> QED BY <2>1, <2>2
  <1>13. ASSUME NEW r \in Ids, NowaitFailed(r) PROVE InOnePlace'
    <2>1. PlacesApart'
      BY <1>13 DEF NowaitFailed, Destroy
    <2>2. ASSUME NEW q \in Ids PROVE Placed(q)'
      BY <1>13, Placed(q) DEF NowaitFailed, Destroy
    <2> QED BY <2>1, <2>2
  <1>14. CASE UnregisterAll
    BY <1>0, <1>14 DEF UnregisterAll, Drop
  <1>15. ASSUME NEW i \in Indexes, UnregisterIndex(i) PROVE InOnePlace'
    BY <1>0, <1>15 DEF UnregisterIndex, Drop
  <1>16. CASE (\E f \in Filters : Register(f)) \/ \E n \in Notifies : Unregister(n)
    BY <1>0, <1>16 DEF Register, Unregister
  <1>17. CASE ReadEvent
    BY <1>0, <1>17 DEF ReadEvent
  <1>18. CASE NotifyNext \/ Hangup \/ ReadFails
    BY <1>0, <1>18 DEF NotifyNext, Hangup, ReadFails
  <1>19. CASE (\E q \in Ids : Answer(q)) \/ \E e \in Events : Emit(e)
    BY <1>0, <1>19 DEF Answer, Emit
  <1> QED
    BY <1>1, <1>2, <1>3, <1>4, <1>5, <1>6, <1>7, <1>8, <1>9, <1>10, <1>11, <1>12, <1>13,
       <1>14, <1>15, <1>16, <1>17, <1>18, <1>19 DEF Next, Program, Read, Return

\* Every step leaves the two queues with their own kinds.
LEMMA KindsStep ==
    ASSUME TypeOK, InOnePlace, KindsAgree, Next
    PROVE  KindsAgree'
  <1> USE DEF KindsAgree, InOnePlace, Placed, PlacesApart, Given, TypeOK, QueuesOK, RequestsOK, Ids, queues, requests, wire, refs, frames, fates, Queued
  <1>1. ASSUME NEW c \in Commands, Send(c) PROVE KindsAgree'
    <2>1. next_request_id \in Ids /\ next_request_id \notin Queued
      BY <1>1, NewTyped DEF Send, Kinds
    <2>2. kind' = [kind EXCEPT ![next_request_id] = "request"]
      BY <1>1 DEF Send, NewRequest
    <2>3. request_queue' = request_queue \cup {next_request_id} /\ UNCHANGED reply_queue
      BY <1>1 DEF Send
    <2> QED BY <2>1, <2>2, <2>3
  <1>2. ASSUME NEW c \in Commands, Reply(c) PROVE KindsAgree'
    <2>1. next_request_id \in Ids /\ next_request_id \notin Queued
      BY <1>2, NewTyped DEF Reply, Kinds
    <2>2. kind' = [kind EXCEPT ![next_request_id] = "reply"]
      BY <1>2 DEF Reply, NewRequest
    <2>3. reply_queue' = reply_queue \cup {next_request_id} /\ UNCHANGED request_queue
      BY <1>2 DEF Reply
    <2> QED BY <2>1, <2>2, <2>3
  <1>3. ASSUME NEW c \in Commands, SendNowait(c) PROVE KindsAgree'
    BY <1>3 DEF SendNowait, NewRequest, Written, NotWritten, Call
  <1>4. ASSUME NEW r \in Ids, Cancel(r) PROVE KindsAgree'
    BY <1>4 DEF Cancel, Without, Destroy
  <1>5. ASSUME NEW i \in Indexes, CancelIndex(i) PROVE KindsAgree'
    BY <1>5 DEF CancelIndex, Without, Destroy
  <1>6. CASE CancelAll
    BY <1>6 DEF CancelAll, Without, Destroy
  <1>7. CASE UnregisterAll \/ \E i \in Indexes : UnregisterIndex(i)
    BY <1>7 DEF UnregisterAll, UnregisterIndex, Drop
  <1>8. CASE (\E f \in Filters : Register(f)) \/ \E n \in Notifies : Unregister(n)
    BY <1>8 DEF Register, Unregister
  <1>9. CASE Unref
    BY <1>9 DEF Unref, PutRef, FreeAll, Destroy
  <1>10. CASE CanWriteData
    BY <1>10 DEF CanWriteData, Turn, First, Written, NotWritten, Call, Idle
  <1>11. CASE ReadAnswer
    BY <1>11 DEF ReadAnswer, Idle, FirstSent, Matching, Call
  <1>12. CASE Complete
    BY <1>12 DEF Complete, PutRef, FreeAll, Destroy
  <1>13. CASE WriteFailed
    BY <1>13 DEF WriteFailed, Destroy
  <1>14. CASE NotifyDone
    BY <1>14 DEF NotifyDone, PutRef, FreeAll, Destroy
  <1>15. ASSUME NEW r \in Ids, NowaitFailed(r) PROVE KindsAgree'
    BY <1>15 DEF NowaitFailed, Destroy
  <1>16. CASE ReadEvent \/ NotifyNext
    BY <1>16 DEF ReadEvent, NotifyNext
  <1>17. CASE Hangup \/ ReadFails
    BY <1>17 DEF Hangup, ReadFails
  <1>18. CASE (\E q \in Ids : Answer(q)) \/ \E e \in Events : Emit(e)
    BY <1>18 DEF Answer, Emit
  <1> QED
    BY <1>1, <1>2, <1>3, <1>4, <1>5, <1>6, <1>7, <1>8, <1>9, <1>10, <1>11, <1>12, <1>13, <1>14, <1>15, <1>16, <1>17, <1>18
       DEF Next, Program, Read, Return

\* Every step leaves at most one ordinary command pending: only the writer sends
\* one, and only when nothing is pending.
LEMMA OneOrdinaryStep ==
    ASSUME TypeOK, InOnePlace, KindsAgree, OneOrdinary, Next
    PROVE  OneOrdinary'
  <1> USE DEF OneOrdinary, KindsAgree, InOnePlace, Placed, PlacesApart, Given, TypeOK, QueuesOK, RequestsOK, Ids, queues, requests, wire, refs, frames, fates, Queued
  <1>1. ASSUME NEW c \in Commands, Send(c) PROVE OneOrdinary'
    BY <1>1 DEF Send, NewRequest, Awake
  <1>2. ASSUME NEW c \in Commands, Reply(c) PROVE OneOrdinary'
    BY <1>2 DEF Reply, NewRequest, Awake
  <1>3. ASSUME NEW c \in Commands, SendNowait(c) PROVE OneOrdinary'
    <2>1. next_request_id \in Ids /\ next_request_id \notin pending_list
      BY <1>3, NewTyped DEF SendNowait, Kinds
    <2>2. kind' = [kind EXCEPT ![next_request_id] = "nowait"]
      BY <1>3 DEF SendNowait, NewRequest
    <2>3. pending_list' \subseteq pending_list \cup {next_request_id}
      BY <1>3 DEF SendNowait, Written, NotWritten
    <2> QED BY <2>1, <2>2, <2>3
  <1>4. ASSUME NEW r \in Ids, Cancel(r) PROVE OneOrdinary'
    BY <1>4 DEF Cancel, Without, Destroy
  <1>5. ASSUME NEW i \in Indexes, CancelIndex(i) PROVE OneOrdinary'
    BY <1>5 DEF CancelIndex, Without, Destroy
  <1>6. CASE CancelAll
    BY <1>6 DEF CancelAll, Without, Destroy
  <1>7. CASE UnregisterAll \/ \E i \in Indexes : UnregisterIndex(i)
    BY <1>7 DEF UnregisterAll, UnregisterIndex, Drop
  <1>8. CASE (\E f \in Filters : Register(f)) \/ \E n \in Notifies : Unregister(n)
    BY <1>8 DEF Register, Unregister
  <1>9. CASE Unref
    BY <1>9 DEF Unref, PutRef, FreeAll, Destroy
  <1>10. CASE CanWriteData
    <2>1. CASE UNCHANGED pending_list
      BY <1>10, <2>1 DEF CanWriteData
    <2>2. ASSUME NEW r \in Ids, Turn(r), pending_list' = pending_list \cup {r} PROVE OneOrdinary'
      <3>1. UNCHANGED kind
        BY <1>10 DEF CanWriteData
      <3>2. CASE r \in reply_queue
        BY <2>2, <3>1, <3>2
      <3>3. CASE pending_list = {}
        BY <2>2, <3>1, <3>3
      <3> QED BY <2>2, <3>2, <3>3 DEF Turn, First
    <2> QED BY <1>10, <2>1, <2>2 DEF CanWriteData, Written, NotWritten
  <1>11. CASE ReadAnswer
    BY <1>11 DEF ReadAnswer, Idle, FirstSent, Matching, Call
  <1>12. CASE Complete
    BY <1>12 DEF Complete, PutRef, FreeAll, Destroy
  <1>13. CASE WriteFailed
    BY <1>13 DEF WriteFailed, Destroy
  <1>14. CASE NotifyDone
    BY <1>14 DEF NotifyDone, PutRef, FreeAll, Destroy
  <1>15. ASSUME NEW r \in Ids, NowaitFailed(r) PROVE OneOrdinary'
    BY <1>15 DEF NowaitFailed, Destroy
  <1>16. CASE ReadEvent \/ NotifyNext
    BY <1>16 DEF ReadEvent, NotifyNext
  <1>17. CASE Hangup \/ ReadFails
    BY <1>17 DEF Hangup, ReadFails
  <1>18. CASE (\E q \in Ids : Answer(q)) \/ \E e \in Events : Emit(e)
    BY <1>18 DEF Answer, Emit
  <1> QED
    BY <1>1, <1>2, <1>3, <1>4, <1>5, <1>6, <1>7, <1>8, <1>9, <1>10, <1>11, <1>12, <1>13, <1>14, <1>15, <1>16, <1>17, <1>18
       DEF Next, Program, Read, Return

-----------------------------------------------------------------------------
\* What every action keeps.
Inv ==
    /\ TypeOK /\ RefsCounted /\ FramesAgree /\ FreedIsEmpty
    /\ InOnePlace /\ KindsAgree /\ OneOrdinary

\* The invariant holds at the start,
LEMMA InitInv == Init => Inv
  <1> SUFFICES ASSUME Init PROVE Inv
    OBVIOUS
  <1> USE MgmtAssumption DEF Init, Ids, Notifies
  <1>1. QueuesOK /\ RequestsOK
    BY DEF QueuesOK, RequestsOK, Kinds, Messages
  <1>2. ListenersOK
    BY DEF ListenersOK
  <1>3. FlagsOK
    BY DEF FlagsOK
  <1>4. FramesOK
    BY NoWalkTyped DEF FramesOK, Places
  <1>5. RefsCounted /\ FramesAgree /\ FreedIsEmpty /\ KindsAgree /\ OneOrdinary
    BY DEF RefsCounted, FramesAgree, FreedIsEmpty, KindsAgree, OneOrdinary
  <1>6. InOnePlace
    BY DEF InOnePlace, Placed, PlacesApart, Given, Running, Queued
  <1>7. ref_count \in 0 .. 2
    OBVIOUS
  <1> QED
    BY <1>1, <1>2, <1>3, <1>4, <1>5, <1>6, <1>7 DEF Inv, TypeOK

\* is kept when nothing happens,
LEMMA InvStutter == Inv /\ UNCHANGED vars => Inv'
  BY DEF vars, queues, requests, wire, io, refs, listeners, frames, fates, Inv, TypeOK, QueuesOK,
     RequestsOK, ListenersOK, FramesOK, FlagsOK, RefsCounted, FramesAgree, FreedIsEmpty, InOnePlace,
     Placed, PlacesApart, Given, Running, Queued, KindsAgree, OneOrdinary

\* by every step,
LEMMA InvStep == Inv /\ [Next]_vars => Inv'
  BY InvStutter, TypeStep, RefsStep, FramesStep, FreedStep, InOnePlaceStep, KindsStep, OneOrdinaryStep
     DEF Inv

\* and so always.
LEMMA InvHolds == Spec => []Inv
  BY InitInv, InvStep, PTL DEF Spec

\* Every variable keeps its type, for all commands, listeners and bounds.
THEOREM TypeCorrect == Spec => []TypeOK
  BY InvHolds, PTL DEF Inv

\* No request is lost or destroyed twice, whatever the program calls from
\* inside its callbacks.
THEOREM RequestsInOnePlace == Spec => []InOnePlace
  BY InvHolds, PTL DEF Inv

\* At most one command given to mgmt_send is pending.
THEOREM OneOrdinaryPending == Spec => []OneOrdinary
  BY InvHolds, PTL DEF Inv

\* After the program has dropped its reference no request's callback runs: a
\* callback needs the socket, an open socket a reference, and on the main loop
\* only the program's can be left.
THEOREM QuietOnceUnreferenced == Spec => QuietAfterUnref
  <1>1. ASSUME Inv, Next, ~held PROVE calls' = calls
    <2> USE DEF fates
    <2>1. ~ (Idle /\ open)
      BY <1>1 DEF Inv, Idle, RefsCounted, FreedIsEmpty
    <2>2. ~Program /\ ~CanWriteData /\ ~Read
      BY <1>1, <2>1 DEF Program, Send, Reply, SendNowait, NewRequest, Cancel, CancelIndex, CancelAll,
         Register, Unregister, UnregisterIndex, UnregisterAll, Unref, CanWriteData, Read, ReadAnswer, ReadEvent
    <2>3. CASE Complete \/ NotifyDone
      BY <2>3 DEF Complete, NotifyDone, FreeAll
    <2>4. CASE WriteFailed \/ NotifyNext \/ Hangup \/ ReadFails
      BY <2>4 DEF WriteFailed, NotifyNext, Hangup, ReadFails
    <2>5. ASSUME NEW r \in Ids, NowaitFailed(r) \/ Answer(r) PROVE calls' = calls
      BY <2>5 DEF NowaitFailed, Answer
    <2>6. ASSUME NEW e \in Events, Emit(e) PROVE calls' = calls
      BY <2>6 DEF Emit
    <2> QED
      BY <1>1, <2>2, <2>3, <2>4, <2>5, <2>6 DEF Next, Return
  <1>2. Inv /\ [Next]_vars => [~held => calls' = calls]_vars
    BY <1>1
  <1> QED
    BY <1>2, InvHolds, PTL DEF Spec, QuietAfterUnref

-----------------------------------------------------------------------------
\* A step that moves no request is no step of the service.
LEMMA StutterRefines ==
    UNCHANGED <<queues, requests>> => UNCHANGED <<Phase, kind>>
  BY DEF queues, requests, Phase, Given

\* A step that takes requests out of their queues ends them for the service.
LEMMA FinishRefines ==
    ASSUME Inv, NEW S \in SUBSET Queued,
           request_queue' = request_queue \ S, reply_queue' = reply_queue \ S,
           pending_list' = pending_list \ S, UNCHANGED requests
    PROVE  Service!Next
  <1> USE DEF Inv, TypeOK, QueuesOK, InOnePlace, Placed, Queued, Given, Phase, requests
  <1>1. S \in SUBSET (Service!With("waiting") \cup Service!With("sent"))
    BY DEF Service!With
  <1>2. Phase' = [r \in Ids |-> IF r \in S THEN "over" ELSE Phase[r]]
    <2>1. \A r \in S : r \in Ids /\ r < next_request_id
      OBVIOUS
    <2> QED BY <2>1
  <1>3. Service!Finish(S)
    BY <1>2 DEF Service!Finish
  <1> QED
    BY <1>1, <1>3 DEF Service!Next

\* A call that creates a request gives it to the service.
LEMMA GiveRefines ==
    ASSUME Inv, NEW k \in Kinds, NEW c \in Commands, NewRequest(c, k),
           NEW P \in {"waiting", "sent", "over"}, (P = "waiting") <=> (k # "nowait"),
           Phase' = [Phase EXCEPT ![next_request_id] = P]
    PROVE  Service!Next
  <1>1. next_request_id \in Ids
    BY NewTyped DEF Inv
  <1>2. Service!With("new") = {r \in Ids : r >= next_request_id}
    BY DEF Service!With, Phase, Given, Inv, TypeOK, QueuesOK, RequestsOK, InOnePlace, Placed, Queued, Ids
  <1>3. /\ next_request_id \in Service!With("new")
        /\ \A q \in Service!With("new") : next_request_id <= q
    BY <1>1, <1>2 DEF Ids
  <1>4. kind' = [kind EXCEPT ![next_request_id] = k] /\ k \in Service!Kinds
    BY DEF NewRequest, Service!Kinds, Kinds
  <1>5. Service!Give(next_request_id)
    BY <1>3, <1>4 DEF Service!Give
  <1> QED
    BY <1>1, <1>5 DEF Service!Next

\* The phase a request gets when it is created.
LEMMA NewPhase ==
    ASSUME Inv, NEW k \in Kinds, NEW c \in Commands, NewRequest(c, k),
           NEW P \in {"waiting", "sent", "over"},
           (request_queue \cup reply_queue)'
             = (request_queue \cup reply_queue) \cup (IF P = "waiting" THEN {next_request_id} ELSE {}),
           pending_list' = pending_list \cup (IF P = "sent" THEN {next_request_id} ELSE {})
    PROVE  Phase' = [Phase EXCEPT ![next_request_id] = P]
  <1> DEFINE n == next_request_id
  <1>1. n \in Ids /\ n \notin Given /\ n \notin Queued
    BY NewTyped DEF Inv, InOnePlace, Placed, Given, Ids
  <1>2. Given' = Given \cup {n}
    BY <1>1 DEF NewRequest, Given, Ids, Inv, TypeOK, RequestsOK
  <1>3. ASSUME NEW r \in Ids PROVE Phase'[r] = [Phase EXCEPT ![n] = P][r]
    <2>1. CASE r = n
      BY <1>1, <1>2, <2>1 DEF Phase, Queued
    <2>2. CASE r # n
      BY <1>1, <1>2, <2>2 DEF Phase, Queued
    <2> QED BY <2>1, <2>2
  <1> QED
    BY <1>3 DEF Phase

\* A turn of the writer transmits, or does nothing the service sees.
LEMMA WriterRefines == Inv /\ CanWriteData => [Service!Next]_<<Phase, kind>>
  <1> SUFFICES ASSUME Inv, CanWriteData PROVE [Service!Next]_<<Phase, kind>>
    OBVIOUS
  <1> USE DEF Inv, TypeOK, QueuesOK, InOnePlace, Placed, PlacesApart, Queued, Given, requests, Phase
  <1>1. CASE UNCHANGED queues
    BY <1>1, StutterRefines DEF CanWriteData
  <1>2. ASSUME NEW r \in Ids, Turn(r), Written(r) \/ NotWritten(r),
               reply_queue' = reply_queue \ {r}, request_queue' = request_queue \ {r}
        PROVE  Service!Next
    <2>1. UNCHANGED requests /\ r \in request_queue \cup reply_queue /\ r \in Given /\ r \notin pending_list
      BY <1>2 DEF CanWriteData, Turn, First
    <2>2. \E p \in {"sent", "over"} : Phase' = [Phase EXCEPT ![r] = p]
      <3>1. CASE Written(r)
        BY <1>2, <2>1, <3>1 DEF Written
      <3>2. CASE NotWritten(r)
        <4>1. UNCHANGED pending_list /\ r \notin pending_list'
          BY <2>1, <3>2 DEF NotWritten
        <4>2. r \notin request_queue' \cup reply_queue'
          BY <1>2
        <4> QED
          BY <1>2, <2>1, <4>1, <4>2
      <3> QED BY <1>2, <3>1, <3>2
    <2>3. Service!With("waiting") = request_queue \cup reply_queue /\ Service!With("sent") = pending_list
      BY DEF Service!With
    <2>4. \A q \in request_queue \cup reply_queue : kind[q] = kind[r] => r <= q
      BY <1>2 DEF Turn, First, KindsAgree
    <2>5. kind[r] = "request" => pending_list = {} /\ \A q \in request_queue \cup reply_queue : kind[q] # "reply"
      BY <1>2 DEF Turn, First, KindsAgree
    <2>6. Service!Transmit(r)
      BY <2>1, <2>2, <2>3, <2>4, <2>5 DEF Service!Transmit
    <2> QED
      BY <2>6 DEF Service!Next
  <1> QED
    BY <1>1, <1>2 DEF CanWriteData

\* The release of the client ends everything that is left.
LEMMA FreeRefines ==
    ASSUME Inv, NEW S, FreeAll(S)
    PROVE  Service!Next
  <1>1. /\ request_queue' = request_queue \ Queued /\ reply_queue' = reply_queue \ Queued
        /\ pending_list' = pending_list \ Queued /\ UNCHANGED requests
    BY DEF FreeAll, Queued
  <1> QED
    BY <1>1, FinishRefines

\* Every call of the program is a step of the service,
LEMMA ProgramRefines == Inv /\ Program => [Service!Next]_<<Phase, kind>>
  <1> SUFFICES ASSUME Inv, Program PROVE [Service!Next]_<<Phase, kind>>
    OBVIOUS
  <1> USE DEF Kinds
  <1>1. ASSUME NEW c \in Commands, Send(c) PROVE Service!Next
    BY <1>1, NewPhase, GiveRefines DEF Send
  <1>2. ASSUME NEW c \in Commands, Reply(c) PROVE Service!Next
    BY <1>2, NewPhase, GiveRefines DEF Reply
  <1>3. ASSUME NEW c \in Commands, SendNowait(c) PROVE Service!Next
    <2>1. CASE Written(next_request_id)
      BY <1>3, <2>1, NewPhase, GiveRefines DEF SendNowait, Written
    <2>2. CASE NotWritten(next_request_id)
      BY <1>3, <2>2, NewPhase, GiveRefines DEF SendNowait, NotWritten
    <2> QED BY <1>3, <2>1, <2>2 DEF SendNowait
  <1>4. ASSUME NEW r \in Ids, Cancel(r) PROVE Service!Next
    BY <1>4, FinishRefines DEF Cancel, Without, Queued
  <1>5. ASSUME NEW i, CancelIndex(i) PROVE Service!Next
    BY <1>5, FinishRefines DEF CancelIndex, Without
  <1>6. CASE CancelAll
    BY <1>6, FinishRefines DEF CancelAll, Without
  <1>7. CASE Unref
    <2>1. CASE ref_count = 1
      BY <1>7, <2>1, FreeRefines DEF Unref
    <2>2. CASE ref_count # 1
      BY <1>7, <2>2, StutterRefines DEF Unref
    <2> QED BY <2>1, <2>2
  <1>8. ASSUME NEW i, UnregisterIndex(i) PROVE UNCHANGED <<Phase, kind>>
    BY <1>8, StutterRefines DEF UnregisterIndex, Drop
  <1>9. ASSUME NEW f, Register(f) PROVE UNCHANGED <<Phase, kind>>
    BY <1>9, StutterRefines DEF Register
  <1>10. ASSUME NEW n, Unregister(n) PROVE UNCHANGED <<Phase, kind>>
    BY <1>10, StutterRefines DEF Unregister
  <1>11. CASE UnregisterAll
    BY <1>11, StutterRefines DEF UnregisterAll, Drop
  <1> QED
    BY <1>1, <1>2, <1>3, <1>4, <1>5, <1>6, <1>7, <1>8, <1>9, <1>10, <1>11 DEF Program

\* and so is what the main loop reads and returns from.
LEMMA LoopRefines == Inv /\ (Read \/ Return) => [Service!Next]_<<Phase, kind>>
  <1> SUFFICES ASSUME Inv, Read \/ Return PROVE [Service!Next]_<<Phase, kind>>
    OBVIOUS
  <1>1. CASE ReadAnswer
    <2>1. CASE UNCHANGED queues
      BY <1>1, <2>1, StutterRefines DEF ReadAnswer
    <2>2. ASSUME NEW r \in pending_list, pending_list' = pending_list \ {r},
                 UNCHANGED <<request_queue, reply_queue>>
          PROVE  Service!Next
      <3>1. UNCHANGED requests /\ {r} \subseteq Queued
        BY <1>1, <2>2 DEF ReadAnswer, Queued
      <3>2. request_queue' = request_queue \ {r} /\ reply_queue' = reply_queue \ {r}
        BY <2>2 DEF Inv, InOnePlace, PlacesApart
      <3> QED
        BY <2>2, <3>1, <3>2, FinishRefines
    <2> QED BY <1>1, <2>1, <2>2 DEF ReadAnswer, FirstSent, Matching
  <1>2. CASE Complete
    BY <1>2, FreeRefines, StutterRefines DEF Complete
  <1>3. CASE NotifyDone
    BY <1>3, FreeRefines, StutterRefines DEF NotifyDone
  <1>4. CASE WriteFailed
    BY <1>4, StutterRefines DEF WriteFailed
  <1>5. CASE ReadEvent
    BY <1>5, StutterRefines DEF ReadEvent
  <1>6. CASE NotifyNext
    BY <1>6, StutterRefines DEF NotifyNext
  <1>7. ASSUME NEW r \in Ids, NowaitFailed(r) PROVE UNCHANGED <<Phase, kind>>
    BY <1>7, StutterRefines DEF NowaitFailed
  <1> QED
    BY <1>1, <1>2, <1>3, <1>4, <1>5, <1>6, <1>7 DEF Read, Return

\* The client implements the service, for any number of commands: what the
\* callers of mgmt_send, mgmt_reply and mgmt_send_nowait may rely on.
THEOREM ClientImplementsService == Spec => ImplementsMgmtService
  <1>1. Init => Service!Init
    BY DEF Init, Service!Init, Phase, Given, Ids
  <1>2. Inv /\ [Next]_vars => [Service!Next]_<<Phase, kind>>
    <2> SUFFICES ASSUME Inv, [Next]_vars PROVE [Service!Next]_<<Phase, kind>>
      OBVIOUS
    <2>1. CASE UNCHANGED vars
      BY <2>1, StutterRefines DEF vars
    <2>2. CASE Hangup \/ ReadFails
      BY <2>2, StutterRefines DEF Hangup, ReadFails
    <2>3. ASSUME NEW q \in Ids, Answer(q) PROVE UNCHANGED <<Phase, kind>>
      BY <2>3, StutterRefines DEF Answer
    <2>4. ASSUME NEW e \in Events, Emit(e) PROVE UNCHANGED <<Phase, kind>>
      BY <2>4, StutterRefines DEF Emit
    <2> QED
      BY <2>1, <2>2, <2>3, <2>4, ProgramRefines, WriterRefines, LoopRefines DEF Next
  <1> QED
    BY <1>1, <1>2, InvHolds, PTL DEF Spec, ImplementsMgmtService, Service!Spec

-----------------------------------------------------------------------------
(* Listeners. *)

\* Where listeners are, in and outside a notification.
Registered == 1 .. (next_notify_id - 1)

Located == notify_list \cup removed \cup gone = Registered

Cleaned ==
    /\ gone \cap notify_list = {}
    /\ ~need_notify_cleanup => removed \cap notify_list = {}
    /\ need_notify_cleanup => in_notify

FreedIsQuiet == ref_count = 0 => notify_list = {} /\ ~writer_active

\* The walk of a notification: a listener that was there when it began and is
\* still registered has been called, or is not behind the saved entry.
WalkCovers ==
    in_notify =>
        /\ walk.began \subseteq Registered
        /\ \A n \in (walk.began \cap notify_list) \ removed :
              Hears(n, walk.event) => n \in walk.heard \/ (walk.next # 0 /\ n >= walk.next)

ListenersInv == Located /\ Cleaned /\ FreedIsQuiet /\ WalkCovers

\* Every step leaves each listener that was ever registered somewhere.
LEMMA LocatedStep ==
    ASSUME TypeOK, Located, Next
    PROVE  Located'
  <1> USE DEF Located, Registered, TypeOK, ListenersOK, Notifies, listeners, refs
  <1>0. ASSUME UNCHANGED listeners PROVE Located'
    BY <1>0
  <1>1. CASE \E c \in Commands : Send(c) \/ Reply(c) \/ SendNowait(c)
    BY <1>0, <1>1 DEF Send, Reply, SendNowait
  <1>2. CASE CancelAll \/ (\E r \in Ids : Cancel(r)) \/ \E i \in Indexes : CancelIndex(i)
    BY <1>0, <1>2 DEF CancelAll, Cancel, CancelIndex, Without
  <1>3. CASE UnregisterAll \/ \E i \in Indexes : UnregisterIndex(i)
    BY <1>3 DEF UnregisterAll, UnregisterIndex, Drop
  <1>4. ASSUME NEW f \in Filters, Register(f) PROVE Located'
    BY <1>4 DEF Register
  <1>5. ASSUME NEW n \in Notifies, Unregister(n) PROVE Located'
    BY <1>5 DEF Unregister
  <1>6. CASE Unref
    BY <1>6 DEF Unref, FreeAll
  <1>7. CASE Complete
    BY <1>7 DEF Complete, FreeAll
  <1>8. CASE NotifyDone
    BY <1>8 DEF NotifyDone, FreeAll
  <1>9. CASE CanWriteData \/ Read \/ Hangup \/ ReadFails
    BY <1>0, <1>9 DEF CanWriteData, Read, ReadAnswer, ReadEvent, Hangup, ReadFails
  <1>10. CASE WriteFailed \/ NotifyNext \/ \E r \in Ids : NowaitFailed(r)
    BY <1>0, <1>10 DEF WriteFailed, NotifyNext, NowaitFailed
  <1>11. CASE (\E q \in Ids : Answer(q)) \/ \E e \in Events : Emit(e)
    BY <1>0, <1>11 DEF Answer, Emit
  <1> QED
    BY <1>1, <1>2, <1>3, <1>4, <1>5, <1>6, <1>7, <1>8, <1>9, <1>10, <1>11 DEF Next, Program, Return

\* Every step leaves destroyed listeners out of the list, and marked ones too
\* unless a cleanup is due.
LEMMA CleanedStep ==
    ASSUME TypeOK, Located, FramesAgree, Cleaned, Next
    PROVE  Cleaned'
  <1> USE DEF Cleaned, Located, Registered, FramesAgree, TypeOK, ListenersOK, FlagsOK, Notifies,
          listeners, refs, frames
  <1>0. ASSUME UNCHANGED <<listeners, in_notify>> PROVE Cleaned'
    BY <1>0
  <1>1. CASE \E c \in Commands : Send(c) \/ Reply(c) \/ SendNowait(c)
    BY <1>0, <1>1 DEF Send, Reply, SendNowait
  <1>2. CASE CancelAll \/ (\E r \in Ids : Cancel(r)) \/ \E i \in Indexes : CancelIndex(i)
    BY <1>0, <1>2 DEF CancelAll, Cancel, CancelIndex, Without
  <1>3. CASE UnregisterAll \/ \E i \in Indexes : UnregisterIndex(i)
    BY <1>3 DEF UnregisterAll, UnregisterIndex, Drop
  <1>4. ASSUME NEW f \in Filters, Register(f) PROVE Cleaned'
    BY <1>4 DEF Register
  <1>5. ASSUME NEW n \in Notifies, Unregister(n) PROVE Cleaned'
    BY <1>5 DEF Unregister
  <1>6. CASE Unref
    BY <1>6 DEF Unref, FreeAll
  <1>7. CASE Complete
    BY <1>7 DEF Complete, FreeAll
  <1>8. CASE NotifyDone
    BY <1>8 DEF NotifyDone, FreeAll
  <1>9. CASE CanWriteData
    BY <1>0, <1>9 DEF CanWriteData
  <1>10. CASE ReadAnswer \/ Hangup \/ ReadFails
    BY <1>0, <1>10 DEF ReadAnswer, Hangup, ReadFails
  <1>11. CASE ReadEvent
    BY <1>11 DEF ReadEvent
  <1>12. CASE WriteFailed \/ NotifyNext \/ \E r \in Ids : NowaitFailed(r)
    BY <1>0, <1>12 DEF WriteFailed, NotifyNext, NowaitFailed
  <1>13. CASE (\E q \in Ids : Answer(q)) \/ \E e \in Events : Emit(e)
    BY <1>0, <1>13 DEF Answer, Emit
  <1> QED
    BY <1>1, <1>2, <1>3, <1>4, <1>5, <1>6, <1>7, <1>8, <1>9, <1>10, <1>11, <1>12, <1>13
       DEF Next, Program, Read, Return

\* A client that was freed stays without listeners and writer.
LEMMA FreedQuietStep ==
    ASSUME TypeOK, RefsCounted, FramesAgree, FreedIsEmpty, FreedIsQuiet, Next
    PROVE  FreedIsQuiet'
  <1> USE DEF FreedIsQuiet, FreedIsEmpty, RefsCounted, FramesAgree, Queued, TypeOK, FlagsOK,
          queues, io, refs, frames, listeners
  <1>1. ASSUME NEW c \in Commands, Send(c) \/ Reply(c) \/ SendNowait(c) PROVE FreedIsQuiet'
    BY <1>1 DEF Send, Reply, SendNowait, NewRequest
  <1>2. CASE CancelAll \/ (\E r \in Ids : Cancel(r)) \/ \E i \in Indexes : CancelIndex(i)
    BY <1>2 DEF CancelAll, Cancel, CancelIndex, Without
  <1>3. CASE UnregisterAll \/ \E i \in Indexes : UnregisterIndex(i)
    BY <1>3 DEF UnregisterAll, UnregisterIndex, Drop
  <1>4. CASE (\E f \in Filters : Register(f)) \/ \E n \in Notifies : Unregister(n)
    BY <1>4 DEF Register, Unregister
  <1>5. CASE Unref
    BY <1>5 DEF Unref, PutRef, FreeAll
  <1>6. CASE CanWriteData
    BY <1>6 DEF CanWriteData
  <1>7. CASE ReadAnswer
    BY <1>7 DEF ReadAnswer
  <1>8. CASE ReadEvent
    BY <1>8 DEF ReadEvent
  <1>9. CASE Complete
    BY <1>9 DEF Complete, PutRef, FreeAll
  <1>10. CASE NotifyDone
    BY <1>10 DEF NotifyDone, PutRef, FreeAll
  <1>11. CASE WriteFailed \/ NotifyNext \/ \E r \in Ids : NowaitFailed(r)
    BY <1>11 DEF WriteFailed, NotifyNext, NowaitFailed
  <1>12. CASE Hangup \/ ReadFails
    BY <1>12 DEF Hangup, ReadFails
  <1>13. CASE (\E q \in Ids : Answer(q)) \/ \E e \in Events : Emit(e)
    BY <1>13 DEF Answer, Emit
  <1> QED
    BY <1>1, <1>2, <1>3, <1>4, <1>5, <1>6, <1>7, <1>8, <1>9, <1>10, <1>11, <1>12, <1>13
       DEF Next, Program, Read, Return

\* A listener that is behind n in the list is not before the entry that is
\* saved when n is visited.
LEMMA VisitSaves ==
    ASSUME TypeOK, NEW n \in Notifies, NEW e, NEW began, NEW heard, Visit(n, e, began, heard),
           NEW m \in notify_list, m > n
    PROVE  walk'.next # 0 /\ m >= walk'.next
  <1>1. PICK nx \in Notifies \cup {0} :
           /\ LET later == {k \in notify_list : k > n}
              IN  IF later = {} THEN nx = 0 ELSE First(nx, later)
           /\ walk' = [event |-> e, listener |-> n, next |-> nx, began |-> began, heard |-> heard \cup {n}]
    BY DEF Visit
  <1>2. First(nx, {k \in notify_list : k > n})
    BY <1>1
  <1>3. nx \in Notifies /\ nx <= m /\ walk'.next = nx
    BY <1>1, <1>2 DEF First, TypeOK, ListenersOK
  <1> QED
    BY <1>3 DEF TypeOK, ListenersOK, Notifies

\* What a visit remembers of the walk.
LEMMA VisitKeeps ==
    ASSUME NEW n, NEW e, NEW began, NEW heard, Visit(n, e, began, heard)
    PROVE  walk'.event = e /\ walk'.began = began /\ walk'.heard = heard \cup {n}
  BY DEF Visit

\* The walk covers what it should at every step.
LEMMA WalkStep ==
    ASSUME TypeOK, FramesAgree, Located, Cleaned, WalkCovers, Next
    PROVE  WalkCovers'
  <1> USE DEF Located, Registered, TypeOK, ListenersOK, Notifies
  <1>0. ASSUME UNCHANGED <<walk, in_notify, listener, next_notify_id>>,
               notify_list' \ removed' \subseteq notify_list \ removed
        PROVE  WalkCovers'
    BY <1>0 DEF WalkCovers, Hears
  <1>1. CASE \E c \in Commands : Send(c) \/ Reply(c) \/ SendNowait(c)
    BY <1>0, <1>1 DEF Send, Reply, SendNowait, listeners, frames
  <1>2. CASE CancelAll \/ (\E r \in Ids : Cancel(r)) \/ \E i \in Indexes : CancelIndex(i)
    BY <1>0, <1>2 DEF CancelAll, Cancel, CancelIndex, Without, listeners, frames
  <1>3. CASE UnregisterAll \/ \E i \in Indexes : UnregisterIndex(i)
    BY <1>0, <1>3 DEF UnregisterAll, UnregisterIndex, Drop, frames
  <1>4. ASSUME NEW f \in Filters, Register(f) PROVE WalkCovers'
    <2>1. ASSUME NEW n \in Registered PROVE Hears(n, walk.event)' <=> Hears(n, walk.event)
      BY <1>4, <2>1 DEF Register, Hears, frames
    <2>2. /\ UNCHANGED <<walk, in_notify, removed>> /\ notify_list' = notify_list \cup {next_notify_id}
          /\ next_notify_id' = next_notify_id + 1
      BY <1>4 DEF Register, frames
    <2>3. walk.began \subseteq Registered => walk.began \cap notify_list' = walk.began \cap notify_list
      BY <2>2
    <2> QED
      BY <2>1, <2>2, <2>3 DEF WalkCovers
  <1>5. ASSUME NEW n \in Notifies, Unregister(n) PROVE WalkCovers'
    BY <1>0, <1>5 DEF Unregister, frames
  <1>6. CASE Unref
    BY <1>0, <1>6 DEF Unref, FreeAll, frames, listeners
  <1>7. CASE Complete
    BY <1>0, <1>7 DEF Complete, FreeAll, listeners
  <1>8. CASE NotifyDone
    BY <1>8 DEF NotifyDone, WalkCovers
  <1>9. CASE CanWriteData
    BY <1>0, <1>9 DEF CanWriteData, listeners, frames
  <1>10. CASE ReadAnswer \/ Hangup \/ ReadFails
    BY <1>0, <1>10 DEF ReadAnswer, Hangup, ReadFails, listeners, frames
  <1>11. CASE ReadEvent
    <2>1. CASE UNCHANGED frames
      BY <1>0, <1>11, <2>1 DEF ReadEvent, listeners, frames
    <2>2. ASSUME NEW e, NEW n \in Notifies, First(n, Audience(e, 1)), Visit(n, e, notify_list, {})
          PROVE  WalkCovers'
      <3>1. UNCHANGED listeners
        BY <1>11 DEF ReadEvent
      <3>2. walk'.event = e /\ walk'.began = notify_list /\ walk'.heard = {n}
        BY <2>2, VisitKeeps
      <3>3. ASSUME NEW m \in notify_list \ removed, Hears(m, e), m # n
            PROVE  walk'.next # 0 /\ m >= walk'.next
        <4>1. n <= m
          BY <2>2, <3>3 DEF First, Audience
        <4>2. m > n
          BY <3>3, <4>1
        <4> QED
          BY <2>2, <4>2, VisitSaves
      <3> QED
        BY <3>1, <3>2, <3>3 DEF WalkCovers, listeners, Hears
    <2> QED
      BY <1>11, <2>1, <2>2 DEF ReadEvent
  <1>12. CASE NotifyNext
    <2>1. PICK n \in Notifies : First(n, Ahead) /\ Visit(n, walk.event, walk.began, walk.heard)
      BY <1>12 DEF NotifyNext
    <2>2. UNCHANGED listeners /\ in_notify /\ in_notify'
      BY <1>12 DEF NotifyNext, FramesAgree
    <2>3. /\ walk'.event = walk.event /\ walk'.began = walk.began
          /\ walk'.heard = walk.heard \cup {n}
      BY <2>1, VisitKeeps
    <2>4. ASSUME NEW m \in (walk.began \cap notify_list) \ removed, Hears(m, walk.event), m \notin walk'.heard
          PROVE  walk'.next # 0 /\ m >= walk'.next
      <3>1. walk.next # 0 /\ m >= walk.next
        BY <2>2, <2>3, <2>4 DEF WalkCovers
      <3>2. m \in Ahead
        BY <2>4, <3>1 DEF Ahead, Audience
      <3>3. m > n
        BY <2>1, <2>3, <2>4, <3>2 DEF First
      <3> QED
        BY <2>1, <3>3, VisitSaves
    <2> QED
      BY <2>2, <2>3, <2>4 DEF WalkCovers, listeners, Hears
  <1>13. CASE WriteFailed \/ \E r \in Ids : NowaitFailed(r)
    BY <1>0, <1>13 DEF WriteFailed, NowaitFailed, listeners
  <1>14. CASE (\E q \in Ids : Answer(q)) \/ \E e \in Events : Emit(e)
    BY <1>0, <1>14 DEF Answer, Emit, listeners, frames
  <1> QED
    BY <1>1, <1>2, <1>3, <1>4, <1>5, <1>6, <1>7, <1>8, <1>9, <1>10, <1>11, <1>12, <1>13, <1>14
       DEF Next, Program, Read, Return

\* The invariant of the listeners holds at the start and is kept.
LEMMA ListenersHold == Spec => []ListenersInv
  <1>1. Init => ListenersInv
    BY MgmtAssumption DEF Init, ListenersInv, Located, Registered, Cleaned, FreedIsQuiet, WalkCovers
  <1>2. Inv /\ ListenersInv /\ [Next]_vars => ListenersInv'
    <2>1. Inv /\ ListenersInv /\ Next => ListenersInv'
      BY LocatedStep, CleanedStep, FreedQuietStep, WalkStep DEF Inv, ListenersInv
    <2>2. ListenersInv /\ UNCHANGED vars => ListenersInv'
      BY DEF vars, listeners, refs, frames, ListenersInv, Located, Registered, Cleaned, FreedIsQuiet, WalkCovers, Hears
    <2> QED
      BY <2>1, <2>2
  <1> QED
    BY <1>1, <1>2, InvHolds, PTL DEF Spec

\* Listeners: what is destroyed is out of the list, what is marked leaves it
\* with the notification that runs, none is forgotten, and a freed client keeps
\* none and no request either.
THEOREM ListenersAlwaysSettle == Spec => []ListenersSettle
  <1>1. Inv /\ ListenersInv => ListenersSettle
    <2> SUFFICES ASSUME Inv, ListenersInv PROVE ListenersSettle
      OBVIOUS
    <2>1. /\ gone \cap notify_list = {}
          /\ ~in_notify => removed \cap notify_list = {} /\ ~need_notify_cleanup
      BY DEF ListenersInv, Cleaned, Inv, TypeOK, FlagsOK
    <2>2. \A n \in Notifies : n < next_notify_id => n \in notify_list \cup gone \cup removed
      BY DEF ListenersInv, Located, Registered, Inv, TypeOK, ListenersOK, Notifies
    <2>3. in_notify => ref_count > 0
      BY DEF Inv, FramesAgree, RefsCounted, TypeOK, FlagsOK
    <2>4. ref_count = 0 => notify_list = {} /\ Queued = {} /\ ~writer_active
      BY DEF ListenersInv, FreedIsQuiet, Inv, FreedIsEmpty
    <2> QED
      BY <2>1, <2>2, <2>3, <2>4 DEF ListenersSettle
  <1> QED
    BY <1>1, InvHolds, ListenersHold, PTL

\* An event reaches all who asked for it before it came and still do when it
\* has been passed on, whatever the callbacks registered and unregistered.
THEOREM EventsReachAll == Spec => EventReachesAll
  <1>1. ASSUME Inv, ListenersInv, Next, in_notify, ~in_notify',
               NEW n \in walk.began \cap notify_list', Hears(n, walk.event)
        PROVE  n \in walk.heard
    <2>1. NotifyDone
      <3>1. ~Idle
        BY <1>1 DEF Inv, FramesAgree, Idle
      <3>2. ~Read /\ ~CanWriteData /\ ~Hangup /\ ~ReadFails
        BY <3>1 DEF Read, ReadAnswer, ReadEvent, CanWriteData, Hangup, ReadFails
      <3>3. ~Program
        BY <1>1 DEF Program, Send, Reply, SendNowait, Cancel, CancelIndex, CancelAll, Without, Register,
           Unregister, UnregisterIndex, UnregisterAll, Drop, Unref, frames
      <3>4. ~Complete /\ ~WriteFailed /\ ~NotifyNext /\ ~ \E r \in Ids : NowaitFailed(r)
        BY <1>1 DEF Inv, FramesAgree, Complete, WriteFailed, NotifyNext, NowaitFailed
      <3>5. (\A q \in Ids : ~Answer(q)) /\ \A e \in Events : ~Emit(e)
        BY <1>1 DEF Answer, Emit, frames
      <3> QED
        BY <1>1, <3>2, <3>3, <3>4, <3>5 DEF Next, Return
    <2>2. n \in (walk.began \cap notify_list) \ removed
      BY <1>1, <2>1 DEF NotifyDone, FreeAll, ListenersInv, Cleaned
    <2>3. Ahead = {}
      BY <2>1 DEF NotifyDone
    <2>4. CASE n \notin walk.heard
      <3>1. walk.next # 0 /\ n >= walk.next
        BY <1>1, <2>2, <2>4 DEF ListenersInv, WalkCovers
      <3>2. n \in Ahead
        BY <1>1, <2>2, <3>1 DEF Ahead, Audience
      <3> QED
        BY <2>3, <3>2
    <2> QED
      BY <2>4
  <1>2. Inv /\ ListenersInv /\ [Next]_vars =>
           [in_notify /\ ~in_notify' =>
              \A n \in walk.began \cap notify_list' : Hears(n, walk.event) => n \in walk.heard]_vars
    BY <1>1
  <1> QED
    BY <1>2, InvHolds, ListenersHold, PTL DEF Spec, EventReachesAll

-----------------------------------------------------------------------------
(* Answers: what is owed, what is pending, and the writer. *)

\* A queue that is not empty has a head.
LEMMA HeadExists ==
    ASSUME NEW S, S \subseteq Ids, S # {}
    PROVE  \E r \in Ids : First(r, S)
  <1>1. S \subseteq Nat
    BY DEF Ids
  <1>2. \E x \in S : \A y \in S : <<y, x>> \notin OpToRel(<, Nat)
    BY <1>1, NatLessThanWellFounded, WFMin
  <1>3. PICK x \in S : \A y \in S : <<y, x>> \notin OpToRel(<, Nat)
    BY <1>2
  <1>4. \A y \in S : ~(y < x)
    BY <1>1, <1>3 DEF OpToRel
  <1>5. \A y \in S : x <= y
    BY <1>1, <1>4
  <1> QED
    BY <1>5 DEF First

\* The commands whose answers are still to be read.
IsAnswer(i, q) == inbox[i] = <<"answer", q>>
Coming == {q \in Ids : \E i \in 1 .. Len(inbox) : IsAnswer(i, q)}
Owing == kernel \cup Coming

\* Each of them is still to come once,
OwedOnce ==
    /\ \A q \in Ids : \A i, j \in 1 .. Len(inbox) : IsAnswer(i, q) /\ IsAnswer(j, q) => i = j
    /\ kernel \cap Coming = {}

\* to a command that was written, and what was written is not queued again.
SentOnce ==
    /\ \A q \in Owing \cup pending_list : sent[q] > 0
    /\ \A q \in request_queue \cup reply_queue \cup (Ids \ Given) : sent[q] = 0

\* Of every command at most as many requests are pending as answers are owed.
Alike(S, c) == {r \in S : command[r] = c}
AllOwed ==
    \A c \in Commands \cup {Unused} :
        Cardinality(Alike(pending_list, c)) <= Cardinality(Alike(Owing, c))

\* A new answer is one more to come; one that is read is no more.
LEMMA ComingMore ==
    ASSUME TypeOK, OwedOnce, NEW q \in Ids, q \in kernel,
           inbox' = Append(inbox, <<"answer", q>>), kernel' = kernel \ {q}
    PROVE  Owing' = Owing /\ OwedOnce'
  <1>1. inbox \in Seq(Messages)
    BY DEF TypeOK, QueuesOK
  <1>2. /\ Len(inbox') = Len(inbox) + 1 /\ Len(inbox) \in Nat
        /\ inbox'[Len(inbox) + 1] = <<"answer", q>>
        /\ \A i \in 1 .. Len(inbox) : inbox'[i] = inbox[i]
    BY <1>1
  <1>3. Coming' = Coming \cup {q}
    BY <1>2 DEF Coming, IsAnswer
  <1>4. q \notin Coming
    BY DEF OwedOnce
  <1>5. Owing' = Owing
    BY <1>3 DEF Owing
  <1>6. (kernel \cap Coming)' = {}
    BY <1>3 DEF OwedOnce
  <1>7. ASSUME NEW p \in Ids, NEW i \in 1 .. Len(inbox'), NEW j \in 1 .. Len(inbox'),
               inbox'[i] = <<"answer", p>>, inbox'[j] = <<"answer", p>>
        PROVE  i = j
    <2>1. CASE p = q
      <3>1. \A k \in 1 .. Len(inbox) : ~IsAnswer(k, p)
        BY <1>4, <2>1 DEF Coming
      <3> QED
        BY <1>2, <1>7, <3>1 DEF IsAnswer
    <2>2. CASE p # q
      <3>1. i \in 1 .. Len(inbox) /\ j \in 1 .. Len(inbox)
        BY <1>2, <1>7, <2>2
      <3> QED
        BY <1>2, <1>7, <3>1 DEF OwedOnce, IsAnswer
    <2> QED
      BY <2>1, <2>2
  <1> QED
    BY <1>5, <1>6, <1>7 DEF OwedOnce, IsAnswer

\* The positions of the messages after the first.
LEMMA TailAt ==
    ASSUME NEW s \in Seq(Messages), s # <<>>
    PROVE  /\ Head(s) = s[1] /\ Len(s) \in Nat \ {0} /\ Len(Tail(s)) = Len(s) - 1
           /\ \A i \in 1 .. (Len(s) - 1) : Tail(s)[i] = s[i + 1]
  OBVIOUS

LEMMA ComingLess ==
    ASSUME TypeOK, OwedOnce, inbox # <<>>, inbox' = Tail(inbox), UNCHANGED kernel
    PROVE  /\ OwedOnce'
           /\ Head(inbox)[1] = "event" => Owing' = Owing
           /\ Head(inbox)[1] = "answer" =>
                 /\ Head(inbox)[2] \in Owing /\ Owing' = Owing \ {Head(inbox)[2]}
  <1>1. inbox \in Seq(Messages) /\ kernel \subseteq Ids
    BY DEF TypeOK, QueuesOK
  <1>2. /\ Head(inbox) = inbox[1] /\ Len(inbox) \in Nat \ {0} /\ Len(inbox') = Len(inbox) - 1
        /\ \A i \in 1 .. (Len(inbox) - 1) : inbox'[i] = inbox[i + 1]
    BY <1>1, TailAt
  <1>3. \A p \in Ids : p \in Coming' <=> \E i \in 2 .. Len(inbox) : IsAnswer(i, p)
    <2>1. ASSUME NEW p \in Ids, NEW i \in 1 .. Len(inbox'), inbox'[i] = <<"answer", p>>
          PROVE  \E k \in 2 .. Len(inbox) : IsAnswer(k, p)
      <3>1. i + 1 \in 2 .. Len(inbox) /\ IsAnswer(i + 1, p)
        BY <1>2, <2>1 DEF IsAnswer
      <3> QED
        BY <3>1
    <2>2. ASSUME NEW p \in Ids, NEW i \in 2 .. Len(inbox), IsAnswer(i, p)
          PROVE  \E k \in 1 .. Len(inbox') : inbox'[k] = <<"answer", p>>
      <3>1. i - 1 \in 1 .. Len(inbox') /\ inbox'[i - 1] = inbox[i]
        BY <1>2, <2>2
      <3> QED
        BY <2>2, <3>1 DEF IsAnswer
    <2> QED
      BY <2>1, <2>2 DEF Coming, IsAnswer
  <1>4. Coming' \subseteq Coming
    BY <1>2, <1>3 DEF Coming
  <1>5. ASSUME NEW p \in Ids, NEW i \in 1 .. Len(inbox'), NEW j \in 1 .. Len(inbox'),
               inbox'[i] = <<"answer", p>>, inbox'[j] = <<"answer", p>>
        PROVE  i = j
    <2>1. /\ i + 1 \in 1 .. Len(inbox) /\ j + 1 \in 1 .. Len(inbox)
          /\ IsAnswer(i + 1, p) /\ IsAnswer(j + 1, p)
      BY <1>2, <1>5 DEF IsAnswer
    <2>2. i + 1 = j + 1
      BY <2>1 DEF OwedOnce
    <2> QED
      BY <1>2, <2>2
  <1>6. OwedOnce'
    BY <1>4, <1>5 DEF OwedOnce, IsAnswer
  <1>7. ASSUME Head(inbox)[1] = "event" PROVE Owing' = Owing
    <2>1. \A p \in Ids : ~IsAnswer(1, p)
      BY <1>2, <1>7 DEF IsAnswer
    <2>2. \A p \in Coming : p \in Coming'
      BY <1>2, <1>3, <2>1 DEF Coming
    <2> QED
      BY <1>4, <2>2 DEF Owing
  <1>8. ASSUME Head(inbox)[1] = "answer"
        PROVE  Head(inbox)[2] \in Owing /\ Owing' = Owing \ {Head(inbox)[2]}
    <2> DEFINE q == Head(inbox)[2]
    <2>1. q \in Ids /\ inbox[1] = <<"answer", q>>
      <3>1. inbox[1] \in Messages
        BY <1>1, <1>2
      <3> QED
        BY <1>2, <1>8, <3>1 DEF Messages
    <2>2. 1 \in 1 .. Len(inbox) /\ IsAnswer(1, q)
      BY <1>2, <2>1 DEF IsAnswer
    <2>3. q \in Coming /\ q \notin kernel
      BY <2>1, <2>2 DEF Coming, OwedOnce
    <2>4. q \notin Coming'
      <3>1. ASSUME NEW i \in 2 .. Len(inbox), IsAnswer(i, q) PROVE FALSE
        <4>1. i \in 1 .. Len(inbox) /\ i # 1
          BY <1>2
        <4> QED
          BY <2>1, <2>2, <3>1, <4>1 DEF OwedOnce
      <3> QED
        BY <1>3, <2>1, <3>1
    <2>5. \A p \in Coming : p # q => p \in Coming'
      <3>1. ASSUME NEW p \in Ids, p # q PROVE ~IsAnswer(1, p)
        BY <2>1, <3>1 DEF IsAnswer
      <3> QED
        BY <1>2, <1>3, <3>1 DEF Coming
    <2> QED
      BY <1>4, <2>3, <2>4, <2>5 DEF Owing
  <1> QED
    BY <1>6, <1>7, <1>8

\* An event that comes is no answer.
LEMMA ComingSame ==
    ASSUME TypeOK, OwedOnce, NEW e, inbox' = Append(inbox, <<"event", e>>), UNCHANGED kernel
    PROVE  Owing' = Owing /\ OwedOnce'
  <1>1. inbox \in Seq(Messages)
    BY DEF TypeOK, QueuesOK
  <1>2. /\ Len(inbox') = Len(inbox) + 1 /\ Len(inbox) \in Nat
        /\ inbox'[Len(inbox) + 1] = <<"event", e>>
        /\ \A i \in 1 .. Len(inbox) : inbox'[i] = inbox[i]
    BY <1>1
  <1>3. \A p \in Ids : inbox'[Len(inbox) + 1] # <<"answer", p>>
    BY <1>2
  <1>4. Coming' = Coming
    BY <1>2, <1>3 DEF Coming, IsAnswer
  <1>5. ASSUME NEW p \in Ids, NEW i \in 1 .. Len(inbox'), NEW j \in 1 .. Len(inbox'),
               inbox'[i] = <<"answer", p>>, inbox'[j] = <<"answer", p>>
        PROVE  i = j
    <2>1. i \in 1 .. Len(inbox) /\ j \in 1 .. Len(inbox)
      BY <1>2, <1>3, <1>5
    <2> QED
      BY <1>2, <1>5, <2>1 DEF OwedOnce, IsAnswer
  <1> QED
    BY <1>4, <1>5 DEF OwedOnce, IsAnswer, Owing

\* What is owed and what is pending after a write: the request is new to both.
LEMMA OwingWritten ==
    ASSUME TypeOK, InOnePlace, OwedOnce, SentOnce, NEW r \in Ids, sent[r] = 0, Written(r), UNCHANGED inbox
    PROVE  /\ OwedOnce' /\ Owing' = Owing \cup {r} /\ r \notin Owing /\ r \notin pending_list
           /\ pending_list' = pending_list \cup {r}
           /\ sent'[r] > 0 /\ \A q \in Ids : q # r => sent'[q] = sent[q]
  <1>1. r \notin Owing /\ r \notin pending_list
    BY DEF SentOnce
  <1>2. Coming' = Coming
    BY DEF Coming, IsAnswer
  <1>3. kernel' = kernel \cup {r} /\ pending_list' = pending_list \cup {r}
    BY DEF Written
  <1>4. OwedOnce'
    <2>1. (kernel \cap Coming)' = {}
      BY <1>1, <1>2, <1>3 DEF OwedOnce, Owing
    <2>2. \A q \in Ids : \A i, j \in 1 .. Len(inbox') : inbox'[i] = <<"answer", q>> /\ inbox'[j] = <<"answer", q>> => i = j
      BY DEF OwedOnce, IsAnswer
    <2> QED
      BY <2>1, <2>2 DEF OwedOnce, IsAnswer
  <1>5. sent'[r] > 0 /\ \A q \in Ids : q # r => sent'[q] = sent[q]
    BY DEF Written, TypeOK, RequestsOK
  <1> QED
    BY <1>1, <1>2, <1>3, <1>4, <1>5 DEF Owing

\* After the client is freed nothing is owed.
LEMMA OwingFreed ==
    ASSUME kernel' = {}, inbox' = <<>>
    PROVE  OwedOnce' /\ Owing' = {}
  <1>1. Len(inbox') = 0
    OBVIOUS
  <1>2. Coming' = {}
    BY <1>1 DEF Coming
  <1> QED
    BY <1>1, <1>2 DEF OwedOnce, Owing

\* Nothing is owed that was not before when kernel and socket stay.
LEMMA OwingStays ==
    ASSUME OwedOnce, UNCHANGED <<kernel, inbox>>
    PROVE  OwedOnce' /\ Owing' = Owing
  BY DEF OwedOnce, Owing, Coming, IsAnswer

\* A request whose turn it is has not been written.
LEMMA TurnUnsent ==
    ASSUME TypeOK, InOnePlace, SentOnce, NEW r \in Ids, Turn(r)
    PROVE  sent[r] = 0 /\ r \in Given /\ r \in request_queue \cup reply_queue
  <1>1. r \in request_queue \cup reply_queue
    BY DEF Turn, First
  <1>2. r \in Given
    BY <1>1 DEF InOnePlace, Placed, Queued
  <1> QED
    BY <1>1, <1>2 DEF SentOnce

\* A new request has its own id, which nobody has seen.
LEMMA NewUnsent ==
    ASSUME TypeOK, InOnePlace, SentOnce, NEW c \in Commands, NEW k \in Kinds, NewRequest(c, k)
    PROVE  /\ next_request_id \in Ids /\ sent[next_request_id] = 0 /\ next_request_id \notin Queued
           /\ calls[next_request_id] = 0 /\ Given' = Given \cup {next_request_id}
           /\ \A q \in Ids : q # next_request_id => command'[q] = command[q] /\ kind'[q] = kind[q]
           /\ next_request_id \notin Given /\ kind'[next_request_id] = k
           /\ command'[next_request_id] = c
           /\ next_request_id \notin Running /\ destroys[next_request_id] = 0
  <1>1. next_request_id \in Ids /\ next_request_id \notin Given
    <2>1. next_request_id \in Ids
      BY NewTyped
    <2>2. ~(next_request_id < next_request_id)
      BY <2>1 DEF Ids
    <2> QED
      BY <2>1, <2>2 DEF Given
  <1>2. Given' = Given \cup {next_request_id}
    <2>1. next_request_id' = next_request_id + 1 /\ next_request_id \in Nat
      BY <1>1 DEF NewRequest, Ids
    <2>2. \A r \in Ids : r < next_request_id + 1 <=> r < next_request_id \/ r = next_request_id
      BY <2>1 DEF Ids
    <2> QED
      BY <1>1, <2>1, <2>2 DEF Given
  <1>3. \A q \in Ids : q # next_request_id => command'[q] = command[q] /\ kind'[q] = kind[q]
    BY DEF NewRequest, TypeOK, RequestsOK
  <1>4. kind'[next_request_id] = k /\ command'[next_request_id] = c
    BY <1>1 DEF NewRequest, TypeOK, RequestsOK
  <1>5. next_request_id \notin Queued \cup Running /\ calls[next_request_id] = 0 /\ destroys[next_request_id] = 0
    BY <1>1, Placed(next_request_id) DEF InOnePlace, Placed
  <1> QED
    BY <1>1, <1>2, <1>3, <1>4, <1>5 DEF SentOnce

\* Every step keeps what is owed apart and what is written known.
LEMMA OwedStep ==
    ASSUME TypeOK, InOnePlace, OwedOnce, SentOnce, Next
    PROVE  OwedOnce' /\ SentOnce'
  <1> USE DEF queues, requests, wire, refs, frames
  <1>0. ASSUME UNCHANGED <<kernel, inbox, sent, next_request_id>>, pending_list' \subseteq pending_list,
               request_queue' \subseteq request_queue, reply_queue' \subseteq reply_queue
        PROVE  OwedOnce' /\ SentOnce'
    <2>1. OwedOnce' /\ Owing' = Owing
      BY <1>0, OwingStays
    <2> QED
      BY <1>0, <2>1 DEF SentOnce, Given
  <1>1. ASSUME NEW c \in Commands, Send(c) \/ Reply(c) PROVE OwedOnce' /\ SentOnce'
    <2>1. PICK k \in Kinds : NewRequest(c, k)
      BY <1>1 DEF Send, Reply, Kinds
    <2>2. UNCHANGED <<kernel, inbox, sent, pending_list>>
      BY <1>1 DEF Send, Reply
    <2>3. /\ request_queue' \subseteq request_queue \cup {next_request_id}
          /\ reply_queue' \subseteq reply_queue \cup {next_request_id}
      BY <1>1 DEF Send, Reply
    <2>4. OwedOnce' /\ Owing' = Owing
      BY <2>2, OwingStays
    <2> QED
      BY <2>1, <2>2, <2>3, <2>4, NewUnsent DEF SentOnce
  <1>2. ASSUME NEW c \in Commands, SendNowait(c) PROVE OwedOnce' /\ SentOnce'
    <2> DEFINE r == next_request_id
    <2>1. NewRequest(c, "nowait") /\ "nowait" \in Kinds /\ UNCHANGED <<inbox, request_queue, reply_queue>>
      BY <1>2 DEF SendNowait, Kinds
    <2>2. /\ r \in Ids /\ sent[r] = 0 /\ r \notin Queued
          /\ Given' = Given \cup {r}
      BY <2>1, NewUnsent
    <2>3. CASE Written(r)
      <3>1. /\ OwedOnce' /\ Owing' = Owing \cup {r} /\ pending_list' = pending_list \cup {r}
            /\ sent'[r] > 0 /\ \A q \in Ids : q # r => sent'[q] = sent[q]
        BY <2>1, <2>2, <2>3, OwingWritten
      <3> QED
        BY <2>1, <2>2, <3>1 DEF SentOnce, Queued, Owing, Coming, TypeOK, QueuesOK
    <2>4. CASE NotWritten(r)
      <3>1. UNCHANGED <<kernel, sent, pending_list>>
        BY <2>4 DEF NotWritten
      <3>2. OwedOnce' /\ Owing' = Owing
        BY <2>1, <3>1, OwingStays
      <3> QED
        BY <2>1, <2>2, <3>1, <3>2 DEF SentOnce
    <2> QED
      BY <1>2, <2>3, <2>4 DEF SendNowait
  <1>3. CASE CancelAll \/ (\E r \in Ids : Cancel(r)) \/ \E i \in Indexes : CancelIndex(i)
    BY <1>0, <1>3 DEF CancelAll, Cancel, CancelIndex, Without
  <1>4. CASE UnregisterAll \/ \E i \in Indexes : UnregisterIndex(i)
    BY <1>0, <1>4 DEF UnregisterAll, UnregisterIndex, Drop
  <1>5. CASE (\E f \in Filters : Register(f)) \/ \E n \in Notifies : Unregister(n)
    BY <1>0, <1>5 DEF Register, Unregister
  <1>6. ASSUME NEW S, FreeAll(S) PROVE OwedOnce' /\ SentOnce'
    <2>1. OwedOnce' /\ Owing' = {}
      BY <1>6, OwingFreed DEF FreeAll
    <2> QED
      BY <1>6, <2>1 DEF FreeAll, SentOnce, Given
  <1>7. CASE Unref
    BY <1>0, <1>6, <1>7 DEF Unref
  <1>8. CASE Complete
    BY <1>0, <1>6, <1>8 DEF Complete
  <1>9. CASE NotifyDone
    BY <1>0, <1>6, <1>9 DEF NotifyDone
  <1>10. CASE CanWriteData
    <2>1. CASE UNCHANGED <<queues, wire>>
      BY <1>0, <1>10, <2>1 DEF CanWriteData
    <2>2. ASSUME NEW r \in Ids, Turn(r), reply_queue' = reply_queue \ {r}, request_queue' = request_queue \ {r},
                 Written(r)
          PROVE  OwedOnce' /\ SentOnce'
      <3>1. UNCHANGED <<inbox, next_request_id>>
        BY <1>10 DEF CanWriteData
      <3>2. sent[r] = 0 /\ r \in Given
        BY <2>2, TurnUnsent
      <3>3. /\ OwedOnce' /\ Owing' = Owing \cup {r} /\ pending_list' = pending_list \cup {r}
            /\ sent'[r] > 0 /\ \A q \in Ids : q # r => sent'[q] = sent[q]
        BY <2>2, <3>1, <3>2, OwingWritten
      <3> QED
        BY <2>2, <3>1, <3>2, <3>3 DEF SentOnce, Given, Owing, Coming, TypeOK, QueuesOK
    <2>3. ASSUME NEW r \in Ids, reply_queue' = reply_queue \ {r}, request_queue' = request_queue \ {r},
                 NotWritten(r)
          PROVE  OwedOnce' /\ SentOnce'
      BY <1>0, <1>10, <2>3 DEF CanWriteData, NotWritten
    <2> QED
      BY <1>10, <2>1, <2>2, <2>3 DEF CanWriteData
  <1>11. CASE ReadAnswer
    <2>1. /\ inbox # <<>> /\ inbox' = Tail(inbox) /\ Head(inbox)[1] = "answer"
          /\ UNCHANGED <<kernel, sent, next_request_id, request_queue, reply_queue>>
          /\ pending_list' \subseteq pending_list
      BY <1>11 DEF ReadAnswer
    <2>2. OwedOnce' /\ Owing' \subseteq Owing
      BY <2>1, ComingLess
    <2> QED
      BY <2>1, <2>2 DEF SentOnce, Given
  <1>12. CASE ReadEvent
    <2>1. /\ inbox # <<>> /\ inbox' = Tail(inbox) /\ Head(inbox)[1] = "event"
          /\ UNCHANGED <<kernel, sent, next_request_id, request_queue, reply_queue, pending_list>>
      BY <1>12 DEF ReadEvent
    <2>2. OwedOnce' /\ Owing' = Owing
      BY <2>1, ComingLess
    <2> QED
      BY <2>1, <2>2 DEF SentOnce, Given
  <1>13. CASE WriteFailed \/ NotifyNext \/ \E r \in Ids : NowaitFailed(r)
    BY <1>0, <1>13 DEF WriteFailed, NotifyNext, NowaitFailed
  <1>14. CASE Hangup \/ ReadFails
    BY <1>0, <1>14 DEF Hangup, ReadFails
  <1>15. ASSUME NEW q \in Ids, Answer(q) PROVE OwedOnce' /\ SentOnce'
    <2>1. Owing' = Owing /\ OwedOnce'
      BY <1>15, ComingMore DEF Answer
    <2> QED
      BY <1>15, <2>1 DEF Answer, SentOnce, Given
  <1>16. ASSUME NEW e \in Events, Emit(e) PROVE OwedOnce' /\ SentOnce'
    <2>1. Owing' = Owing /\ OwedOnce'
      BY <1>16, ComingSame DEF Emit
    <2> QED
      BY <1>16, <2>1 DEF Emit, SentOnce, Given
  <1> QED
    BY <1>1, <1>2, <1>3, <1>4, <1>5, <1>7, <1>8, <1>9, <1>10, <1>11, <1>12, <1>13, <1>14, <1>15, <1>16
       DEF Next, Program, Read, Return

\* The counted sets are finite.
LEMMA AlikeFinite ==
    ASSUME MaxId \in Nat, NEW S, S \subseteq Ids, NEW c
    PROVE  IsFiniteSet(Alike(S, c)) /\ Cardinality(Alike(S, c)) \in Nat
  <1>1. IsFiniteSet(Ids)
    BY FS_Interval DEF Ids
  <1>2. Alike(S, c) \in SUBSET Ids
    BY DEF Alike
  <1>3. IsFiniteSet(Alike(S, c))
    BY <1>1, <1>2, FS_Subset
  <1> QED
    BY <1>3, FS_CardinalityType

\* Counts when fewer are pending and the same are owed,
LEMMA FewerPending ==
    ASSUME TypeOK, AllOwed, Owing' = Owing, pending_list' \subseteq pending_list,
           \A r \in Owing \cup pending_list : command'[r] = command[r]
    PROVE  AllOwed'
  <1>1. pending_list \subseteq Ids /\ Owing \subseteq Ids
    BY DEF TypeOK, QueuesOK, Owing, Coming
  <1>2. ASSUME NEW c \in Commands \cup {Unused}
        PROVE  Cardinality(Alike(pending_list, c)') <= Cardinality(Alike(Owing, c)')
    <2>1. Alike(Owing, c)' = Alike(Owing, c)
      BY DEF Alike
    <2>2. Alike(pending_list, c)' \in SUBSET Alike(pending_list, c)
      BY DEF Alike
    <2>3. IsFiniteSet(Alike(pending_list, c)) /\ Cardinality(Alike(pending_list, c)) \in Nat
      BY <1>1, AlikeFinite, MgmtAssumption
    <2>4. /\ Cardinality(Alike(pending_list, c)') <= Cardinality(Alike(pending_list, c))
          /\ IsFiniteSet(Alike(pending_list, c)')
      BY <2>2, <2>3, FS_Subset
    <2>5. Cardinality(Alike(Owing, c)) \in Nat /\ Cardinality(Alike(pending_list, c)') \in Nat
      BY <1>1, <2>4, AlikeFinite, MgmtAssumption, FS_CardinalityType
    <2>6. Cardinality(Alike(pending_list, c)) <= Cardinality(Alike(Owing, c))
      BY DEF AllOwed
    <2> QED
      BY <2>1, <2>3, <2>4, <2>5, <2>6
  <1> QED
    BY <1>2 DEF AllOwed

\* when one more is pending and owed,
LEMMA OneMoreOwed ==
    ASSUME TypeOK, AllOwed, NEW r \in Ids, r \notin Owing, r \notin pending_list,
           Owing' = Owing \cup {r}, pending_list' = pending_list \cup {r},
           \A q \in Owing \cup pending_list : command'[q] = command[q]
    PROVE  AllOwed'
  <1>1. pending_list \subseteq Ids /\ Owing \subseteq Ids
    BY DEF TypeOK, QueuesOK, Owing, Coming
  <1>2. ASSUME NEW c \in Commands \cup {Unused}
        PROVE  Cardinality(Alike(pending_list, c)') <= Cardinality(Alike(Owing, c)')
    <2> DEFINE P == Alike(pending_list, c)
               O == Alike(Owing, c)
    <2>1. /\ IsFiniteSet(P) /\ Cardinality(P) \in Nat
          /\ IsFiniteSet(O) /\ Cardinality(O) \in Nat
      BY <1>1, AlikeFinite, MgmtAssumption
    <2>2. Cardinality(P) <= Cardinality(O)
      BY DEF AllOwed
    <2>3. r \notin P /\ r \notin O
      BY DEF Alike
    <2>4. CASE command'[r] = c
      <3>1. Alike(pending_list, c)' = P \cup {r} /\ Alike(Owing, c)' = O \cup {r}
        BY <2>4 DEF Alike
      <3>2. Cardinality(P \cup {r}) = Cardinality(P) + 1 /\ Cardinality(O \cup {r}) = Cardinality(O) + 1
        BY <2>1, <2>3, FS_AddElement
      <3>3. /\ Cardinality(Alike(pending_list, c)') = Cardinality(P) + 1
            /\ Cardinality(Alike(Owing, c)') = Cardinality(O) + 1
        BY <3>1, <3>2, Zenon
      <3>4. \A m, n \in Nat : m <= n => m + 1 <= n + 1
        OBVIOUS
      <3> HIDE DEF P, O
      <3> QED
        BY <2>1, <2>2, <3>3, <3>4
    <2>5. CASE command'[r] # c
      <3>1. Alike(pending_list, c)' = P /\ Alike(Owing, c)' = O
        BY <2>5 DEF Alike
      <3> QED
        BY <2>2, <3>1
    <2> QED
      BY <2>4, <2>5
  <1> QED
    BY <1>2 DEF AllOwed

\* and when an answer is read: it completes a request like the one it is for,
\* unless there is none.
LEMMA OneLessOwed ==
    ASSUME TypeOK, AllOwed, NEW q \in Owing, Owing' = Owing \ {q}, UNCHANGED command,
           \/ Matching(q) = {} /\ UNCHANGED pending_list
           \/ \E r \in Matching(q) : pending_list' = pending_list \ {r}
    PROVE  AllOwed'
  <1>1. pending_list \subseteq Ids /\ Owing \subseteq Ids
    BY DEF TypeOK, QueuesOK, Owing, Coming
  <1>2. ASSUME NEW c \in Commands \cup {Unused}
        PROVE  Cardinality(Alike(pending_list, c)') <= Cardinality(Alike(Owing, c)')
    <2> DEFINE P == Alike(pending_list, c)
               O == Alike(Owing, c)
    <2>1. /\ IsFiniteSet(P) /\ Cardinality(P) \in Nat
          /\ IsFiniteSet(O) /\ Cardinality(O) \in Nat
      BY <1>1, AlikeFinite, MgmtAssumption
    <2>2. Cardinality(P) <= Cardinality(O)
      BY DEF AllOwed
    <2>3. CASE command[q] = c /\ Matching(q) = {}
      <3>1. Alike(pending_list, c)' = {}
        BY <2>3 DEF Alike, Matching
      <3>2. Alike(Owing, c)' = O \ {q}
        BY DEF Alike
      <3>3. IsFiniteSet(O \ {q})
        BY <2>1, FS_RemoveElement
      <3>4. Cardinality(O \ {q}) \in Nat /\ Cardinality({}) = 0
        BY <3>3, FS_CardinalityType, FS_EmptySet
      <3> QED
        BY <3>1, <3>2, <3>4
    <2>4. ASSUME command[q] = c, NEW r \in Matching(q), pending_list' = pending_list \ {r}
          PROVE  Cardinality(Alike(pending_list, c)') <= Cardinality(Alike(Owing, c)')
      <3>1. Alike(pending_list, c)' = P \ {r} /\ Alike(Owing, c)' = O \ {q}
        BY <2>4 DEF Alike
      <3>2. r \in P /\ q \in O
        BY <2>4 DEF Alike, Matching
      <3>3. Cardinality(P \ {r}) = Cardinality(P) - 1 /\ Cardinality(O \ {q}) = Cardinality(O) - 1
        BY <2>1, <3>2, FS_RemoveElement
      <3> QED
        BY <2>1, <2>2, <3>1, <3>3
    <2>5. CASE command[q] # c
      <3>1. Alike(pending_list, c)' = P
        BY <2>5 DEF Alike, Matching
      <3>2. Alike(Owing, c)' = O
        BY <2>5 DEF Alike
      <3> QED
        BY <2>2, <3>1, <3>2
    <2> QED
      BY <2>3, <2>4, <2>5
  <1> QED
    BY <1>2 DEF AllOwed

\* If a request is pending an answer is owed.
LEMMA PendingOwed ==
    ASSUME TypeOK, AllOwed, pending_list # {}
    PROVE  Owing # {}
  <1>1. pending_list \subseteq Ids /\ Owing \subseteq Ids
    BY DEF TypeOK, QueuesOK, Owing, Coming
  <1>2. PICK r \in pending_list : TRUE
    OBVIOUS
  <1> DEFINE c == command[r]
  <1>3. c \in Commands \cup {Unused}
    BY <1>1 DEF TypeOK, RequestsOK
  <1>4. /\ IsFiniteSet(Alike(pending_list, c)) /\ Cardinality(Alike(pending_list, c)) \in Nat
        /\ IsFiniteSet(Alike(Owing, c)) /\ Cardinality(Alike(Owing, c)) \in Nat
    BY <1>1, AlikeFinite, MgmtAssumption
  <1>5. Cardinality(Alike(pending_list, c)) <= Cardinality(Alike(Owing, c))
    BY <1>3 DEF AllOwed
  <1>6. r \in Alike(pending_list, c)
    BY DEF Alike
  <1>7. Cardinality(Alike(pending_list, c)) # 0
    BY <1>4, <1>6, FS_EmptySet
  <1>8. Alike(Owing, c) # {}
    BY <1>4, <1>5, <1>7, FS_EmptySet
  <1> QED
    BY <1>8 DEF Alike

\* Every step keeps the count.
LEMMA AllOwedStep ==
    ASSUME TypeOK, InOnePlace, OwedOnce, SentOnce, AllOwed, Next
    PROVE  AllOwed'
  <1> USE DEF queues, requests, wire, refs, frames
  <1>0. ASSUME UNCHANGED <<kernel, inbox, command>>, pending_list' \subseteq pending_list
        PROVE  AllOwed'
    BY <1>0, OwingStays, FewerPending
  <1>1. ASSUME NEW c \in Commands, Send(c) \/ Reply(c) PROVE AllOwed'
    <2>1. PICK k \in Kinds : NewRequest(c, k)
      BY <1>1 DEF Send, Reply, Kinds
    <2>2. UNCHANGED <<kernel, inbox, sent, pending_list>>
      BY <1>1 DEF Send, Reply
    <2>3. Owing' = Owing
      BY <2>2, OwingStays
    <2>4. sent[next_request_id] = 0 /\ \A q \in Ids : q # next_request_id => command'[q] = command[q]
      BY <2>1, NewUnsent
    <2>5. \A r \in Owing \cup pending_list : r \in Ids /\ sent[r] > 0
      BY DEF SentOnce, Owing, Coming, TypeOK, QueuesOK
    <2> QED
      BY <2>2, <2>3, <2>4, <2>5, FewerPending
  <1>2. ASSUME NEW c \in Commands, SendNowait(c) PROVE AllOwed'
    <2> DEFINE r == next_request_id
    <2>1. NewRequest(c, "nowait") /\ "nowait" \in Kinds /\ UNCHANGED inbox
      BY <1>2 DEF SendNowait, Kinds
    <2>2. /\ r \in Ids /\ sent[r] = 0
          /\ \A q \in Ids : q # r => command'[q] = command[q]
      BY <2>1, NewUnsent
    <2>3. \A q \in Owing \cup pending_list : q \in Ids /\ sent[q] > 0
      BY DEF SentOnce, Owing, Coming, TypeOK, QueuesOK
    <2>4. \A q \in Owing \cup pending_list : command'[q] = command[q]
      BY <2>2, <2>3
    <2>5. CASE Written(r)
      <3>1. /\ Owing' = Owing \cup {r} /\ r \notin Owing /\ r \notin pending_list
            /\ pending_list' = pending_list \cup {r}
        BY <2>1, <2>2, <2>5, OwingWritten
      <3> QED
        BY <2>2, <2>4, <3>1, OneMoreOwed
    <2>6. CASE NotWritten(r)
      <3>1. UNCHANGED <<kernel, pending_list>>
        BY <2>6 DEF NotWritten
      <3>2. Owing' = Owing
        BY <2>1, <3>1, OwingStays
      <3> QED
        BY <2>4, <3>1, <3>2, FewerPending
    <2> QED
      BY <1>2, <2>5, <2>6 DEF SendNowait
  <1>3. CASE CancelAll \/ (\E r \in Ids : Cancel(r)) \/ \E i \in Indexes : CancelIndex(i)
    BY <1>0, <1>3 DEF CancelAll, Cancel, CancelIndex, Without
  <1>4. CASE UnregisterAll \/ \E i \in Indexes : UnregisterIndex(i)
    BY <1>0, <1>4 DEF UnregisterAll, UnregisterIndex, Drop
  <1>5. CASE (\E f \in Filters : Register(f)) \/ \E n \in Notifies : Unregister(n)
    BY <1>0, <1>5 DEF Register, Unregister
  <1>6. ASSUME NEW S, FreeAll(S) PROVE AllOwed'
    <2>1. Owing' = {} /\ pending_list' = {}
      BY <1>6, OwingFreed DEF FreeAll
    <2>2. \A c : Alike(pending_list, c)' = {} /\ Alike(Owing, c)' = {}
      BY <2>1 DEF Alike
    <2> QED
      BY <2>2, FS_EmptySet DEF AllOwed
  <1>7. CASE Unref
    BY <1>0, <1>6, <1>7 DEF Unref
  <1>8. CASE Complete
    BY <1>0, <1>6, <1>8 DEF Complete
  <1>9. CASE NotifyDone
    BY <1>0, <1>6, <1>9 DEF NotifyDone
  <1>10. CASE CanWriteData
    <2>1. CASE UNCHANGED <<queues, wire>>
      BY <1>0, <1>10, <2>1 DEF CanWriteData
    <2>2. ASSUME NEW r \in Ids, Turn(r), Written(r)
          PROVE  AllOwed'
      <3>1. UNCHANGED <<inbox, command>>
        BY <1>10 DEF CanWriteData
      <3>2. sent[r] = 0
        BY <2>2, TurnUnsent
      <3>3. /\ Owing' = Owing \cup {r} /\ r \notin Owing /\ r \notin pending_list
            /\ pending_list' = pending_list \cup {r}
        BY <2>2, <3>1, <3>2, OwingWritten
      <3> QED
        BY <3>1, <3>3, OneMoreOwed
    <2>3. ASSUME NEW r \in Ids, NotWritten(r) PROVE AllOwed'
      BY <1>0, <1>10, <2>3 DEF CanWriteData, NotWritten
    <2> QED
      BY <1>10, <2>1, <2>2, <2>3 DEF CanWriteData
  <1>11. CASE ReadAnswer
    <2> DEFINE q == Head(inbox)[2]
    <2>1. /\ inbox # <<>> /\ inbox' = Tail(inbox) /\ Head(inbox)[1] = "answer"
          /\ UNCHANGED <<kernel, command>>
      BY <1>11 DEF ReadAnswer
    <2>2. q \in Owing /\ Owing' = Owing \ {q}
      BY <2>1, ComingLess
    <2>3. \/ Matching(q) = {} /\ UNCHANGED pending_list
          \/ \E r \in Matching(q) : pending_list' = pending_list \ {r}
      BY <1>11 DEF ReadAnswer, FirstSent
    <2> QED
      BY <2>1, <2>2, <2>3, OneLessOwed
  <1>12. CASE ReadEvent
    <2>1. /\ inbox # <<>> /\ inbox' = Tail(inbox) /\ Head(inbox)[1] = "event"
          /\ UNCHANGED <<kernel, command, pending_list>>
      BY <1>12 DEF ReadEvent
    <2>2. Owing' = Owing
      BY <2>1, ComingLess
    <2> QED
      BY <2>1, <2>2, FewerPending
  <1>13. CASE WriteFailed \/ NotifyNext \/ \E r \in Ids : NowaitFailed(r)
    BY <1>0, <1>13 DEF WriteFailed, NotifyNext, NowaitFailed
  <1>14. CASE Hangup \/ ReadFails
    BY <1>0, <1>14 DEF Hangup, ReadFails
  <1>15. ASSUME NEW q \in Ids, Answer(q) PROVE AllOwed'
    BY <1>15, ComingMore, FewerPending DEF Answer
  <1>16. ASSUME NEW e \in Events, Emit(e) PROVE AllOwed'
    BY <1>16, ComingSame, FewerPending DEF Emit
  <1> QED
    BY <1>1, <1>2, <1>3, <1>4, <1>5, <1>7, <1>8, <1>9, <1>10, <1>11, <1>12, <1>13, <1>14, <1>15, <1>16
       DEF Next, Program, Read, Return

\* Something is owed when an answer is still to come.
LEMMA OwedIsOwing == TypeOK => (Owed <=> Owing # {})
  <1> SUFFICES ASSUME TypeOK PROVE Owed <=> Owing # {}
    OBVIOUS
  <1>1. inbox \in Seq(Messages) /\ DOMAIN inbox = 1 .. Len(inbox)
    BY DEF TypeOK, QueuesOK
  <1>2. ASSUME NEW i \in DOMAIN inbox, inbox[i][1] = "answer" PROVE Coming # {}
    <2>1. inbox[i] \in Messages
      BY <1>1
    <2>2. inbox[i][2] \in Ids /\ IsAnswer(i, inbox[i][2])
      BY <1>2, <2>1 DEF Messages, IsAnswer
    <2> QED
      BY <1>1, <2>2 DEF Coming
  <1>3. ASSUME NEW q \in Coming PROVE \E i \in DOMAIN inbox : inbox[i][1] = "answer"
    BY <1>1, <1>3 DEF Coming, IsAnswer
  <1> QED
    BY <1>2, <1>3 DEF Owed, Owing

\* Every step leaves a writer, or something that will wake it.
LEMMA WakeupStep ==
    ASSUME TypeOK, TypeOK', InOnePlace, OwedOnce, SentOnce, AllOwed, NoLostWakeup, Next
    PROVE  NoLostWakeup'
  <1> USE DEF queues, requests, wire, refs, frames, io
  <1>o. (Owed <=> Owing # {}) /\ (Owed' <=> Owing' # {})
    <2>1. (TypeOK => (Owed <=> Owing # {}))'
      BY OwedIsOwing, PTL
    <2> QED
      BY <2>1, OwedIsOwing
  <1>a. /\ open /\ reply_queue # {} => writer_active
        /\ open /\ request_queue # {} /\ pending_list = {} => writer_active \/ Owing # {} \/ running = "complete"
    BY <1>o DEF NoLostWakeup
  <1> SUFFICES ASSUME open'
               PROVE  /\ reply_queue' # {} => writer_active'
                      /\ request_queue' # {} /\ pending_list' = {} =>
                            writer_active' \/ Owing' # {} \/ running' = "complete"
    BY <1>o DEF NoLostWakeup
  <1> DEFINE Goal == /\ reply_queue' # {} => writer_active'
                     /\ request_queue' # {} /\ pending_list' = {} =>
                            writer_active' \/ Owing' # {} \/ running' = "complete"
  <1>b. writer_active \in BOOLEAN /\ pending_list \subseteq Ids /\ request_queue \subseteq Ids /\ reply_queue \subseteq Ids
    BY DEF TypeOK, FlagsOK, QueuesOK
  <1>0. ASSUME UNCHANGED <<queues, writer_active, open, running, kernel, inbox>> PROVE Goal
    BY <1>0, <1>a, OwingStays
  <1>1. ASSUME NEW c \in Commands, Send(c) PROVE Goal
    BY <1>1 DEF Send, Awake
  <1>2. ASSUME NEW c \in Commands, Reply(c) PROVE Goal
    BY <1>2 DEF Reply, Awake
  <1>3. ASSUME NEW c \in Commands, SendNowait(c) PROVE Goal
    <2>1. UNCHANGED <<reply_queue, request_queue, writer_active, open, running, inbox>>
      BY <1>3 DEF SendNowait
    <2>2. CASE Written(next_request_id)
      BY <1>a, <2>1, <2>2 DEF Written
    <2>3. CASE NotWritten(next_request_id)
      BY <1>0, <2>1, <2>3 DEF NotWritten
    <2> QED
      BY <1>3, <2>2, <2>3 DEF SendNowait
  <1>4. ASSUME NEW r \in Ids, Cancel(r) PROVE Goal
    BY <1>4 DEF Cancel, Awake
  <1>5. ASSUME NEW S, Without(S), UNCHANGED writer_active PROVE Goal
    <2>1. /\ reply_queue' \subseteq reply_queue /\ request_queue' \subseteq request_queue
          /\ UNCHANGED <<open, running, kernel, inbox>>
      BY <1>5 DEF Without
    <2>2. Owing' = Owing
      BY <2>1, OwingStays
    <2>3. pending_list # {} => Owing # {}
      BY PendingOwed
    <2> QED
      BY <1>5, <1>a, <2>1, <2>2, <2>3 DEF Without
  <1>6. CASE CancelAll \/ \E i \in Indexes : CancelIndex(i)
    BY <1>5, <1>6 DEF CancelAll, CancelIndex
  <1>7. CASE UnregisterAll \/ \E i \in Indexes : UnregisterIndex(i)
    BY <1>0, <1>7 DEF UnregisterAll, UnregisterIndex, Drop
  <1>8. CASE (\E f \in Filters : Register(f)) \/ \E n \in Notifies : Unregister(n)
    BY <1>0, <1>8 DEF Register, Unregister
  <1>9. CASE Unref
    BY <1>0, <1>9 DEF Unref, FreeAll
  <1>10. CASE CanWriteData
    <2>1. writer_active /\ UNCHANGED <<open, inbox>>
      BY <1>10 DEF CanWriteData
    <2>2. CASE UNCHANGED queues /\ ~ \E r \in Ids : Turn(r)
      <3>1. reply_queue = {}
        BY <1>b, <2>2, HeadExists DEF Turn
      <3>2. request_queue = {} \/ pending_list # {}
        BY <1>b, <2>2, <3>1, HeadExists DEF Turn
      <3> QED
        BY <2>2, <3>1, <3>2
    <2>3. CASE \E r \in Ids : Written(r) /\ writer_active' = (reply_queue' # {})
      BY <2>3 DEF Written
    <2>4. CASE UNCHANGED writer_active
      BY <2>1, <2>4
    <2> QED
      BY <1>10, <2>2, <2>3, <2>4 DEF CanWriteData
  <1>11. CASE ReadAnswer
    <2>1. CASE writer_active' = Awake(pending_list, reply_queue) /\ UNCHANGED queues
      BY <2>1 DEF Awake
    <2>2. CASE running' = "complete" /\ UNCHANGED <<reply_queue, writer_active>>
      BY <1>11, <1>a, <2>2 DEF ReadAnswer
    <2> QED
      BY <1>11, <2>1, <2>2 DEF ReadAnswer
  <1>12. CASE Complete
    BY <1>12 DEF Complete, FreeAll, Awake
  <1>13. CASE NotifyDone
    <2>1. running # "complete"
      BY <1>13 DEF NotifyDone
    <2>2. UNCHANGED <<queues, writer_active, open, kernel, inbox>>
      BY <1>13 DEF NotifyDone, FreeAll
    <2>3. Owing' = Owing
      BY <2>2, OwingStays
    <2> QED
      BY <1>a, <2>1, <2>2, <2>3
  <1>14. CASE WriteFailed
    <2>1. running # "complete"
      BY <1>14 DEF WriteFailed
    <2>2. UNCHANGED <<queues, writer_active, open, kernel, inbox>>
      BY <1>14 DEF WriteFailed
    <2>3. Owing' = Owing
      BY <2>2, OwingStays
    <2> QED
      BY <1>a, <2>1, <2>2, <2>3
  <1>15. CASE NotifyNext \/ \E r \in Ids : NowaitFailed(r)
    BY <1>0, <1>15 DEF NotifyNext, NowaitFailed
  <1>16. CASE ReadEvent
    <2>1. /\ inbox # <<>> /\ inbox' = Tail(inbox) /\ Head(inbox)[1] = "event" /\ running = "idle"
          /\ UNCHANGED <<kernel, queues, writer_active, open>>
      BY <1>16 DEF ReadEvent, Idle
    <2>2. Owing' = Owing
      BY <2>1, ComingLess
    <2> QED
      BY <1>a, <2>1, <2>2
  <1>17. CASE Hangup
    BY <1>17 DEF Hangup
  <1>18. CASE ReadFails
    BY <1>0, <1>18 DEF ReadFails
  <1>19. ASSUME NEW q \in Ids, Answer(q) PROVE Goal
    <2>1. UNCHANGED <<queues, writer_active, open, running>> /\ Owing' = Owing
      BY <1>19, ComingMore DEF Answer
    <2> QED
      BY <1>a, <2>1
  <1>20. ASSUME NEW e \in Events, Emit(e) PROVE Goal
    <2>1. UNCHANGED <<queues, writer_active, open, running>> /\ Owing' = Owing
      BY <1>20, ComingSame DEF Emit
    <2> QED
      BY <1>a, <2>1
  <1> QED
    BY <1>1, <1>2, <1>3, <1>4, <1>6, <1>7, <1>8, <1>9, <1>10, <1>11, <1>12, <1>13, <1>14, <1>15, <1>16,
       <1>17, <1>18, <1>19, <1>20 DEF Next, Program, Read, Return

-----------------------------------------------------------------------------
(* Answers that go astray. *)

\* What is known of the answers: a request that was written and called back was
\* answered, and not with its own answer while that is still to come.
Tracked ==
    /\ \A q \in Ids : sent[q] > 0 /\ calls[q] > 0 => answered[q] # 0
    /\ \A q \in Owing : answered[q] # q
    /\ \A q \in Ids : calls[q] = 0 => answered[q] = 0

\* A callback leaves the histories of all other requests alone.
LEMMA CalledAt ==
    ASSUME TypeOK, NEW r \in Ids, NEW by, Call(r, by)
    PROVE  /\ calls'[r] = calls[r] + 1 /\ answered'[r] = by
           /\ \A q \in Ids : q # r => calls'[q] = calls[q] /\ answered'[q] = answered[q]
  BY DEF TypeOK, RequestsOK, Call

\* Every step keeps what is known of the answers.
LEMMA TrackedStep ==
    ASSUME TypeOK, InOnePlace, OwedOnce, SentOnce, Tracked, Next
    PROVE  Tracked'
  <1> USE DEF queues, requests, wire, refs, frames, fates
  <1>0. ASSUME UNCHANGED <<kernel, inbox, sent, calls, answered>> PROVE Tracked'
    BY <1>0, OwingStays DEF Tracked
  <1>t. Owing \subseteq Ids /\ \A q \in Owing : sent[q] > 0
    BY DEF Owing, Coming, TypeOK, QueuesOK, SentOnce
  <1>w. ASSUME NEW r \in Ids, Written(r), sent[r] = 0, calls[r] = 0, UNCHANGED inbox PROVE Tracked'
    <2>1. UNCHANGED <<calls, answered>>
      BY <1>w DEF Written
    <2>2. /\ Owing' = Owing \cup {r}
          /\ \A q \in Ids : q # r => sent'[q] = sent[q]
      BY <1>w, OwingWritten
    <2>3. answered[r] # r
      BY <1>w DEF Tracked, Ids
    <2> QED
      BY <1>w, <2>1, <2>2, <2>3 DEF Tracked
  <1>n. ASSUME NEW r \in Ids, NotWritten(r), sent[r] = 0, UNCHANGED inbox PROVE Tracked'
    <2>1. Call(r, 0) /\ UNCHANGED <<kernel, sent>>
      BY <1>n DEF NotWritten
    <2>2. Owing' = Owing
      BY <1>n, <2>1, OwingStays
    <2>3. /\ calls'[r] = calls[r] + 1 /\ answered'[r] = 0
          /\ \A q \in Ids : q # r => calls'[q] = calls[q] /\ answered'[q] = answered[q]
      BY <2>1, CalledAt
    <2>4. r \notin Owing
      BY <1>n, <1>t
    <2> QED
      BY <1>n, <1>t, <2>1, <2>2, <2>3, <2>4 DEF Tracked
  <1>1. ASSUME NEW c \in Commands, Send(c) \/ Reply(c) PROVE Tracked'
    BY <1>0, <1>1 DEF Send, Reply
  <1>2. ASSUME NEW c \in Commands, SendNowait(c) PROVE Tracked'
    <2>1. NewRequest(c, "nowait") /\ "nowait" \in Kinds /\ UNCHANGED inbox
      BY <1>2 DEF SendNowait, Kinds
    <2>2. next_request_id \in Ids /\ sent[next_request_id] = 0 /\ calls[next_request_id] = 0
      BY <2>1, NewUnsent
    <2> QED
      BY <1>2, <1>w, <1>n, <2>1, <2>2 DEF SendNowait
  <1>3. CASE CancelAll \/ (\E r \in Ids : Cancel(r)) \/ \E i \in Indexes : CancelIndex(i)
    BY <1>0, <1>3 DEF CancelAll, Cancel, CancelIndex, Without
  <1>4. CASE UnregisterAll \/ \E i \in Indexes : UnregisterIndex(i)
    BY <1>0, <1>4 DEF UnregisterAll, UnregisterIndex, Drop
  <1>5. CASE (\E f \in Filters : Register(f)) \/ \E n \in Notifies : Unregister(n)
    BY <1>0, <1>5 DEF Register, Unregister
  <1>6. ASSUME NEW S, FreeAll(S) PROVE Tracked'
    BY <1>6, OwingFreed DEF FreeAll, Tracked
  <1>7. CASE Unref
    BY <1>0, <1>6, <1>7 DEF Unref
  <1>8. CASE Complete
    BY <1>0, <1>6, <1>8 DEF Complete
  <1>9. CASE NotifyDone
    BY <1>0, <1>6, <1>9 DEF NotifyDone
  <1>10. CASE CanWriteData
    <2>1. CASE UNCHANGED <<wire, fates>>
      BY <1>0, <1>10, <2>1 DEF CanWriteData
    <2>2. ASSUME NEW r \in Ids, Turn(r), Written(r) \/ NotWritten(r) PROVE Tracked'
      <3>1. sent[r] = 0 /\ r \in Queued
        BY <2>2, TurnUnsent DEF Queued
      <3>2. calls[r] = 0
        BY <3>1, Placed(r) DEF InOnePlace, Placed, TypeOK, RequestsOK
      <3>3. UNCHANGED inbox
        BY <1>10 DEF CanWriteData
      <3> QED
        BY <1>w, <1>n, <2>2, <3>1, <3>2, <3>3
    <2> QED
      BY <1>10, <2>1, <2>2 DEF CanWriteData
  <1>11. CASE ReadAnswer
    <2> DEFINE q == Head(inbox)[2]
    <2>1. /\ inbox # <<>> /\ inbox' = Tail(inbox) /\ Head(inbox)[1] = "answer"
          /\ UNCHANGED <<kernel, sent>>
      BY <1>11 DEF ReadAnswer
    <2>2. q \in Owing /\ Owing' = Owing \ {q}
      BY <2>1, ComingLess
    <2>3. CASE UNCHANGED fates
      BY <2>1, <2>2, <2>3 DEF Tracked
    <2>4. ASSUME NEW r \in Ids, Call(r, q) PROVE Tracked'
      <3>1. /\ calls'[r] = calls[r] + 1 /\ answered'[r] = q
            /\ \A p \in Ids : p # r => calls'[p] = calls[p] /\ answered'[p] = answered[p]
        BY <2>4, CalledAt
      <3>2. q \in Ids
        BY <1>t, <2>2
      <3>4. q # 0
        <4> HIDE DEF q
        <4> QED
          BY <3>2 DEF Ids
      <3>5. calls'[r] # 0
        BY <3>1 DEF TypeOK, RequestsOK
      <3>3. \A p \in Owing' : answered'[p] # p
        BY <1>t, <2>2, <3>1 DEF Tracked
      <3> QED
        BY <2>1, <3>1, <3>3, <3>4, <3>5 DEF Tracked
    <2> QED
      BY <1>11, <2>3, <2>4 DEF ReadAnswer
  <1>12. CASE ReadEvent
    <2>1. /\ inbox # <<>> /\ inbox' = Tail(inbox) /\ Head(inbox)[1] = "event"
          /\ UNCHANGED <<kernel, sent, calls, answered>>
      BY <1>12 DEF ReadEvent
    <2>2. Owing' = Owing
      BY <2>1, ComingLess
    <2> QED
      BY <2>1, <2>2 DEF Tracked
  <1>13. CASE WriteFailed \/ NotifyNext \/ \E r \in Ids : NowaitFailed(r)
    BY <1>0, <1>13 DEF WriteFailed, NotifyNext, NowaitFailed
  <1>14. CASE Hangup \/ ReadFails
    BY <1>0, <1>14 DEF Hangup, ReadFails
  <1>15. ASSUME NEW q \in Ids, Answer(q) PROVE Tracked'
    BY <1>15, ComingMore DEF Answer, Tracked
  <1>16. ASSUME NEW e \in Events, Emit(e) PROVE Tracked'
    BY <1>16, ComingSame DEF Emit, Tracked
  <1> QED
    BY <1>1, <1>2, <1>3, <1>4, <1>5, <1>7, <1>8, <1>9, <1>10, <1>11, <1>12, <1>13, <1>14, <1>15, <1>16
       DEF Next, Program, Read, Return

\* A request that was given stays what it is.
LEMMA GivenStays ==
    ASSUME TypeOK, InOnePlace, SentOnce, Next, NEW q \in Given
    PROVE  q \in Given' /\ command'[q] = command[q] /\ kind'[q] = kind[q]
  <1>0. ASSUME UNCHANGED requests PROVE q \in Given' /\ command'[q] = command[q] /\ kind'[q] = kind[q]
    BY <1>0 DEF requests, Given
  <1>1. ASSUME NEW c \in Commands, NEW k \in Kinds, NewRequest(c, k)
        PROVE q \in Given' /\ command'[q] = command[q] /\ kind'[q] = kind[q]
    BY <1>1, NewUnsent DEF Given
  <1>2. CASE \E c \in Commands : Send(c) \/ Reply(c) \/ SendNowait(c)
    BY <1>1, <1>2 DEF Send, Reply, SendNowait, Kinds
  <1>3. CASE CancelAll \/ (\E r \in Ids : Cancel(r)) \/ \E i \in Indexes : CancelIndex(i)
    BY <1>0, <1>3 DEF CancelAll, Cancel, CancelIndex, Without
  <1>4. CASE UnregisterAll \/ (\E i \in Indexes : UnregisterIndex(i)) \/ (\E f \in Filters : Register(f))
             \/ \E n \in Notifies : Unregister(n)
    BY <1>0, <1>4 DEF UnregisterAll, UnregisterIndex, Drop, Register, Unregister
  <1>5. CASE Unref \/ Complete \/ NotifyDone
    BY <1>0, <1>5 DEF Unref, Complete, NotifyDone, FreeAll
  <1>6. CASE CanWriteData \/ Read \/ WriteFailed \/ NotifyNext \/ Hangup \/ ReadFails
    BY <1>0, <1>6 DEF CanWriteData, Read, ReadAnswer, ReadEvent, WriteFailed, NotifyNext, Hangup, ReadFails
  <1>7. CASE (\E r \in Ids : NowaitFailed(r) \/ Answer(r)) \/ \E e \in Events : Emit(e)
    BY <1>0, <1>7 DEF NowaitFailed, Answer, Emit
  <1> QED
    BY <1>2, <1>3, <1>4, <1>5, <1>6, <1>7 DEF Next, Program, Return

\* Nothing more happens to a request that has ended.
LEMMA EndedStays ==
    ASSUME TypeOK, FramesAgree, InOnePlace, SentOnce, Next, NEW q \in Given, q \notin Queued \cup Running
    PROVE  sent'[q] = sent[q] /\ calls'[q] = calls[q] /\ destroys'[q] = destroys[q]
  <1> DEFINE Goal == sent'[q] = sent[q] /\ calls'[q] = calls[q] /\ destroys'[q] = destroys[q]
  <1>q. q \in Ids
    BY DEF Given
  <1>0. ASSUME UNCHANGED <<sent, fates>> PROVE Goal
    BY <1>0 DEF fates
  <1>d. ASSUME NEW S, Destroy(S), q \notin S, UNCHANGED <<sent, calls>> PROVE Goal
    BY <1>d, <1>q DEF Destroy
  <1>w. ASSUME NEW r \in Ids, Written(r) \/ NotWritten(r), r # q PROVE Goal
    <2>1. CASE Written(r)
      BY <1>w, <1>q, <2>1 DEF Written, fates, TypeOK, RequestsOK
    <2>2. CASE NotWritten(r)
      BY <1>w, <1>q, <2>2, CalledAt DEF NotWritten, wire
    <2> QED
      BY <1>w, <2>1, <2>2
  <1>1. ASSUME NEW c \in Commands, Send(c) \/ Reply(c) PROVE Goal
    BY <1>0, <1>1 DEF Send, Reply, wire
  <1>2. ASSUME NEW c \in Commands, SendNowait(c) PROVE Goal
    <2>1. NewRequest(c, "nowait") /\ "nowait" \in Kinds
      BY <1>2 DEF SendNowait, Kinds
    <2>2. next_request_id \in Ids /\ next_request_id # q
      BY <2>1, NewUnsent
    <2> QED
      BY <1>2, <1>w, <2>2 DEF SendNowait
  <1>3. CASE CancelAll \/ (\E r \in Ids : Cancel(r)) \/ \E i \in Indexes : CancelIndex(i)
    <2>1. PICK S \in SUBSET Queued : Without(S)
      BY <1>3 DEF CancelAll, Cancel, CancelIndex
    <2> QED
      BY <1>d, <2>1 DEF Without, wire
  <1>4. CASE UnregisterAll \/ (\E i \in Indexes : UnregisterIndex(i)) \/ (\E f \in Filters : Register(f))
             \/ \E n \in Notifies : Unregister(n)
    BY <1>0, <1>4 DEF UnregisterAll, UnregisterIndex, Drop, Register, Unregister, wire
  <1>5. CASE Unref
    BY <1>0, <1>d, <1>5 DEF Unref, FreeAll, wire
  <1>6. CASE Complete
    <2>1. q # current
      BY <1>6 DEF Complete, FramesAgree, Running
    <2> QED
      BY <1>d, <1>6, <2>1 DEF Complete, FreeAll, wire
  <1>7. CASE NotifyDone
    BY <1>0, <1>d, <1>7 DEF NotifyDone, FreeAll, wire
  <1>8. CASE WriteFailed
    <2>1. q # current
      BY <1>8 DEF WriteFailed, FramesAgree, Running
    <2> QED
      BY <1>d, <1>8, <2>1 DEF WriteFailed, wire
  <1>9. ASSUME NEW r \in Ids, NowaitFailed(r) PROVE Goal
    BY <1>d, <1>9 DEF NowaitFailed, wire, Running
  <1>10. CASE CanWriteData
    <2>1. CASE UNCHANGED <<wire, fates>>
      BY <1>0, <2>1 DEF wire
    <2>2. ASSUME NEW r \in Ids, Turn(r), Written(r) \/ NotWritten(r) PROVE Goal
      <3>1. r # q
        BY <2>2, TurnUnsent DEF Queued
      <3> QED
        BY <1>w, <2>2, <3>1
    <2> QED
      BY <1>10, <2>1, <2>2 DEF CanWriteData
  <1>11. CASE ReadAnswer
    <2>1. CASE UNCHANGED fates
      BY <1>0, <1>11, <2>1 DEF ReadAnswer, wire
    <2>2. ASSUME NEW r \in pending_list, Call(r, Head(inbox)[2]), UNCHANGED destroys PROVE Goal
      <3>1. r \in Ids /\ r # q
        BY DEF Queued, TypeOK, QueuesOK
      <3> QED
        BY <1>11, <1>q, <2>2, <3>1, CalledAt DEF ReadAnswer, wire
    <2> QED
      BY <1>11, <2>1, <2>2 DEF ReadAnswer, FirstSent, Matching
  <1>12. CASE ReadEvent \/ NotifyNext \/ Hangup \/ ReadFails
    BY <1>0, <1>12 DEF ReadEvent, NotifyNext, Hangup, ReadFails, wire
  <1>13. CASE (\E r \in Ids : Answer(r)) \/ \E e \in Events : Emit(e)
    BY <1>0, <1>13 DEF Answer, Emit, wire
  <1> QED
    BY <1>1, <1>2, <1>3, <1>4, <1>5, <1>6, <1>7, <1>8, <1>9, <1>10, <1>11, <1>12, <1>13
       DEF Next, Program, Read, Return

\* Only an answer that is read answers a request.
LEMMA AnsweredBy ==
    ASSUME TypeOK, InOnePlace, SentOnce, Next, NEW r \in Ids, answered'[r] # answered[r], answered'[r] # 0
    PROVE  /\ ReadAnswer /\ answered'[r] = Head(inbox)[2]
           /\ r \in Matching(Head(inbox)[2]) /\ Call(r, Head(inbox)[2]) /\ UNCHANGED destroys
  <1>0. answered' # answered
    OBVIOUS
  <1>n. ASSUME NEW s \in Ids, Written(s) \/ NotWritten(s) PROVE FALSE
    BY <1>n, <1>0, CalledAt DEF Written, NotWritten, fates
  <1>1. ASSUME NEW c \in Commands, Send(c) \/ Reply(c) PROVE FALSE
    BY <1>0, <1>1 DEF Send, Reply, fates
  <1>2. ASSUME NEW c \in Commands, SendNowait(c) PROVE FALSE
    <2>1. NewRequest(c, "nowait") /\ "nowait" \in Kinds
      BY <1>2 DEF SendNowait, Kinds
    <2> QED
      BY <1>2, <1>n, <2>1, NewUnsent DEF SendNowait
  <1>3. CASE CancelAll \/ (\E s \in Ids : Cancel(s)) \/ \E i \in Indexes : CancelIndex(i)
    BY <1>0, <1>3 DEF CancelAll, Cancel, CancelIndex, Without
  <1>4. CASE UnregisterAll \/ (\E i \in Indexes : UnregisterIndex(i)) \/ (\E f \in Filters : Register(f))
             \/ \E n \in Notifies : Unregister(n)
    BY <1>0, <1>4 DEF UnregisterAll, UnregisterIndex, Drop, Register, Unregister, fates
  <1>5. CASE Unref \/ Complete \/ NotifyDone
    BY <1>0, <1>5 DEF Unref, Complete, NotifyDone, FreeAll, fates
  <1>6. CASE CanWriteData
    BY <1>0, <1>n, <1>6 DEF CanWriteData, fates
  <1>7. CASE ReadEvent \/ WriteFailed \/ NotifyNext \/ Hangup \/ ReadFails
    BY <1>0, <1>7 DEF ReadEvent, WriteFailed, NotifyNext, Hangup, ReadFails, fates
  <1>8. CASE (\E s \in Ids : NowaitFailed(s) \/ Answer(s)) \/ \E e \in Events : Emit(e)
    BY <1>0, <1>8 DEF NowaitFailed, Answer, Emit, fates
  <1>9. CASE ReadAnswer
    <2>1. PICK s \in Ids : FirstSent(s, Matching(Head(inbox)[2])) /\ Call(s, Head(inbox)[2]) /\ UNCHANGED destroys
      BY <1>0, <1>9 DEF ReadAnswer, fates
    <2>2. s = r
      BY <2>1, CalledAt
    <2> QED
      BY <1>9, <2>1, <2>2, CalledAt DEF FirstSent
  <1> QED
    BY <1>1, <1>2, <1>3, <1>4, <1>5, <1>6, <1>7, <1>8, <1>9 DEF Next, Program, Read, Return

\* A request that did not wait its turn, or was cancelled after it was written.
Jumped(q) == kind[q] # "request" \/ (sent[q] > 0 /\ calls[q] = 0 /\ destroys[q] = 1)

\* It stays so,
LEMMA JumpedStays ==
    ASSUME TypeOK, FramesAgree, InOnePlace, SentOnce, Next, NEW q \in Given, Jumped(q)
    PROVE  q \in Given' /\ command'[q] = command[q] /\ Jumped(q)'
  <1>1. q \in Given' /\ command'[q] = command[q] /\ kind'[q] = kind[q]
    BY GivenStays
  <1>2. CASE kind[q] # "request"
    BY <1>1, <1>2 DEF Jumped
  <1>3. CASE sent[q] > 0 /\ calls[q] = 0 /\ destroys[q] = 1
    <2>1. q \notin Queued \cup Running
      BY <1>3 DEF InOnePlace, Placed, Given
    <2> QED
      BY <1>1, <1>3, <2>1, EndedStays DEF Jumped
  <1> QED
    BY <1>2, <1>3 DEF Jumped

\* and an answer that goes astray has one like it to blame: the request the
\* answer was for, the one that got it, or whatever sent that of the first astray.
LEMMA AnswersStep ==
    ASSUME TypeOK, FramesAgree, InOnePlace, OneOrdinary, OwedOnce, SentOnce, Tracked, AnswersOwn, Next
    PROVE  AnswersOwn'
  <1> SUFFICES ASSUME NEW r \in Given', answered'[r] \notin {0, r}
               PROVE  \E p \in Given' : command'[p] = command'[r] /\ Jumped(p)'
    BY DEF AnswersOwn, Jumped
  <1>r. r \in Ids
    BY DEF Given
  <1>1. CASE answered'[r] = answered[r]
    <2>1. r \in Given
      BY <1>1, <1>r DEF InOnePlace, Placed, Tracked
    <2>2. PICK p \in Given : command[p] = command[r] /\ Jumped(p)
      BY <1>1, <2>1 DEF AnswersOwn, Jumped
    <2>3. command'[r] = command[r]
      BY <2>1, GivenStays
    <2> QED
      BY <2>2, <2>3, JumpedStays
  <1>2. CASE answered'[r] # answered[r]
    <2> DEFINE q == Head(inbox)[2]
    <2>1. ReadAnswer /\ answered'[r] = q /\ r \in Matching(q) /\ Call(r, q) /\ UNCHANGED destroys
      BY <1>r, <1>2, AnsweredBy
    <2>2. /\ Idle /\ inbox # <<>> /\ inbox' = Tail(inbox) /\ Head(inbox)[1] = "answer"
          /\ UNCHANGED <<requests, wire>>
      BY <2>1 DEF ReadAnswer
    <2>3. q \in Owing
      BY <2>2, ComingLess DEF wire
    <2> HIDE DEF q
    <2>4. q # r /\ q \in Ids /\ sent[q] > 0
      BY <2>1, <2>3 DEF Owing, Coming, TypeOK, QueuesOK, SentOnce
    <2>5. q \in Given /\ q \notin request_queue \cup reply_queue
      BY <2>4, SentOnce DEF SentOnce
    <2>6. r \in pending_list /\ r \in Given /\ command[r] = command[q]
      BY <1>r, <2>1 DEF Matching, InOnePlace, Placed, Queued
    <2>7. /\ UNCHANGED <<command, kind, sent>> /\ Given' = Given
          /\ calls'[q] = calls[q] /\ destroys' = destroys
      BY <1>r, <2>1, <2>2, <2>4, CalledAt DEF requests, wire, Given
    <2>8. CASE kind[q] # "request"
      BY <2>5, <2>6, <2>7, <2>8 DEF Jumped
    <2>9. CASE kind[r] # "request"
      BY <2>6, <2>7, <2>9 DEF Jumped
    <2>10. CASE kind[q] = "request" /\ kind[r] = "request"
      <3>1. q \notin Queued
        BY <2>4, <2>5, <2>6, <2>10 DEF Queued, OneOrdinary
      <3>2. Running = {}
        BY <2>2 DEF Running, Idle, FramesAgree
      <3>3. destroys[q] = 1
        BY <2>4, <2>5, <3>1, <3>2 DEF InOnePlace, Placed
      <3>4. CASE calls[q] = 0
        BY <2>4, <2>5, <2>6, <2>7, <3>3, <3>4 DEF Jumped
      <3>5. CASE calls[q] # 0
        <4>1. calls[q] > 0
          BY <2>4, <3>5 DEF TypeOK, RequestsOK
        <4>2. answered[q] \notin {0, q}
          BY <2>3, <2>4, <4>1 DEF Tracked
        <4>3. PICK p \in Given : command[p] = command[q] /\ Jumped(p)
          BY <2>5, <4>2 DEF AnswersOwn, Jumped
        <4> QED
          BY <2>6, <2>7, <4>3, JumpedStays
      <3> QED
        BY <3>4, <3>5
    <2> QED
      BY <2>8, <2>9, <2>10
  <1> QED
    BY <1>1, <1>2

\* What is owed to the requests, and what they were given,
AnswersInv == OwedOnce /\ SentOnce /\ AllOwed /\ NoLostWakeup /\ Tracked /\ AnswersOwn

\* hold from the start
LEMMA AnswersInit == Init => AnswersInv
  <1> SUFFICES ASSUME Init PROVE AnswersInv
    OBVIOUS
  <1> USE DEF Init
  <1>1. Coming = {} /\ Owing = {}
    BY DEF Coming, Owing
  <1>2. OwedOnce /\ SentOnce /\ Tracked
    BY <1>1 DEF OwedOnce, SentOnce, Tracked, Ids
  <1>3. AllOwed
    <2> SUFFICES ASSUME NEW c PROVE Cardinality(Alike(pending_list, c)) <= Cardinality(Alike(Owing, c))
      BY DEF AllOwed
    <2>1. Alike(pending_list, c) = {} /\ Alike(Owing, c) = {}
      BY <1>1 DEF Alike
    <2>2. Cardinality({}) = 0 /\ 0 <= 0
      BY FS_EmptySet
    <2>3. Cardinality(Alike(pending_list, c)) = 0 /\ Cardinality(Alike(Owing, c)) = 0
      BY <2>1, <2>2, Zenon
    <2> QED
      BY <2>3
  <1>4. NoLostWakeup /\ AnswersOwn
    BY DEF NoLostWakeup, AnswersOwn, Given
  <1> QED
    BY <1>2, <1>3, <1>4 DEF AnswersInv

\* and always.
LEMMA AnswersHold == Spec => []AnswersInv
  <1>1. ASSUME Inv, Inv', AnswersInv, Next PROVE AnswersInv'
    BY <1>1, OwedStep, AllOwedStep, WakeupStep, TrackedStep, AnswersStep DEF Inv, AnswersInv
  <1>2. ASSUME AnswersInv, UNCHANGED vars PROVE AnswersInv'
    <2> USE <1>2 DEF vars, queues, requests, wire, io, frames, fates
    <2>1. OwedOnce' /\ Owing' = Owing
      BY OwingStays DEF AnswersInv
    <2>2. SentOnce'
      BY <2>1 DEF AnswersInv, SentOnce, Given
    <2>3. ASSUME NEW c \in Commands \cup {Unused}
          PROVE  Cardinality(Alike(pending_list, c))' <= Cardinality(Alike(Owing, c))'
      <3>1. Alike(pending_list, c)' = Alike(pending_list, c) /\ Alike(Owing, c)' = Alike(Owing, c)
        BY <2>1 DEF Alike
      <3> QED
        BY <2>3, <3>1 DEF AnswersInv, AllOwed
    <2>4. AllOwed'
      BY <2>3 DEF AllOwed
    <2>5. NoLostWakeup'
      BY DEF AnswersInv, NoLostWakeup, Owed
    <2>6. Tracked'
      BY <2>1 DEF AnswersInv, Tracked
    <2>7. AnswersOwn'
      BY DEF AnswersInv, AnswersOwn, Given
    <2> QED
      BY <2>1, <2>2, <2>4, <2>5, <2>6, <2>7 DEF AnswersInv
  <1> QED
    BY <1>1, <1>2, AnswersInit, InvHolds, PTL DEF Spec

\* The writer is never left asleep with a command that could go out.
THEOREM WakeupsNotLost == Spec => []NoLostWakeup
  BY AnswersHold, PTL DEF AnswersInv

\* An answer goes to another request only for a reason that can be named.
THEOREM AnswersForTheirOwn == Spec => []AnswersOwn
  BY AnswersHold, PTL DEF AnswersInv
=============================================================================
