----------------------------- MODULE MgmtClient -----------------------------
(***************************************************************************)
(* The management client of src/bluez/bluez-5.42/src/shared/mgmt.c, on     *)
(* which btmgmt stands: startbt.sh pairs the siren's controller with it.   *)
(* Commands wait in two queues, one write handler moves them to the socket *)
(* and to pending_list, answers and events come back on the same socket,   *)
(* and everything runs on one main loop.  The hard part is that the main   *)
(* loop calls back into the program, and the program calls the client      *)
(* again from there: it sends, cancels, registers, unregisters and drops   *)
(* its reference while a queue is walked or a request is being completed.  *)
(*                                                                         *)
(* Ids grow and an entry is appended when its id is given out, so that a   *)
(* queue is the set of ids it holds and its head the smallest one;         *)
(* pending_list, to which replies jump, is ordered by `sent' instead.      *)
(* Destroy callbacks are taken not to call the client.                     *)
(*                                                                         *)
(* Outside src/: the kernel's side of the socket, which answers every      *)
(* command once, when it likes, and emits events.                          *)
(***************************************************************************)
EXTENDS Integers, Sequences

CONSTANTS
    MaxId,          \* bound: the commands a program gives are 1..MaxId
    MaxNotify,      \* bound: the listeners it registers are 1..MaxNotify
    Commands,       \* pairs of an opcode and an index, as records
    Events,         \* events with the index they are about
    Filters,        \* what listeners ask for: an event and an index or NoIndex
    NoIndex,        \* MGMT_INDEX_NONE
    Scenarios       \* bounds on commands, listeners, events, failures, faults

Bounds == [ids : 0 .. MaxId, notifies : 0 .. MaxNotify, events : Nat, failures : Nat, faults : Nat]

ASSUME MgmtAssumption ==
    /\ MaxId \in Nat /\ MaxNotify \in Nat
    /\ Scenarios \subseteq Bounds

VARIABLES
    request_queue, reply_queue, pending_list,
    next_request_id, command, kind,
    sent,           \* when each command was written, 0 if it was not
    writes,         \* commands written so far
    writer_active,
    open, reading,  \* io->fd is usable; io->read_callback is set
    ref_count, held,            \* held: the program still has its reference
    notify_list, removed, listener, next_notify_id,
    in_notify, need_notify_cleanup,
    running,        \* the callback of the main loop that is inside the program
    current,        \* the request whose callback that is
    nested,         \* failed nowait requests whose callback is running, innermost last
    walk,           \* the queue_foreach of process_notify
    kernel,         \* commands that the kernel has not answered
    inbox,          \* what it has written to the socket
    calls, destroys, answered, gone, \* for the properties: what became of requests and listeners
    budget

queues == <<request_queue, reply_queue, pending_list>>
requests == <<next_request_id, command, kind>>
wire == <<sent, writes, kernel>>
io == <<open, reading>>
refs == <<ref_count, held>>
listeners == <<notify_list, removed, listener, next_notify_id, need_notify_cleanup, gone>>
frames == <<running, current, nested, walk, in_notify>>
fates == <<calls, destroys, answered>>
vars == <<queues, requests, wire, writer_active, io, refs, listeners, frames, inbox, fates, budget>>

Ids == 1 .. MaxId
Notifies == 1 .. MaxNotify
Kinds == {"request", "reply", "nowait"}
Unused == [opcode |-> 0, index |-> NoIndex]
NoFilter == [event |-> 0, index |-> NoIndex]
NoWalk == [event |-> NoFilter, listener |-> 0, next |-> 0, began |-> {}, heard |-> {}]

-----------------------------------------------------------------------------
Init ==
    /\ request_queue = {} /\ reply_queue = {} /\ pending_list = {}
    /\ next_request_id = 1
    /\ command = [r \in Ids |-> Unused] /\ kind = [r \in Ids |-> "request"]
    /\ sent = [r \in Ids |-> 0] /\ writes = 0 /\ kernel = {} /\ inbox = <<>>
    /\ writer_active = FALSE /\ open = TRUE /\ reading = TRUE
    /\ ref_count = 1 /\ held = TRUE
    /\ notify_list = {} /\ removed = {} /\ gone = {}
    /\ listener = [n \in Notifies |-> NoFilter] /\ next_notify_id = 1
    /\ in_notify = FALSE /\ need_notify_cleanup = FALSE
    /\ running = "idle" /\ current = 0 /\ nested = {} /\ walk = NoWalk
    /\ calls = [r \in Ids |-> 0] /\ destroys = [r \in Ids |-> 0]
    /\ answered = [r \in Ids |-> 0]
    /\ budget \in Scenarios

\* The main loop calls nothing while a callback runs.
Idle == running = "idle" /\ nested = {}

\* Mutants: the newest of the queue is taken; the writer is woken only when
\* both are empty.
FirstNewest(r, S) == r \in S /\ \A q \in S : q <= r
AwakeWhenEmpty(pending, replies) == writer_active \/ (pending = {} /\ replies = {})

First(r, S) == r \in S /\ \A q \in S : r <= q
FirstSent(r, S) == r \in S /\ \A q \in S : sent[r] <= sent[q]

\* wakeup_writer, given the queues it finds.
Awake(pending, replies) == writer_active \/ pending = {} \/ replies # {}

PutRef == ref_count' = ref_count - 1

Destroy(S) == destroys' = [r \in Ids |-> IF r \in S THEN destroys[r] + 1 ELSE destroys[r]]

Call(r, by) ==
    /\ calls' = [calls EXCEPT ![r] = @ + 1]
    /\ answered' = [answered EXCEPT ![r] = by]

\* send_request that succeeds.
Written(r) ==
    /\ open
    /\ pending_list' = pending_list \cup {r}
    /\ sent' = [sent EXCEPT ![r] = writes + 1] /\ writes' = writes + 1
    /\ kernel' = kernel \cup {r}
    /\ UNCHANGED <<budget, fates>>

\* send_request that fails, up to its callback.
NotWritten(r) ==
    /\ \/ ~open /\ UNCHANGED budget
       \/ /\ open /\ budget.failures > 0
          /\ budget' = [budget EXCEPT !.failures = @ - 1]
    /\ Call(r, 0)
    /\ UNCHANGED <<pending_list, wire, destroys>>

-----------------------------------------------------------------------------
(* The program's calls, made from the main loop or from inside a callback. *)

NewRequest(c, k) ==
    /\ held /\ next_request_id <= budget.ids
    /\ command' = [command EXCEPT ![next_request_id] = c]
    /\ kind' = [kind EXCEPT ![next_request_id] = k]
    /\ next_request_id' = next_request_id + 1

Send(c) ==
    /\ NewRequest(c, "request")
    /\ request_queue' = request_queue \cup {next_request_id}
    /\ writer_active' = Awake(pending_list, reply_queue)
    /\ UNCHANGED <<reply_queue, pending_list, wire, io, refs, listeners, frames, inbox, fates, budget>>

Reply(c) ==
    /\ NewRequest(c, "reply")
    /\ reply_queue' = reply_queue \cup {next_request_id}
    /\ writer_active' = Awake(pending_list, reply_queue')
    /\ UNCHANGED <<request_queue, pending_list, wire, io, refs, listeners, frames, inbox, fates, budget>>

SendNowait(c) ==
    /\ NewRequest(c, "nowait")
    /\ \/ Written(next_request_id) /\ UNCHANGED nested
       \/ NotWritten(next_request_id) /\ nested' = nested \cup {next_request_id}
    /\ UNCHANGED <<request_queue, reply_queue, writer_active, io, refs, listeners, inbox>>
    /\ UNCHANGED <<running, current, walk, in_notify>>

\* Mutant: a cancelled request stays pending.
WithoutPending(S) ==
    /\ request_queue' = request_queue \ S
    /\ reply_queue' = reply_queue \ S
    /\ Destroy(S)
    /\ UNCHANGED <<pending_list, requests, wire, io, refs, listeners, frames, inbox, calls, answered, budget>>

Without(S) ==
    /\ request_queue' = request_queue \ S
    /\ reply_queue' = reply_queue \ S
    /\ pending_list' = pending_list \ S
    /\ Destroy(S)
    /\ UNCHANGED <<requests, wire, io, refs, listeners, frames, inbox, calls, answered, budget>>

Queued == request_queue \cup reply_queue \cup pending_list

Cancel(r) ==
    /\ held /\ r \in Queued
    /\ Without({r})
    /\ writer_active' = Awake(pending_list', reply_queue')

CancelIndex(i) ==
    /\ held
    /\ Without({r \in Queued : command[r].index = i})
    /\ UNCHANGED writer_active

CancelAll == held /\ Without(Queued) /\ UNCHANGED writer_active

Register(f) ==
    /\ held /\ next_notify_id <= budget.notifies
    /\ notify_list' = notify_list \cup {next_notify_id}
    /\ listener' = [listener EXCEPT ![next_notify_id] = f]
    /\ next_notify_id' = next_notify_id + 1
    /\ UNCHANGED <<queues, requests, wire, writer_active, io, refs, frames, inbox, fates, budget>>
    /\ UNCHANGED <<removed, need_notify_cleanup, gone>>

\* Mutant: the cleanup is not asked for.
DropWithoutCleanup(marked, dropped) ==
    /\ IF in_notify
       THEN removed' = removed \cup marked /\ UNCHANGED <<notify_list, gone>>
       ELSE notify_list' = notify_list \ dropped /\ gone' = gone \cup dropped /\ UNCHANGED removed
    /\ UNCHANGED <<queues, requests, wire, writer_active, io, refs, frames, inbox, fates, budget>>
    /\ UNCHANGED <<listener, next_notify_id, need_notify_cleanup>>

\* Outside a notification listeners go at once; inside one they are marked.
Drop(marked, dropped) ==
    /\ IF in_notify
       THEN /\ removed' = removed \cup marked /\ need_notify_cleanup' = TRUE
            /\ UNCHANGED <<notify_list, gone>>
       ELSE /\ notify_list' = notify_list \ dropped /\ gone' = gone \cup dropped
            /\ UNCHANGED <<removed, need_notify_cleanup>>
    /\ UNCHANGED <<queues, requests, wire, writer_active, io, refs, frames, inbox, fates, budget>>
    /\ UNCHANGED <<listener, next_notify_id>>

\* By its id a listener leaves the list at once, and what is marked inside a
\* notification is not found by the cleanup.  The walk has saved the next entry
\* by then, which this call would free if it is the one that goes: that call is
\* left out.
Unregister(n) ==
    /\ held /\ n \in notify_list /\ ~(in_notify /\ n = walk.next)
    /\ notify_list' = notify_list \ {n}
    /\ IF in_notify
       THEN removed' = removed \cup {n} /\ need_notify_cleanup' = TRUE /\ UNCHANGED gone
       ELSE gone' = gone \cup {n} /\ UNCHANGED <<removed, need_notify_cleanup>>
    /\ UNCHANGED <<queues, requests, wire, writer_active, io, refs, frames, inbox, fates, budget>>
    /\ UNCHANGED <<listener, next_notify_id>>

UnregisterIndex(i) ==
    /\ held
    /\ LET exact == {n \in notify_list : listener[n].index = i}
       IN  Drop(IF i = NoIndex THEN notify_list ELSE exact, exact)

UnregisterAll == held /\ Drop(notify_list, notify_list)

\* The last reference goes: mgmt_unref from its third line on, together with
\* the requests S that are being destroyed anyway.
FreeAll(S) ==
    /\ request_queue' = {} /\ reply_queue' = {} /\ pending_list' = {}
    /\ Destroy(S \cup Queued)
    /\ notify_list' = {} /\ gone' = gone \cup notify_list
    /\ writer_active' = FALSE /\ open' = FALSE /\ reading' = FALSE
    /\ kernel' = {} /\ inbox' = <<>>
    /\ UNCHANGED <<requests, sent, writes, removed, listener, next_notify_id, calls, answered, budget>>

\* Mutant: the client is kept although its last reference is gone.
UnrefKeeping ==
    /\ held /\ held' = FALSE /\ PutRef
    /\ UNCHANGED <<queues, requests, wire, writer_active, io, listeners, inbox, fates, budget, frames>>

Unref ==
    /\ held /\ held' = FALSE /\ PutRef
    /\ IF ref_count = 1
       THEN FreeAll({}) /\ UNCHANGED need_notify_cleanup
       ELSE UNCHANGED <<queues, requests, wire, writer_active, io, listeners, inbox, fates, budget>>
    /\ UNCHANGED frames

-----------------------------------------------------------------------------
(* The main loop, and the returns of the callbacks it is in. *)

\* The request that can_write_data takes: replies jump the queue.
Turn(r) ==
    \/ First(r, reply_queue)
    \/ reply_queue = {} /\ pending_list = {} /\ First(r, request_queue)

CanWriteData ==
    /\ Idle /\ open /\ writer_active
    /\ \/ /\ ~ \E r \in Ids : Turn(r)
          /\ writer_active' = FALSE
          /\ UNCHANGED <<queues, wire, frames, fates, budget>>
       \/ \E r \in Ids :
             /\ Turn(r)
             /\ reply_queue' = reply_queue \ {r} /\ request_queue' = request_queue \ {r}
             /\ \/ /\ Written(r)
                   /\ writer_active' = (reply_queue' # {})
                   /\ UNCHANGED frames
                \/ /\ NotWritten(r)
                   /\ running' = "write" /\ current' = r
                   /\ UNCHANGED <<writer_active, nested, walk, in_notify>>
    /\ UNCHANGED <<requests, io, refs, listeners, inbox>>

\* Mutant: only the opcode is compared.
MatchingOpcode(q) == {r \in pending_list : command[r].opcode = command[q].opcode}

Matching(q) == {r \in pending_list : command[r] = command[q]}

\* can_read_data with the answer to q: request_complete up to the callback.
ReadAnswer ==
    /\ Idle /\ open /\ reading /\ inbox # <<>> /\ Head(inbox)[1] = "answer"
    /\ inbox' = Tail(inbox)
    /\ LET q == Head(inbox)[2]
       IN  \/ /\ Matching(q) = {}
              /\ writer_active' = Awake(pending_list, reply_queue)
              /\ UNCHANGED <<queues, refs, frames, fates>>
           \/ \E r \in Ids :
                 /\ FirstSent(r, Matching(q))
                 /\ pending_list' = pending_list \ {r}
                 /\ Call(r, q)
                 /\ running' = "complete" /\ current' = r /\ ref_count' = ref_count + 1
                 /\ UNCHANGED <<request_queue, reply_queue, writer_active, held, destroys>>
                 /\ UNCHANGED <<nested, walk, in_notify>>
    /\ UNCHANGED <<requests, wire, io, listeners, budget>>

\* The rest of request_complete and of can_read_data.
Complete ==
    /\ running = "complete" /\ nested = {}
    /\ IF ref_count = 1
       THEN FreeAll({current}) /\ UNCHANGED need_notify_cleanup
       ELSE /\ Destroy({current})
            /\ writer_active' = Awake(pending_list, reply_queue)
            /\ UNCHANGED <<queues, requests, wire, io, listeners, inbox, calls, answered, budget>>
    /\ running' = "idle" /\ current' = 0 /\ PutRef
    /\ UNCHANGED <<held, nested, walk, in_notify>>

\* The rest of send_request after a failure, in the writer and in a nowait call.
WriteFailed ==
    /\ running = "write" /\ nested = {}
    /\ Destroy({current})
    /\ running' = "idle" /\ current' = 0
    /\ UNCHANGED <<queues, requests, wire, writer_active, io, refs, listeners, inbox>>
    /\ UNCHANGED <<nested, walk, in_notify, calls, answered, budget>>

NowaitFailed(r) ==
    /\ r \in nested /\ \A q \in nested : q <= r
    /\ Destroy({r}) /\ nested' = nested \ {r}
    /\ UNCHANGED <<queues, requests, wire, writer_active, io, refs, listeners, inbox>>
    /\ UNCHANGED <<running, current, walk, in_notify, calls, answered, budget>>

Hears(n, e) == listener[n].event = e.event /\ listener[n].index \in {e.index, NoIndex}

\* Those that notify_handler still calls, from the entry `from' on.
Audience(e, from) == {n \in notify_list \ removed : n >= from /\ Hears(n, e)}

\* queue_foreach saves the entry after n before n is called.
Visit(n, e, began, heard) ==
    \E nx \in Notifies \cup {0} :
        /\ LET later == {m \in notify_list : m > n}
           IN  IF later = {} THEN nx = 0 ELSE First(nx, later)
        /\ walk' = [event |-> e, listener |-> n, next |-> nx, began |-> began, heard |-> heard \cup {n}]

\* can_read_data with an event: process_notify up to the first callback.
ReadEvent ==
    /\ Idle /\ open /\ reading /\ inbox # <<>> /\ Head(inbox)[1] = "event"
    /\ inbox' = Tail(inbox)
    /\ LET e == Head(inbox)[2]
       IN  \/ Audience(e, 1) = {} /\ UNCHANGED <<frames, refs>>
           \/ \E n \in Notifies :
                 /\ First(n, Audience(e, 1)) /\ Visit(n, e, notify_list, {})
                 /\ running' = "notify" /\ in_notify' = TRUE /\ ref_count' = ref_count + 1
                 /\ UNCHANGED <<held, current, nested>>
    /\ UNCHANGED <<queues, requests, wire, writer_active, io, listeners, fates, budget>>

\* Mutant: the saved entry itself is skipped.
AheadSkipping == IF walk.next = 0 THEN {} ELSE Audience(walk.event, walk.next + 1)

Ahead == IF walk.next = 0 THEN {} ELSE Audience(walk.event, walk.next)

NotifyNext ==
    /\ running = "notify" /\ nested = {}
    /\ \E n \in Notifies : First(n, Ahead) /\ Visit(n, walk.event, walk.began, walk.heard)
    /\ UNCHANGED <<queues, requests, wire, writer_active, io, refs, listeners, inbox, fates, budget>>
    /\ UNCHANGED <<running, current, nested, in_notify>>

\* The end of process_notify with its cleanup, and of can_read_data.
NotifyDone ==
    /\ running = "notify" /\ nested = {} /\ Ahead = {}
    /\ running' = "idle" /\ in_notify' = FALSE /\ walk' = NoWalk
    /\ PutRef /\ need_notify_cleanup' = FALSE
    /\ IF ref_count = 1
       THEN FreeAll({})
       ELSE /\ IF need_notify_cleanup
               THEN notify_list' = notify_list \ removed /\ gone' = gone \cup (notify_list \cap removed)
               ELSE UNCHANGED <<notify_list, gone>>
            /\ UNCHANGED <<removed, listener, next_notify_id>>
            /\ UNCHANGED <<queues, requests, wire, writer_active, io, inbox, fates, budget>>
    /\ UNCHANGED <<held, current, nested>>

\* io_callback on EPOLLHUP or EPOLLERR: the client has no disconnect handler.
Hangup ==
    /\ Idle /\ open /\ budget.faults > 0
    /\ budget' = [budget EXCEPT !.faults = @ - 1]
    /\ open' = FALSE /\ reading' = FALSE /\ writer_active' = FALSE
    /\ UNCHANGED <<queues, requests, wire, refs, listeners, frames, inbox, fates>>

\* A failed read makes can_read_data return false: its handler is taken out.
ReadFails ==
    /\ Idle /\ open /\ reading /\ budget.faults > 0
    /\ budget' = [budget EXCEPT !.faults = @ - 1]
    /\ reading' = FALSE
    /\ UNCHANGED <<queues, requests, wire, writer_active, open, refs, listeners, frames, inbox, fates>>

-----------------------------------------------------------------------------
Answer(q) ==
    /\ q \in kernel
    /\ kernel' = kernel \ {q} /\ inbox' = Append(inbox, <<"answer", q>>)
    /\ UNCHANGED <<queues, requests, sent, writes, writer_active, io, refs, listeners, frames, fates, budget>>

Emit(e) ==
    /\ open /\ budget.events > 0
    /\ budget' = [budget EXCEPT !.events = @ - 1] /\ inbox' = Append(inbox, <<"event", e>>)
    /\ UNCHANGED <<queues, requests, wire, writer_active, io, refs, listeners, frames, fates>>

-----------------------------------------------------------------------------
Indexes == {x.index : x \in Commands \cup Filters}

Program ==
    \/ \E c \in Commands : Send(c) \/ Reply(c) \/ SendNowait(c)
    \/ \E r \in Ids : Cancel(r)
    \/ \E i \in Indexes : CancelIndex(i) \/ UnregisterIndex(i)
    \/ \E f \in Filters : Register(f)
    \/ \E n \in Notifies : Unregister(n)
    \/ CancelAll \/ UnregisterAll \/ Unref

Read == ReadAnswer \/ ReadEvent
Return == Complete \/ WriteFailed \/ NotifyNext \/ NotifyDone \/ \E r \in Ids : NowaitFailed(r)

Next ==
    \/ Program
    \/ CanWriteData \/ Read \/ Return \/ Hangup \/ ReadFails
    \/ \E q \in Ids : Answer(q)
    \/ \E e \in Events : Emit(e)

Spec == Init /\ [][Next]_vars

\* The main loop serves what is ready, callbacks return, the kernel answers.
Fairness ==
    /\ WF_vars(CanWriteData) /\ WF_vars(Read) /\ WF_vars(Return)
    /\ \A q \in Ids : WF_vars(Answer(q))

FairSpec == Spec /\ Fairness

-----------------------------------------------------------------------------
Given == {r \in Ids : r < next_request_id}
Running == (IF current = 0 THEN {} ELSE {current}) \cup nested

Places == {"idle", "complete", "write", "notify"}
Walks == [event : Events \cup {NoFilter}, listener : Notifies \cup {0}, next : Notifies \cup {0},
          began : SUBSET Notifies, heard : SUBSET Notifies]
Messages == ({"answer"} \X Ids) \cup ({"event"} \X Events)

QueuesOK ==
    /\ request_queue \subseteq Ids /\ reply_queue \subseteq Ids /\ pending_list \subseteq Ids
    /\ kernel \subseteq Ids /\ inbox \in Seq(Messages)
RequestsOK ==
    /\ next_request_id \in 1 .. (MaxId + 1)
    /\ command \in [Ids -> Commands \cup {Unused}] /\ kind \in [Ids -> Kinds]
    /\ sent \in [Ids -> Nat] /\ writes \in Nat
    /\ calls \in [Ids -> Nat] /\ destroys \in [Ids -> Nat] /\ answered \in [Ids -> Ids \cup {0}]
ListenersOK ==
    /\ notify_list \subseteq Notifies /\ removed \subseteq Notifies /\ gone \subseteq Notifies
    /\ listener \in [Notifies -> Filters \cup {NoFilter}]
    /\ next_notify_id \in 1 .. (MaxNotify + 1)
FramesOK ==
    /\ running \in Places /\ current \in Ids \cup {0} /\ nested \subseteq Ids /\ walk \in Walks
    /\ budget \in Bounds
FlagsOK ==
    {writer_active, open, reading, held, in_notify, need_notify_cleanup} \subseteq BOOLEAN

TypeOK ==
    /\ QueuesOK /\ RequestsOK /\ ListenersOK /\ FramesOK /\ FlagsOK
    /\ ref_count \in 0 .. 2

\* Where one request is, and that the places have nothing in common.
Placed(r) ==
    /\ r \in Given => destroys[r] = (IF r \in Queued \cup Running THEN 0 ELSE 1)
    /\ r \notin Given => r \notin Queued \cup Running /\ destroys[r] = 0 /\ calls[r] = 0
    /\ calls[r] <= (IF r \in Queued THEN 0 ELSE 1)
PlacesApart ==
    /\ request_queue \cap reply_queue = {}
    /\ pending_list \cap (request_queue \cup reply_queue) = {}
    /\ Queued \cap Running = {} /\ current \notin nested

\* Every request that was given is in exactly one place: in one of the queues,
\* in a callback that runs, or destroyed, once; and its callback was called at
\* most once, and not while it is still queued.  No sequence of sends, cancels,
\* answers and unrefs, nested in callbacks or not, loses a request or frees it
\* twice.
InOnePlace == (\A r \in Ids : Placed(r)) /\ PlacesApart

\* Of the commands sent by mgmt_send at most one is pending, however replies
\* and nowait commands jump the queue and whatever is cancelled.
OneOrdinary ==
    \A r, q \in pending_list : kind[r] = "request" /\ kind[q] = "request" => r = q

\* A command that may go out is never forgotten: the writer is on, or
\* something that will turn it on is still to come: an answer that the kernel
\* owes (mgmt_cancel_index does not wake the writer), or the end of a callback.
Owed == kernel # {} \/ \E i \in DOMAIN inbox : inbox[i][1] = "answer"
NoLostWakeup ==
    /\ open /\ reply_queue # {} => writer_active
    /\ open /\ request_queue # {} /\ pending_list = {} =>
          writer_active \/ Owed \/ running = "complete"

\* An answer is matched by opcode and index.  It goes to a request other than
\* the one it answers only if, of the requests with that opcode and index, one
\* was cancelled when it was pending or one did not wait its turn.
AnswersOwn ==
    \A r \in Given :
        answered[r] \notin {0, r} =>
            \E q \in Given :
                /\ command[q] = command[r]
                /\ kind[q] # "request" \/ (sent[q] > 0 /\ calls[q] = 0 /\ destroys[q] = 1)

\* Listeners that have been unregistered: destroyed ones are out of the list;
\* those only marked are in it no longer than the notification that runs; and
\* the client is not freed with a listener or a request left in it.
ListenersSettle ==
    /\ gone \cap notify_list = {}
    /\ ~in_notify => removed \cap notify_list = {} /\ ~need_notify_cleanup
    /\ \A n \in Notifies : n < next_notify_id => n \in notify_list \cup gone \cup removed
    /\ in_notify => ref_count > 0
    /\ ref_count = 0 => notify_list = {} /\ Queued = {} /\ ~writer_active

\* A notification that ends has reached every listener that asked for its event
\* before it began and is still registered, whatever the callbacks registered
\* and unregistered under it.
EventReachesAll ==
    [][in_notify /\ ~in_notify' =>
          \A n \in walk.began \cap notify_list' :
              Hears(n, walk.event) => n \in walk.heard]_vars

\* Once the program has dropped its reference, no callback of a request runs.
QuietAfterUnref == [][~held => calls' = calls]_vars

\* Every command given to the client ends, as long as its socket works: it is
\* answered, fails or is cancelled, and is destroyed.
EveryRequestEnds ==
    \A r \in Ids : (r \in Given) ~> (destroys[r] > 0 \/ ~open \/ ~reading)

\* The client implements the service that its callers rely on.
Phase == [r \in Ids |->
    IF r \in pending_list THEN "sent"
    ELSE IF r \in request_queue \cup reply_queue THEN "waiting"
    ELSE IF r \in Given THEN "over" ELSE "new"]

Service == INSTANCE MgmtService WITH phase <- Phase
ImplementsMgmtService == Service!Spec

=============================================================================
