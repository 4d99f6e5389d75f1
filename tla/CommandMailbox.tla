-------------------------- MODULE CommandMailbox --------------------------
(***************************************************************************)
(* How a command of the web page reaches the door.  The page writes the    *)
(* field todo of the door and then todo-name (WebInterface/src/main.js,    *)
(* writecom); the script smartdoor/scripts/online.js listens to the door,  *)
(* clears todo and carries the command out.  One field is the whole        *)
(* mailbox, and everybody writes it through a database client that sends   *)
(* its own writes in order, shows them locally at once and receives the    *)
(* others' with a delay.                                                   *)
(*                                                                         *)
(* Commands are numbered in the order they are given; todo holds a number  *)
(* or Null (the string "null").  The numbers, `issued`, `arrived`, `fate`, *)
(* `clean` and `done` exist for the properties only.                       *)
(*                                                                         *)
(* Outside src/, modelled from its use: the real-time database.  A client  *)
(* keeps its unacknowledged writes (`puts`), which shadow the server's     *)
(* values locally and are sent again after a reconnection; the server      *)
(* applies them in order, tells every listener, and acknowledges.          *)
(***************************************************************************)
EXTENDS Integers, Sequences

CONSTANTS
    Users,          \* people with the web page open
    NoUser,         \* todo-name of a door that never had a command
    Services,       \* services switched on in config
    Todos,          \* the commands people give
    MaxCommands,    \* bound: commands given in a behaviour
    MaxDrops,       \* bound: losses of online.js's connection
    MaxCrashes,     \* bound: deaths of online.js
    MaxFaults,      \* bound: both together
    MaxBeats        \* bound: heartbeats

ASSUME MailboxAssumption ==
    /\ NoUser \notin Users
    /\ Services \subseteq {"Motor", "Alarm", "Notification"}
    /\ Todos \subseteq {"Lock", "Unlock", "AlarmOff", "Emergency"}
    /\ MaxCommands \in Nat /\ MaxBeats \in Nat
    /\ MaxDrops \in Nat /\ MaxCrashes \in Nat /\ MaxFaults \in Nat

VARIABLES
    issued,     \* the commands given: who asked for what
    up,         \* each page's writes on their way to the server
    srv,        \* the fields of the door at the server
    toDoor,     \* messages of the server to online.js
    link,       \* online.js's connection to the server
    alive,      \* online.js runs
    cache,      \* online.js's copy of the fields, or Unknown
    puts,       \* online.js's unacknowledged writes
    applied,    \* how many of puts the server has applied
    calls,      \* services called by the handler, in order
    done,       \* the commands the handler carried out, in order
    arrived,    \* the commands that reached the server, in order
    fate,       \* what became of each command
    clean,      \* commands that arrived at an empty mailbox, no clear under way
    drops, crashes, beats       \* used up parts of the bounds

client == <<link, alive, cache, puts, applied>>
history == <<done, arrived, fate, clean>>
bounds == <<drops, crashes, beats>>
vars == <<issued, up, srv, toDoor, client, calls, history, bounds>>

-----------------------------------------------------------------------------
Ids == 1 .. MaxCommands
Null == 0

Unknown == [todo |-> Null, name |-> NoUser, known |-> FALSE]
Known(todo, name) == [todo |-> todo, name |-> name, known |-> TRUE]

Put(key, val) == [key |-> key, val |-> val]
Update(key, val) == [kind |-> "update", key |-> key, val |-> val]
Ack(put) == [kind |-> "ack", key |-> put.key, val |-> put.val]
Snapshot(s) == [kind |-> "snapshot", todo |-> s.todo, name |-> s.name]

Call(service, mode, emergency) ==
    [service |-> service, mode |-> mode, emergency |-> emergency]

\* What online.js sees in todo: its own clear, while the server has not
\* acknowledged it, hides the server's value.
Clearing(p) == \E k \in 1 .. Len(p) : p[k].key = "todo"
Seen(c, p) == IF Clearing(p) THEN Null ELSE c.todo

-----------------------------------------------------------------------------
\* The value listener of online.js.  The clear comes first, so that the local
\* events raised by the handler's own writes find todo empty.
\* Mutant: AlarmOff leaves the popup.
AlertKeepsPopup(on) ==
    IF on THEN <<Put("Emergency", "On"), Put("popup", TRUE)>>
    ELSE <<Put("Emergency", "Off")>>

Log(t, name) == <<Put("log", [id |-> t, name |-> name])>>
Alert(on) ==
    <<Put("Emergency", IF on THEN "On" ELSE "Off"), Put("popup", on)>>

\* Mutant: todo is not cleared.
WritesKeepingTodo(t, name) ==
    CASE issued[t].todo \in {"Lock", "Unlock"} -> Log(t, name)
      [] issued[t].todo = "AlarmOff" -> Alert(FALSE)
      [] issued[t].todo = "Emergency" -> Log(t, name) \o Alert(TRUE)

WritesOf(t, name) ==
    <<Put("todo", Null)>>
    \o CASE issued[t].todo \in {"Lock", "Unlock"} -> Log(t, name)
         [] issued[t].todo = "AlarmOff" -> Alert(FALSE)
         [] issued[t].todo = "Emergency" -> Log(t, name) \o Alert(TRUE)

\* A service is called if it is switched on.
Called(c) == IF c.service \in Services THEN <<c>> ELSE <<>>

CallsOf(t) ==
    CASE issued[t].todo = "Lock" -> Called(Call("Motor", "Close", FALSE))
      [] issued[t].todo = "Unlock" -> Called(Call("Motor", "Open", FALSE))
      [] issued[t].todo = "AlarmOff" -> Called(Call("Alarm", "Off", TRUE))
      [] issued[t].todo = "Emergency" ->
           Called(Call("Motor", "Open", TRUE)) \o Called(Call("Alarm", "On", TRUE))
           \o Called(Call("Notification", "Emergency!!!", FALSE))

\* Mutants: the listener is removed after its first command; todo is cleared
\* by every event.
OnValueOnce(c, p) ==
    LET t == Seen(c, p)
    IN  IF c.known /\ t # Null /\ done = <<>>
        THEN /\ puts' = p \o WritesOf(t, c.name)
             /\ calls' = calls \o CallsOf(t)
             /\ done' = Append(done, t)
             /\ fate' = [fate EXCEPT ![t] = "done"]
        ELSE puts' = p /\ UNCHANGED <<calls, done, fate>>

OnValueClearing(c, p) ==
    LET t == Seen(c, p)
    IN  IF c.known /\ t # Null
        THEN /\ puts' = p \o WritesOf(t, c.name)
             /\ calls' = calls \o CallsOf(t)
             /\ done' = Append(done, t)
             /\ fate' = [fate EXCEPT ![t] = "done"]
        ELSE puts' = Append(p, Put("todo", Null)) /\ UNCHANGED <<calls, done, fate>>

\* An event finds the cache at c and the outstanding writes at p.
OnValue(c, p) ==
    LET t == Seen(c, p)
    IN  IF c.known /\ t # Null
        THEN /\ puts' = p \o WritesOf(t, c.name)
             /\ calls' = calls \o CallsOf(t)
             /\ done' = Append(done, t)
             /\ fate' = [fate EXCEPT ![t] = "done"]
        ELSE puts' = p /\ UNCHANGED <<calls, done, fate>>

-----------------------------------------------------------------------------
Init ==
    /\ issued = <<>> /\ up = [u \in Users |-> <<>>]
    /\ srv = [todo |-> Null, name |-> NoUser, emergency |-> "Off", popup |-> FALSE,
              log |-> {}]
    /\ toDoor = <<>> /\ link = "down" /\ alive = TRUE /\ cache = Unknown
    /\ puts = <<>> /\ applied = 0 /\ calls = <<>>
    /\ done = <<>> /\ arrived = <<>> /\ fate = [t \in Ids |-> "none"] /\ clean = {}
    /\ drops = 0 /\ crashes = 0 /\ beats = 0

\* writecom: the page writes todo, then todo-name.
Writecom(u) ==
    /\ Len(issued) < MaxCommands
    /\ \E todo \in Todos : issued' = Append(issued, [user |-> u, todo |-> todo])
    /\ up' = [up EXCEPT ![u] = @ \o <<Put("todo", Len(issued)+1), Put("name", u)>>]
    /\ fate' = [fate EXCEPT ![Len(issued)+1] = "sent"]
    /\ UNCHANGED <<srv, toDoor, client, calls, done, arrived, clean, bounds>>

\* The page is closed with writes still unsent.
CloseTab(u) ==
    /\ up[u] # <<>>
    /\ up' = [up EXCEPT ![u] = <<>>]
    /\ UNCHANGED <<issued, srv, toDoor, client, calls, history, bounds>>

\* What happens to a command that todo still holds when todo is written: it
\* is lost, unless it was carried out.
Replaced(f, how) ==
    IF srv.todo # Null /\ f[srv.todo] = "stored"
    THEN [f EXCEPT ![srv.todo] = how] ELSE f

\* The server takes a page's next write and tells online.js.
ServePage(u) ==
    /\ up[u] # <<>>
    /\ LET put == Head(up[u])
       IN  /\ srv' = [srv EXCEPT ![put.key] = put.val]
           /\ toDoor' = IF link = "up" THEN Append(toDoor, Update(put.key, put.val))
                        ELSE toDoor
           /\ IF put.key = "todo"
              THEN /\ arrived' = Append(arrived, put.val)
                   /\ fate' = [Replaced(fate, "overwritten") EXCEPT ![put.val] = "stored"]
                   /\ clean' = IF link = "up" /\ srv.todo = Null /\ ~Clearing(puts)
                               THEN clean \cup {put.val} ELSE clean
              ELSE UNCHANGED <<arrived, fate, clean>>
    /\ up' = [up EXCEPT ![u] = Tail(@)]
    /\ UNCHANGED <<issued, client, calls, done, bounds>>

\* The server applies online.js's next write and acknowledges it.
ServeDoor ==
    /\ link = "up" /\ applied < Len(puts)
    /\ LET put == puts[applied + 1]
       IN  /\ srv' = CASE put.key = "todo" -> [srv EXCEPT !.todo = put.val]
                       [] put.key = "log" -> [srv EXCEPT !.log = @ \cup {put.val}]
                       [] put.key = "Emergency" -> [srv EXCEPT !.emergency = put.val]
                       [] put.key = "popup" -> [srv EXCEPT !.popup = put.val]
                       [] put.key = "time" -> srv
           /\ fate' = IF put.key = "todo" THEN Replaced(fate, "wiped") ELSE fate
           /\ toDoor' = Append(toDoor, Ack(put))
    /\ applied' = applied + 1
    /\ UNCHANGED <<issued, up, link, alive, cache, puts, calls, done, arrived, clean, bounds>>

\* online.js receives the server's next message; the listener runs on what it
\* then sees.
Receive ==
    /\ alive /\ toDoor # <<>>
    /\ LET m == Head(toDoor)
           c == CASE m.kind = "snapshot" -> Known(m.todo, m.name)
                  [] m.kind = "update" -> [cache EXCEPT ![m.key] = m.val]
                  [] m.kind = "ack" /\ m.key = "todo" -> [cache EXCEPT !.todo = m.val]
                  [] OTHER -> cache
       IN  /\ cache' = c
           /\ OnValue(c, IF m.kind = "ack" THEN Tail(puts) ELSE puts)
           /\ applied' = IF m.kind = "ack" THEN applied - 1 ELSE applied
    /\ toDoor' = Tail(toDoor)
    /\ UNCHANGED <<issued, up, srv, link, alive, arrived, clean, bounds>>

\* The heartbeat writes a field of the same door: the listener runs again.
Heartbeat ==
    /\ alive /\ beats < MaxBeats
    /\ beats' = beats + 1
    /\ OnValue(cache, Append(puts, Put("time", Null)))
    /\ UNCHANGED <<issued, up, srv, toDoor, link, alive, cache, applied, arrived,
                   clean, drops, crashes>>

\* The connection breaks: what is on its way is lost.
Drop ==
    /\ link = "up" /\ drops < MaxDrops /\ drops + crashes < MaxFaults
    /\ drops' = drops + 1
    /\ link' = "down" /\ toDoor' = <<>> /\ applied' = 0
    /\ UNCHANGED <<issued, up, srv, alive, cache, puts, calls, history, crashes, beats>>

\* A (re)connecting client listens first, so that a snapshot is on its way
\* before its outstanding writes are sent again.
Connect ==
    /\ alive /\ link = "down"
    /\ link' = "up" /\ toDoor' = <<Snapshot(srv)>>
    /\ UNCHANGED <<issued, up, srv, alive, cache, puts, applied, calls, history, bounds>>

Crash ==
    /\ alive /\ crashes < MaxCrashes /\ drops + crashes < MaxFaults
    /\ crashes' = crashes + 1
    /\ alive' = FALSE /\ link' = "down" /\ toDoor' = <<>>
    /\ cache' = Unknown /\ puts' = <<>> /\ applied' = 0
    /\ UNCHANGED <<issued, up, srv, calls, history, drops, beats>>

Restart ==
    /\ ~alive
    /\ alive' = TRUE
    /\ UNCHANGED <<issued, up, srv, toDoor, link, cache, puts, applied, calls,
                   history, bounds>>

Next ==
    \/ \E u \in Users : Writecom(u) \/ CloseTab(u) \/ ServePage(u)
    \/ ServeDoor \/ Receive \/ Heartbeat \/ Drop \/ Connect \/ Crash \/ Restart

Spec == Init /\ [][Next]_vars

\* The server serves its clients, a live script handles what it receives, and
\* its client library reconnects.
Fairness ==
    /\ \A u \in Users : WF_vars(ServePage(u))
    /\ WF_vars(ServeDoor) /\ WF_vars(Receive) /\ WF_vars(Connect)

FairSpec == Spec /\ Fairness

-----------------------------------------------------------------------------
(***************************************************************************)
(* Properties.                                                             *)
(***************************************************************************)
Puts ==
    [key : {"todo", "time"}, val : {Null}]
    \cup [key : {"log"}, val : [id : Ids, name : Users \cup {NoUser}]]
    \cup [key : {"Emergency"}, val : {"On", "Off"}]
    \cup [key : {"popup"}, val : BOOLEAN]
PagePuts == [key : {"todo"}, val : Ids] \cup [key : {"name"}, val : Users]
Messages ==
    {Ack(p) : p \in Puts} \cup {Update(p.key, p.val) : p \in PagePuts}
    \cup [kind : {"snapshot"}, todo : Ids \cup {Null}, name : Users \cup {NoUser}]

Calls ==
    [service : Services, mode : {"Open", "Close", "On", "Off", "Emergency!!!"}, emergency : BOOLEAN]

PagesOK ==
    /\ issued \in Seq([user : Users, todo : Todos]) /\ Len(issued) <= MaxCommands
    /\ up \in [Users -> Seq(PagePuts)]
ServerOK ==
    srv \in [todo : Ids \cup {Null}, name : Users \cup {NoUser},
             emergency : {"On", "Off"}, popup : BOOLEAN,
             log : SUBSET [id : Ids, name : Users \cup {NoUser}]]
DoorOK ==
    /\ toDoor \in Seq(Messages)
    /\ link \in {"up", "down"} /\ alive \in BOOLEAN
    /\ cache \in [todo : Ids \cup {Null}, name : Users \cup {NoUser}, known : BOOLEAN]
    /\ puts \in Seq(Puts) /\ applied \in 0 .. Len(puts) /\ calls \in Seq(Calls)
HistoryOK ==
    /\ done \in Seq(Ids) /\ arrived \in Seq(Ids) /\ clean \subseteq Ids
    /\ fate \in [Ids -> {"none", "sent", "stored", "overwritten", "wiped", "done"}]
    /\ drops \in 0 .. MaxDrops /\ crashes \in 0 .. MaxCrashes /\ beats \in 0 .. MaxBeats

TypeOK == PagesOK /\ ServerOK /\ DoorOK /\ HistoryOK

\* online.js never has two clears of todo outstanding: its own events and its
\* heartbeat find the mailbox empty until the first clear is acknowledged.
OneClear ==
    \A j, k \in 1 .. Len(puts) :
        puts[j].key = "todo" /\ puts[k].key = "todo" => j = k

\* Commands are carried out in the order in which they reached the server,
\* each of them once, through lost connections, repeated writes, heartbeats
\* and other people's commands.  Only a death of online.js between handling a
\* command and having its clear applied makes it do that one again.
Rank(t) == CHOOSE k \in 1 .. Len(arrived) : arrived[k] = t

DoneInOrder ==
    \A j, k \in 1 .. Len(done) :
        j < k => \/ Rank(done[j]) < Rank(done[k])
                 \/ crashes > 0 /\ done[j] = done[k]

\* A command that reaches an empty mailbox with no clear under way is never
\* wiped: the only clear that can reach the server after it is its own.
CleanNeverWiped == \A t \in clean : fate[t] # "wiped"

\* The last emergency command that was carried out raised the alarm.
Alarming ==
    LET alarms == {k \in 1 .. Len(done) : issued[done[k]].todo \in {"Emergency", "AlarmOff"}}
    IN  \E k \in alarms : (\A j \in alarms : j <= k) /\ issued[done[k]].todo = "Emergency"

\* Once online.js has nothing outstanding, the emergency flag and the popup at
\* the server, and the last thing the siren was asked to do, are those of the
\* last emergency command it carried out.
EffectsMatch ==
    puts = <<>> /\ crashes = 0 =>
        LET siren == {k \in 1 .. Len(calls) : calls[k].service = "Alarm"}
            flag == IF Alarming THEN "On" ELSE "Off"
        IN  /\ srv.emergency = flag /\ srv.popup = Alarming
            /\ \A k \in siren : (\A j \in siren : j <= k) => calls[k].mode = flag

\* No command stays in the mailbox while online.js lives.
MailboxDrains == srv.todo # Null ~> (srv.todo = Null \/ ~alive)

\* A command that reached a clean mailbox is carried out, unless another
\* command replaces it at the server first or online.js dies.
CleanIsDone ==
    \A t \in Ids :
        t \in clean ~> (fate[t] \in {"done", "overwritten"} \/ ~alive)

\* What the log page promises ("Done by", WebInterface/src/logs.js): the name
\* logged with a command is that of the person who gave it.
LogNamesSender == \A entry \in srv.log : entry.name = issued[entry.id].user

=============================================================================
