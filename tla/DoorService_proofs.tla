------------------------- MODULE DoorService_proofs -------------------------
(***************************************************************************)
(* Proofs about what the motor service publishes, for any connections,     *)
(* requests, crashes, turns of the handle and any configuration, and that  *)
(* it implements LockService.                                              *)
(*                                                                         *)
(* The properties speak of the database once the writes have arrived.      *)
(* While writes are on their way, what will have arrived is the last write *)
(* of a field, or the database's value if there is none: Last.  Published  *)
(* says what that is at each place of the handler.  A crash keeps a prefix *)
(* of the writes, so that its part about doorneedtobe speaks of prefixes.  *)
(***************************************************************************)
EXTENDS DoorMotor_proofs

Keys == {"doorstatus", "doorneedtobe", "doormsg"}

\* The last of the first n writes to a field gave it the value v.
LastIn(key, n, v) ==
    \/ db[key] = v /\ \A k \in 1 .. n : out[k].key # key
    \/ \E k \in 1 .. n : /\ out[k].key = key /\ out[k].val = v
                         /\ \A j \in 1 .. n : j > k => out[j].key # key

Last(key, v) == LastIn(key, Len(out), v)

\* A message that fits the status published after it.
Fits(m, s) ==
    \A g \in Goals :
        /\ m \in {Already(g), Success(g)} => s = g
        /\ \A t \in Statuses : m = Failure(g, t) => s = t /\ t # g

\* What the last doorstatus is where the handler is, or was.
StatusPublished ==
    /\ pc = "idle" => \E s \in Statuses : Last("doorstatus", s)
    /\ pc = "need" => Last("doorstatus", seen)

\* Whatever is lost, the last doorneedtobe is a status.
NeedPublished == \A n \in 0 .. Len(out) : \E s \in Statuses : LastIn("doorneedtobe", n, s)

\* Without a crash, the two fields agree as soon as there was a command.
BothPublished ==
    crashes = 0 =>
        /\ pc = "down" => Last("doormsg", NoMsg)
        /\ pc = "idle" =>
              \/ Last("doormsg", NoMsg)
              \/ \E s \in Statuses : Last("doorstatus", s) /\ Last("doorneedtobe", s)

\* Without a crash or a hand on the lock, the last message fits.
StoryPublished ==
    crashes = 0 /\ turns = 0 =>
        /\ pc = "settle" => \E m \in Messages : Last("doormsg", m) /\ Fits(m, StatusOf(read, 1))
        /\ pc = "need" => \E m \in Messages : Last("doormsg", m) /\ Fits(m, seen)
        /\ pc = "idle" =>
              \E m \in Messages, s \in Statuses :
                  Last("doormsg", m) /\ Last("doorneedtobe", s) /\ Fits(m, s)

Published == StatusPublished /\ NeedPublished /\ BothPublished /\ StoryPublished

-----------------------------------------------------------------------------
\* The writes after one more write, and after the first one has arrived.
LEMMA Appended ==
    ASSUME NEW S, NEW s \in Seq(S), NEW w \in S
    PROVE  /\ Len(Append(s, w)) = Len(s) + 1 /\ Len(s) \in Nat
           /\ \A k \in 1 .. Len(s) : Append(s, w)[k] = s[k]
           /\ Append(s, w)[Len(s) + 1] = w
  OBVIOUS

\* The first write, and the others, which come one place earlier.
LEMMA Arrived ==
    ASSUME NEW S, NEW s \in Seq(S), s # <<>>
    PROVE  /\ Len(s) \in Nat \ {0} /\ Len(Tail(s)) = Len(s) - 1 /\ Head(s) = s[1]
           /\ \A k \in 1 .. Len(Tail(s)) : Tail(s)[k] = s[k + 1]
  OBVIOUS

\* A write is the last one to its field, and leaves the others alone.
LEMMA LastAppend ==
    ASSUME TypeOK, NEW w \in Writes, out' = Append(out, w), db' = db,
           NEW key \in Keys, NEW v
    PROVE  /\ \A n \in 0 .. Len(out) : LastIn(key, n, v) => LastIn(key, n, v)'
           /\ w.key = key => Last(key, w.val)'
           /\ w.key # key /\ Last(key, v) => Last(key, v)'
           /\ Len(out') = Len(out) + 1 /\ Len(out) \in Nat
  <1>1. /\ Len(out') = Len(out) + 1 /\ Len(out) \in Nat
        /\ \A k \in 1 .. Len(out) : out'[k] = out[k]
        /\ out'[Len(out) + 1] = w
    <2>1. out \in Seq(Writes)
      BY DEF TypeOK
    <2> QED
      BY <2>1, Appended
  <1>2. \A n \in 0 .. Len(out) : LastIn(key, n, v) => LastIn(key, n, v)'
    <2> SUFFICES ASSUME NEW n \in 0 .. Len(out), LastIn(key, n, v) PROVE LastIn(key, n, v)'
      OBVIOUS
    <2>1. \A k \in 1 .. n : out'[k] = out[k]
      BY <1>1
    <2> QED
      BY <2>1 DEF LastIn
  <1>3. w.key = key => Last(key, w.val)'
    <2> SUFFICES ASSUME w.key = key PROVE LastIn(key, Len(out), w.val)'
      BY DEF Last
    <2>1. Len(out') \in 1 .. Len(out') /\ \A j \in 1 .. Len(out') : ~(j > Len(out'))
      BY <1>1
    <2>2. out'[Len(out')] = w
      BY <1>1
    <2> QED
      BY <2>1, <2>2 DEF LastIn
  <1>4. w.key # key /\ Last(key, v) => Last(key, v)'
    <2> SUFFICES ASSUME w.key # key, Last(key, v) PROVE LastIn(key, Len(out), v)'
      BY DEF Last
    <2>1. \A j \in 1 .. Len(out') : j \in 1 .. Len(out) \/ out'[j].key # key
      BY <1>1
    <2>2. 1 .. Len(out) \subseteq 1 .. Len(out')
      BY <1>1
    <2>3. LastIn(key, Len(out), v)
      BY DEF Last
    <2>4. CASE db[key] = v /\ \A k \in 1 .. Len(out) : out[k].key # key
      BY <1>1, <2>1, <2>4 DEF LastIn
    <2>5. ASSUME NEW k \in 1 .. Len(out), out[k].key = key, out[k].val = v,
                 \A j \in 1 .. Len(out) : j > k => out[j].key # key
          PROVE  LastIn(key, Len(out), v)'
      <3>1. k \in 1 .. Len(out') /\ out'[k].key = key /\ out'[k].val = v
        BY <1>1, <2>2, <2>5
      <3>2. \A j \in 1 .. Len(out') : j > k => out'[j].key # key
        BY <1>1, <2>1, <2>5
      <3> QED
        BY <3>1, <3>2 DEF LastIn
    <2> QED
      BY <2>3, <2>4, <2>5 DEF LastIn
  <1> QED
    BY <1>1, <1>2, <1>3, <1>4

\* What arrives was the last write, or is followed by it.
LEMMA LastDeliver ==
    ASSUME TypeOK, Deliver, NEW key \in Keys, NEW v
    PROVE  /\ Len(out') = Len(out) - 1 /\ Len(out) \in Nat \ {0}
           /\ \A n \in 0 .. Len(out') : LastIn(key, n + 1, v) => LastIn(key, n, v)'
           /\ Last(key, v) => Last(key, v)'
  <1>1. /\ Len(out) \in Nat \ {0} /\ Len(out') = Len(out) - 1
        /\ \A k \in 1 .. Len(out') : out'[k] = out[k + 1]
        /\ Head(out) = out[1]
    <2>1. out \in Seq(Writes) /\ out # <<>> /\ out' = Tail(out)
      BY DEF TypeOK, Deliver
    <2> QED
      BY <2>1, Arrived
  <1>2. db'[key] = IF out[1].key = key THEN out[1].val ELSE db[key]
    <2>1. db \in DBs /\ db' = [db EXCEPT ![out[1].key] = out[1].val]
      BY <1>1 DEF Deliver, TypeOK
    <2> QED
      BY <2>1 DEF DBs, Keys
  <1>3. ASSUME NEW n \in 0 .. Len(out'), LastIn(key, n + 1, v) PROVE LastIn(key, n, v)'
    <2>1. \A k \in 1 .. n : out'[k] = out[k + 1] /\ k + 1 \in 1 .. n + 1
      BY <1>1, <1>3
    <2>2. CASE \A k \in 1 .. n + 1 : out[k].key # key
      <3>1. db'[key] = v
        BY <1>1, <1>2, <1>3, <2>2 DEF LastIn
      <3> QED
        BY <2>1, <2>2, <3>1 DEF LastIn
    <2>3. ASSUME NEW k \in 1 .. n + 1, out[k].key = key, out[k].val = v,
                 \A j \in 1 .. n + 1 : j > k => out[j].key # key
          PROVE  LastIn(key, n, v)'
      <3>1. CASE k = 1
        <4>1. db'[key] = v
          BY <1>2, <2>3, <3>1
        <4>2. \A j \in 1 .. n : out'[j].key # key
          BY <2>1, <2>3, <3>1
        <4> QED
          BY <4>1, <4>2 DEF LastIn
      <3>2. CASE k # 1
        <4>1. k - 1 \in 1 .. n /\ out'[k - 1] = out[k]
          BY <2>1, <3>2
        <4>2. \A j \in 1 .. n : j > k - 1 => out'[j].key # key
          BY <2>1, <2>3
        <4> QED
          BY <2>3, <4>1, <4>2 DEF LastIn
      <3> QED
        BY <3>1, <3>2
    <2> QED
      BY <1>3, <2>2, <2>3 DEF LastIn
  <1>4. Last(key, v) => Last(key, v)'
    <2>1. Len(out') \in 0 .. Len(out') /\ Len(out') + 1 = Len(out)
      BY <1>1
    <2> QED
      BY <1>3, <2>1 DEF Last
  <1> QED
    BY <1>1, <1>3, <1>4

\* Nothing changes for a field while no write is made and none arrives.
LEMMA LastSame ==
    ASSUME UNCHANGED <<out, db>>, NEW key, NEW n, NEW v
    PROVE  /\ LastIn(key, n, v) => LastIn(key, n, v)'
           /\ Last(key, v) => Last(key, v)'
  BY DEF LastIn, Last

\* The database shows the last value when no write is on its way.
LEMMA LastArrived ==
    ASSUME TypeOK, out = <<>>, NEW key \in Keys, NEW v, Last(key, v)
    PROVE  db[key] = v
  <1>1. Len(out) = 0
    OBVIOUS
  <1> QED
    BY <1>1 DEF Last, LastIn

-----------------------------------------------------------------------------
\* What a step does to the writes: it makes one, or one arrives, or a crash
\* loses some, or nothing changes for them.
Writing(w) == w \in Writes /\ out' = Append(out, w) /\ UNCHANGED <<db, crashes>>

\* Every step is of one of these kinds, which is known with what it writes.
LEMMA StepKinds ==
    ASSUME TypeOK, Serving, [Next]_vars
    PROVE  \/ Start /\ Writing(Write("doorstatus", StatusOf(read, 1)))
           \/ \E c \in Conns :
                 AlreadyThere(c) /\ Writing(Write("doormsg", Already(conn[c].cmd)))
           \/ \E c \in Conns :
                 Engage(c) /\ Writing(Write("doorstatus", Progress(conn[c].cmd)))
           \/ /\ pc \in Working /\ pc' = "settle" /\ UNCHANGED <<read, turns>>
              /\ Writing(Write("doormsg", IF StatusOf(read, 1) = Goal THEN Success(Goal)
                                          ELSE Failure(Goal, StatusOf(read, 1))))
           \/ Settle /\ Writing(Write("doorstatus", StatusOf(read, 1)))
           \/ Reply /\ Writing(Write("doorneedtobe", seen))
           \/ Deliver
           \/ Crash
           \/ /\ pc' \in Working \/ pc' = pc
              /\ seen' = seen /\ (read' = read \/ pc \in Working \/ turns' > 0)
              /\ turns' = turns \/ turns' = turns + 1
              /\ UNCHANGED <<out, db, crashes>>
  <1>1. ASSUME NEW c \in Conns, Request(c) \/ Hangup(c) \/ Refuse(c)
        PROVE  UNCHANGED <<pc, seen, read, turns, out, db, crashes>>
    BY <1>1 DEF Request, Hangup, Refuse, process, bounds
  <1>2. ASSUME NEW c \in Conns, AlreadyThere(c)
        PROVE  Writing(Write("doormsg", Already(conn[c].cmd)))
    <2>1. Write("doormsg", Already(conn[c].cmd)) \in Writes
      BY <1>2, WritesTyped DEF AlreadyThere, Messages
    <2> QED
      BY <1>2, <2>1 DEF AlreadyThere, Writing, bounds
  <1>3. ASSUME NEW c \in Conns, Engage(c)
        PROVE  Writing(Write("doorstatus", Progress(conn[c].cmd)))
    BY <1>3, WritesTyped DEF Engage, Writing, bounds
  <1>4. ASSUME Start PROVE Writing(Write("doorstatus", StatusOf(read, 1)))
    BY <1>4, StatusType, WritesTyped DEF Start, Writing, bounds, TypeOK
  <1>5. ASSUME Settle PROVE Writing(Write("doorstatus", StatusOf(read, 1)))
    BY <1>5, StatusType, WritesTyped DEF Settle, Writing, bounds, TypeOK
  <1>6. ASSUME Reply PROVE Writing(Write("doorneedtobe", seen))
    BY <1>6, WritesTyped DEF Reply, Writing, bounds, TypeOK
  <1>7. ASSUME Finish, pc \in Working, UNCHANGED <<read, db, bounds>>
        PROVE  /\ pc' = "settle" /\ UNCHANGED <<read, turns>>
               /\ Writing(Write("doormsg", IF StatusOf(read, 1) = Goal THEN Success(Goal)
                                           ELSE Failure(Goal, StatusOf(read, 1))))
    <2>1. StatusOf(read, 1) \in Statuses /\ Goal \in Goals
      BY <1>7, StatusType DEF Serving, Goal, TypeOK, Working
    <2>2. Write("doormsg", IF StatusOf(read, 1) = Goal THEN Success(Goal)
                           ELSE Failure(Goal, StatusOf(read, 1))) \in Writes
      BY <2>1, MessagesTyped, WritesTyped
    <2> QED
      BY <1>7, <2>2 DEF Finish, Writing, bounds
  <1>8. ASSUME Raise
        PROVE  pc' \in Working /\ pc \in Working /\ UNCHANGED <<seen, turns, out, db, crashes>>
    BY <1>8 DEF Raise, Working, bounds
  <1>9. ASSUME Check1 \/ Check2
        PROVE  /\ pc \in Working
               /\ UNCHANGED <<read, seen, db, bounds>>
               /\ Finish \/ (pc' \in Working /\ UNCHANGED out)
    BY <1>9 DEF Check1, Check2, Working
  <1>10. ASSUME Turn
         PROVE  /\ UNCHANGED <<pc, seen, out, db, crashes>> /\ turns' = turns + 1 /\ turns' > 0
    <2>1. turns \in Nat /\ turns' = turns + 1
      BY <1>10, BoundsAssumption DEF Turn, TypeOK
    <2> QED
      BY <1>10, <2>1 DEF Turn, process
  <1>11. ASSUME UNCHANGED vars PROVE UNCHANGED <<pc, seen, read, turns, out, db, crashes>>
    BY <1>11 DEF vars, process, bounds
  <1> QED
    BY <1>1, <1>2, <1>3, <1>4, <1>5, <1>6, <1>7, <1>8, <1>9, <1>10, <1>11
    DEF Next, Handler, Running, bounds

\* One write more keeps NeedPublished: it is a status, or for another field.
LEMMA NeedAppend ==
    ASSUME TypeOK, NeedPublished, NEW w, Writing(w)
    PROVE  NeedPublished'
  <1>1. w \in Writes /\ out' = Append(out, w) /\ db' = db
    BY DEF Writing
  <1>2. Len(out') = Len(out) + 1 /\ Len(out) \in Nat
    BY <1>1, LastAppend DEF Keys
  <1>3. PICK s \in Statuses : LastIn("doorneedtobe", Len(out), s)
    BY <1>2 DEF NeedPublished
  <1>4. \E t \in Statuses : LastIn("doorneedtobe", Len(out), t)'
    <2>1. CASE w.key = "doorneedtobe"
      <3>1. w.val \in Statuses
        BY <1>1, <2>1 DEF Writes
      <3> QED
        BY <1>1, <2>1, <3>1, LastAppend DEF Keys, Last
    <2>2. CASE w.key # "doorneedtobe"
      BY <1>1, <1>3, <2>2, LastAppend DEF Keys, Last
    <2> QED
      BY <2>1, <2>2
  <1>5. ASSUME NEW n \in 0 .. Len(out) PROVE \E t \in Statuses : LastIn("doorneedtobe", n, t)'
    <2>1. PICK t \in Statuses : LastIn("doorneedtobe", n, t)
      BY DEF NeedPublished
    <2> QED
      BY <1>1, <2>1, LastAppend DEF Keys
  <1>6. ASSUME NEW n \in 0 .. Len(out') PROVE \E t \in Statuses : LastIn("doorneedtobe", n, t)'
    <2>1. n \in 0 .. Len(out) \/ n = Len(out')
      BY <1>2
    <2>2. CASE n = Len(out')
      BY <1>4, <2>2 DEF Last
    <2> QED
      BY <1>5, <2>1, <2>2
  <1> QED
    BY <1>6 DEF NeedPublished

\* A crash keeps a prefix of the writes.
LEMMA NeedCrash ==
    ASSUME TypeOK, NeedPublished, Crash
    PROVE  NeedPublished'
  <1>1. PICK k \in 0 .. Len(out) : out' = SubSeq(out, 1, k)
    BY DEF Crash
  <1>2. Len(out') = k /\ \A j \in 1 .. k : out'[j] = out[j]
    <2>1. out \in Seq(Writes)
      BY DEF TypeOK
    <2> QED
      BY <1>1, <2>1
  <1>3. ASSUME NEW n \in 0 .. k PROVE \E s \in Statuses : LastIn("doorneedtobe", n, s)'
    <2>0. n \in 0 .. Len(out) /\ db' = db
      <3>1. out \in Seq(Writes)
        BY DEF TypeOK
      <3> QED
        BY <1>1, <1>3, <3>1 DEF Crash
    <2>1. PICK s \in Statuses : LastIn("doorneedtobe", n, s)
      BY <2>0 DEF NeedPublished
    <2>2. \A j \in 1 .. n : out'[j] = out[j]
      BY <1>2
    <2> QED
      BY <2>0, <2>1, <2>2 DEF LastIn
  <1> QED
    BY <1>2, <1>3 DEF NeedPublished

\* So does a write that arrives.
LEMMA NeedDeliver ==
    ASSUME TypeOK, NeedPublished, Deliver
    PROVE  NeedPublished'
  <1>1. Len(out') = Len(out) - 1 /\ Len(out) \in Nat \ {0}
    BY LastDeliver DEF Keys
  <1>2. ASSUME NEW n \in 0 .. Len(out') PROVE \E s \in Statuses : LastIn("doorneedtobe", n, s)'
    <2>1. n + 1 \in 0 .. Len(out)
      BY <1>1
    <2>2. PICK s \in Statuses : LastIn("doorneedtobe", n + 1, s)
      BY <2>1 DEF NeedPublished
    <2> QED
      BY <2>2, LastDeliver DEF Keys
  <1> QED
    BY <1>2 DEF NeedPublished

\* What the last doorneedtobe is.
LEMMA NeedLast ==
    ASSUME TypeOK, NeedPublished
    PROVE  \E s \in Statuses : Last("doorneedtobe", s)
  <1>1. Len(out) \in 0 .. Len(out)
    <2>1. out \in Seq(Writes)
      BY DEF TypeOK
    <2> QED
      BY <2>1
  <1> QED
    BY <1>1 DEF NeedPublished, Last

\* Every step keeps what the last writes are.
LEMMA NextPublished ==
    ASSUME TypeOK, Serving, Published, [Next]_vars
    PROVE  Published'
  <1> USE DEF Published
  <1>t. /\ crashes \in Nat /\ turns \in Nat /\ seen \in Statuses /\ read \in Reads
        /\ StatusOf(read, 1) \in Statuses
    BY BoundsAssumption, StatusType DEF TypeOK
  <1>w. pc \in Working => pc \notin {"down", "idle", "need", "settle"}
    BY DEF Working
  <1>1. CASE Start /\ Writing(Write("doorstatus", StatusOf(read, 1)))
    <2> DEFINE w == Write("doorstatus", StatusOf(read, 1))
    <2>1. w \in Writes /\ out' = Append(out, w) /\ db' = db /\ crashes' = crashes
          /\ pc = "down" /\ pc' = "idle"
      BY <1>1 DEF Writing, Start
    <2>2. w.key = "doorstatus" /\ w.val = StatusOf(read, 1)
      BY DEF Write
    <2> HIDE DEF w
    <2>3. StatusPublished'
      BY <1>t, <2>1, <2>2, LastAppend DEF StatusPublished, Keys
    <2>4. BothPublished'
      BY <2>1, <2>2, LastAppend DEF BothPublished, Keys
    <2>5. StoryPublished'
      <3> SUFFICES ASSUME crashes = 0
                   PROVE  \E m \in Messages, s \in Statuses :
                              (Last("doormsg", m) /\ Last("doorneedtobe", s))' /\ Fits(m, s)
        BY <2>1 DEF StoryPublished, Fits
      <3>1. Last("doormsg", NoMsg)
        BY <2>1 DEF BothPublished
      <3>2. PICK s \in Statuses : Last("doorneedtobe", s)
        BY NeedLast
      <3>3. NoMsg \in Messages /\ Fits(NoMsg, s)
        BY DEF NoMsg, Messages, Fits, Already, Success, Failure
      <3>4. Last("doormsg", NoMsg)' /\ Last("doorneedtobe", s)'
        BY <2>1, <2>2, <3>1, <3>2, LastAppend DEF Keys
      <3> QED
        BY <3>3, <3>4
    <2>6. NeedPublished'
      BY <1>1, NeedAppend
    <2> QED
      BY <2>3, <2>4, <2>5, <2>6
  <1>2. ASSUME NEW c \in Conns, AlreadyThere(c), Writing(Write("doormsg", Already(conn[c].cmd)))
        PROVE  Published'
    <2> DEFINE w == Write("doormsg", Already(conn[c].cmd))
    <2>1. w \in Writes /\ out' = Append(out, w) /\ db' = db /\ pc' = "settle" /\ read' = read
      BY <1>2 DEF Writing, AlreadyThere
    <2>3. conn[c].cmd = StatusOf(read, 1) /\ conn[c].cmd \in Goals
      BY <1>2 DEF AlreadyThere
    <2>0. PICK m : m = Already(conn[c].cmd)
      OBVIOUS
    <2>2. w.key = "doormsg" /\ w.val = m
      BY <2>0 DEF Write
    <2> HIDE DEF w
    <2>4. m \in Messages /\ Fits(m, StatusOf(read, 1))
      BY <2>0, <2>3 DEF Messages, Fits, Already, Success, Failure
    <2>5. Last("doormsg", m)'
      BY <2>1, <2>2, LastAppend DEF Keys
    <2>6. StoryPublished'
      <3> SUFFICES \E k \in Messages : Last("doormsg", k)' /\ Fits(k, StatusOf(read, 1))
        BY <2>1 DEF StoryPublished, Fits, StatusOf
      <3> QED
        BY <2>4, <2>5
    <2>7. NeedPublished'
      BY <1>2, NeedAppend
    <2> QED
      BY <2>1, <2>6, <2>7 DEF StatusPublished, BothPublished
  <1>3. ASSUME NEW c \in Conns, Engage(c), Writing(Write("doorstatus", Progress(conn[c].cmd)))
        PROVE  Published'
    <2>1. pc' = "raise"
      BY <1>3 DEF Engage
    <2>2. NeedPublished'
      BY <1>3, NeedAppend
    <2> QED
      BY <2>1, <2>2 DEF StatusPublished, BothPublished, StoryPublished
  <1>4. ASSUME pc \in Working, pc' = "settle", UNCHANGED <<read, turns>>,
               Writing(Write("doormsg", IF StatusOf(read, 1) = Goal THEN Success(Goal)
                                        ELSE Failure(Goal, StatusOf(read, 1))))
        PROVE  Published'
    <2>0. PICK m : m = IF StatusOf(read, 1) = Goal THEN Success(Goal) ELSE Failure(Goal, StatusOf(read, 1))
      OBVIOUS
    <2> DEFINE w == Write("doormsg", IF StatusOf(read, 1) = Goal THEN Success(Goal)
                                     ELSE Failure(Goal, StatusOf(read, 1)))
    <2>1. w \in Writes /\ out' = Append(out, w) /\ db' = db
      BY <1>4 DEF Writing
    <2>2. w.key = "doormsg" /\ w.val = m
      BY <2>0 DEF Write
    <2>3. Goal \in Goals
      BY <1>4 DEF Serving, Goal, Working
    <2>4. m \in Messages
      BY <1>t, <2>0, <2>3, MessagesTyped
    <2>5. Fits(m, StatusOf(read, 1))
      BY <1>t, <2>0, <2>3 DEF Fits, Already, Success, Failure
    <2> HIDE DEF w
    <2>6. Last("doormsg", m)'
      BY <2>1, <2>2, LastAppend DEF Keys
    <2>7. StoryPublished'
      <3> SUFFICES \E k \in Messages : Last("doormsg", k)' /\ Fits(k, StatusOf(read, 1))
        BY <1>4 DEF StoryPublished, Fits, StatusOf
      <3> QED
        BY <2>4, <2>5, <2>6
    <2>8. NeedPublished'
      BY <1>4, NeedAppend
    <2> QED
      BY <1>4, <2>7, <2>8 DEF StatusPublished, BothPublished
  <1>5. CASE Settle /\ Writing(Write("doorstatus", StatusOf(read, 1)))
    <2> DEFINE w == Write("doorstatus", StatusOf(read, 1))
    <2>1. /\ w \in Writes /\ out' = Append(out, w) /\ db' = db /\ crashes' = crashes /\ turns' = turns
          /\ pc = "settle" /\ pc' = "need" /\ seen' = StatusOf(read, 1) /\ read' = read
      BY <1>5 DEF Writing, Settle, bounds
    <2>2. w.key = "doorstatus" /\ w.val = StatusOf(read, 1)
      BY DEF Write
    <2> HIDE DEF w
    <2>3. Last("doorstatus", StatusOf(read, 1))'
      BY <2>1, <2>2, LastAppend DEF Keys
    <2>4. StatusPublished'
      <3>1. (Last("doorstatus", seen))'
        BY <2>1, <2>3 DEF Last, LastIn
      <3> QED
        BY <2>1, <3>1 DEF StatusPublished
    <2>5. StoryPublished'
      <3> SUFFICES ASSUME crashes = 0, turns = 0
                   PROVE  \E m \in Messages : Last("doormsg", m)' /\ Fits(m, seen')
        BY <2>1 DEF StoryPublished, Fits
      <3>1. PICK m \in Messages : Last("doormsg", m) /\ Fits(m, StatusOf(read, 1))
        BY <2>1 DEF StoryPublished
      <3>2. Last("doormsg", m)'
        BY <2>1, <2>2, <3>1, LastAppend DEF Keys
      <3> QED
        BY <2>1, <3>1, <3>2
    <2>6. NeedPublished'
      BY <1>5, NeedAppend
    <2> QED
      BY <2>1, <2>4, <2>5, <2>6 DEF BothPublished
  <1>6. CASE Reply /\ Writing(Write("doorneedtobe", seen))
    <2> DEFINE w == Write("doorneedtobe", seen)
    <2>1. /\ w \in Writes /\ out' = Append(out, w) /\ db' = db /\ crashes' = crashes /\ turns' = turns
          /\ pc = "need" /\ pc' = "idle"
      BY <1>6 DEF Writing, Reply, bounds
    <2>0. PICK v \in Statuses : v = seen
      BY <1>t
    <2>2. w.key = "doorneedtobe" /\ w.val = v
      BY <2>0 DEF Write
    <2> HIDE DEF w
    <2>3. Last("doorneedtobe", v)'
      BY <2>1, <2>2, LastAppend DEF Keys
    <2>4. Last("doorstatus", v)'
      BY <2>0, <2>1, <2>2, LastAppend DEF Keys, StatusPublished
    <2>5. StatusPublished'
      BY <2>1, <2>4 DEF StatusPublished
    <2>6. BothPublished'
      BY <2>1, <2>3, <2>4 DEF BothPublished
    <2>7. StoryPublished'
      <3> SUFFICES ASSUME crashes = 0, turns = 0
                   PROVE  \E m \in Messages, s \in Statuses :
                              (Last("doormsg", m) /\ Last("doorneedtobe", s))' /\ Fits(m, s)
        BY <2>1 DEF StoryPublished, Fits
      <3>1. PICK m \in Messages : Last("doormsg", m) /\ Fits(m, v)
        BY <2>0, <2>1 DEF StoryPublished
      <3>2. Last("doormsg", m)'
        BY <2>1, <2>2, <3>1, LastAppend DEF Keys
      <3> QED
        BY <2>3, <3>1, <3>2
    <2>8. NeedPublished'
      BY <1>6, NeedAppend
    <2> QED
      BY <2>5, <2>6, <2>7, <2>8
  <1>7. CASE Deliver
    <2>1. UNCHANGED <<pc, seen, read, crashes, turns>>
      BY <1>7 DEF Deliver, process, bounds
    <2>2. \A v : \A key \in Keys : Last(key, v) => Last(key, v)'
      BY <1>7, LastDeliver
    <2>3. NeedPublished'
      BY <1>7, NeedDeliver
    <2>4. StatusPublished'
      BY <2>1, <2>2 DEF StatusPublished, Keys
    <2>5. BothPublished'
      BY <2>1, <2>2 DEF BothPublished, Keys
    <2>6. StoryPublished'
      BY <2>1, <2>2 DEF StoryPublished, Keys, Fits, StatusOf
    <2> QED
      BY <2>3, <2>4, <2>5, <2>6
  <1>8. CASE Crash
    <2>1. crashes' # 0 /\ pc' = "down"
      BY <1>t, <1>8 DEF Crash
    <2>2. NeedPublished'
      BY <1>8, NeedCrash
    <2> QED
      BY <2>1, <2>2 DEF StatusPublished, BothPublished, StoryPublished
  <1>9. CASE /\ pc' \in Working \/ pc' = pc
             /\ seen' = seen /\ (read' = read \/ pc \in Working \/ turns' > 0)
             /\ turns' = turns \/ turns' = turns + 1
             /\ UNCHANGED <<out, db, crashes>>
    <2>1. \A v : \A key \in Keys : Last(key, v) => Last(key, v)'
      BY <1>9, LastSame
    <2>2. NeedPublished'
      BY <1>9 DEF NeedPublished, LastIn
    <2>3. pc' = pc \/ pc' \notin {"down", "idle", "need", "settle"}
      BY <1>9 DEF Working
    <2>4. StatusPublished'
      BY <1>9, <2>1, <2>3 DEF StatusPublished, Keys
    <2>5. BothPublished'
      BY <1>9, <2>1, <2>3 DEF BothPublished, Keys
    <2>6. StoryPublished'
      <3> SUFFICES ASSUME turns' = 0, pc' = pc, pc' \in {"idle", "need", "settle"} PROVE StoryPublished'
        BY <2>3 DEF StoryPublished
      <3>1. turns = 0 /\ read' = read
        BY <1>t, <1>w, <1>9
      <3> QED
        BY <1>9, <2>1, <3>1 DEF StoryPublished, Keys, Fits, StatusOf
    <2> QED
      BY <2>2, <2>4, <2>5, <2>6
  <1> QED
    BY <1>1, <1>2, <1>3, <1>4, <1>5, <1>6, <1>7, <1>8, <1>9, StepKinds

\* What an earlier run has left is published.
LEMMA InitPublished == Init => Published
  <1> SUFFICES ASSUME Init PROVE Published
    OBVIOUS
  <1>1. PICK s \in Statuses : db = [doorstatus |-> s, doorneedtobe |-> s, doormsg |-> NoMsg]
    BY DEF Init
  <1>2. out = <<>> /\ Len(out) = 0 /\ pc = "down"
    BY DEF Init
  <1>3. \A key \in Keys : Last(key, db[key]) /\ LastIn(key, 0, db[key])
    BY <1>2 DEF Last, LastIn
  <1>4. db["doormsg"] = NoMsg /\ db["doorneedtobe"] = s
    BY <1>1
  <1>5. NeedPublished
    BY <1>2, <1>3, <1>4 DEF NeedPublished, Keys
  <1>6. BothPublished
    BY <1>2, <1>3, <1>4 DEF BothPublished, Keys
  <1> QED
    BY <1>2, <1>5, <1>6 DEF Published, StatusPublished, StoryPublished

\* At every place of the handler, the last writes are what they should be.
THEOREM AlwaysPublished == Spec => []Published
  BY InitPublished, NextPublished, TypeCorrect, PTL DEF Spec

\* No operation stays published as in progress when the service idles.
THEOREM ProgressIsTakenBack == Spec => []NoStuckProgress
  <1>1. TypeOK /\ Published => NoStuckProgress
    <2> SUFFICES ASSUME TypeOK, Published, pc = "idle", out = <<>> PROVE db.doorstatus \in Statuses
      BY DEF NoStuckProgress
    <2>1. PICK s \in Statuses : Last("doorstatus", s)
      BY DEF Published, StatusPublished
    <2>2. db["doorstatus"] = s
      BY <2>1, LastArrived DEF Keys
    <2> QED
      BY <2>2
  <1> QED
    BY <1>1, AlwaysPublished, TypeCorrect, PTL

\* After a command, doorstatus and doorneedtobe agree in the database.
THEOREM FieldsComeToAgree == Spec => []FieldsAgree
  <1>1. TypeOK /\ Published => FieldsAgree
    <2> SUFFICES ASSUME TypeOK, Published, pc = "idle", out = <<>>, crashes = 0, db.doormsg # NoMsg
                 PROVE  db.doorstatus = db.doorneedtobe
      BY DEF FieldsAgree
    <2>1. ~Last("doormsg", NoMsg)
      BY LastArrived DEF Keys
    <2>2. PICK s \in Statuses : Last("doorstatus", s) /\ Last("doorneedtobe", s)
      BY <2>1 DEF Published, BothPublished
    <2>3. db["doorstatus"] = s /\ db["doorneedtobe"] = s
      BY <2>2, LastArrived DEF Keys
    <2> QED
      BY <2>3
  <1> QED
    BY <1>1, AlwaysPublished, TypeCorrect, PTL

\* The message of a command tells what the lock was found to be after it.
THEOREM MessageIsTrue == Spec => []MessageTrue
  <1>1. TypeOK /\ Published => MessageTrue
    <2> SUFFICES ASSUME TypeOK, Published, pc = "idle", out = <<>>, crashes = 0, turns = 0
                 PROVE  Fits(db.doormsg, db.doorneedtobe)
      BY DEF MessageTrue, Fits
    <2>1. PICK m \in Messages, s \in Statuses :
              Last("doormsg", m) /\ Last("doorneedtobe", s) /\ Fits(m, s)
      BY DEF Published, StoryPublished
    <2>2. db["doormsg"] = m /\ db["doorneedtobe"] = s
      BY <2>1, LastArrived DEF Keys
    <2> QED
      BY <2>1, <2>2
  <1> QED
    BY <1>1, AlwaysPublished, TypeCorrect, PTL

-----------------------------------------------------------------------------
(***************************************************************************)
(* The refinement.  LastNeed is the value that Last speaks of, so that     *)
(* only Reply and a crash change it; and only a request, an answer, a      *)
(* hangup and a crash change what is seen of the connections.              *)
(***************************************************************************)

\* What the abstract service takes as the needed state is the last one written.
NeedShown == \A v : Last("doorneedtobe", v) => LastNeed = v

\* It does so in every state, and so in every next state.
LEMMA NeedIsLast == TypeOK => NeedShown
  <1> SUFFICES ASSUME TypeOK, NEW v, Last("doorneedtobe", v) PROVE LastNeed = v
    BY DEF NeedShown
  <1> DEFINE written == {k \in 1 .. Len(out) : out[k].key = "doorneedtobe"}
  <1>n. Len(out) \in Nat
    BY DEF TypeOK
  <1>1. CASE \A k \in 1 .. Len(out) : out[k].key # "doorneedtobe"
    <2>1. written = {} /\ db["doorneedtobe"] = v
      BY <1>1 DEF Last, LastIn
    <2> QED
      BY <2>1 DEF LastNeed
  <1>2. ASSUME NEW k \in 1 .. Len(out), out[k].key = "doorneedtobe", out[k].val = v,
               \A j \in 1 .. Len(out) : j > k => out[j].key # "doorneedtobe"
        PROVE  LastNeed = v
    <2>1. k \in written /\ \A j \in written : j <= k
      BY <1>2
    <2>2. ASSUME NEW m \in written, \A j \in written : j <= m PROVE m = k
      <3>1. m <= k /\ k <= m /\ m \in 1 .. Len(out)
        BY <2>1, <2>2
      <3> QED
        BY <3>1
    <2>3. (CHOOSE m \in written : \A j \in written : j <= m) = k
      BY <2>1, <2>2
    <2> QED
      BY <1>2, <2>1, <2>3 DEF LastNeed
  <1> QED
    BY <1>1, <1>2 DEF Last, LastIn

\* The abstract state of the connections.
LEMMA SeenConn ==
    ASSUME conn \in [Conns -> ConnStates], conn' \in [Conns -> ConnStates], NEW d \in Conns,
           \A c \in Conns \ {d} : conn'[c] = conn[c]
    PROVE  /\ OutsideConn[d] = [st |-> IF conn[d].st = "served" THEN "sent" ELSE conn[d].st,
                                cmd |-> conn[d].cmd, reply |-> conn[d].reply]
           /\ \A r : OutsideConn'[d] = r => OutsideConn' = [OutsideConn EXCEPT ![d] = r]
  BY DEF OutsideConn

\* The same of the next state.
LEMMA NeedIsLastNext == TypeOK' => NeedShown'
  BY NeedIsLast, PTL

\* The initial states are initial states of the abstract service.
LEMMA InitRefines == Init => Service!Init
  <1> SUFFICES ASSUME Init PROVE Service!Init
    OBVIOUS
  <1>1. OutsideConn = [c \in Conns |-> Service!Free]
    BY DEF Init, OutsideConn, Free, Conn, NoReply, Service!Free, Service!NoReply
  <1>2. LastNeed \in Statuses
    <2>1. PICK s \in Statuses : db = [doorstatus |-> s, doorneedtobe |-> s, doormsg |-> NoMsg]
      BY DEF Init
    <2>2. LastNeed = db.doorneedtobe
      <3>1. out = <<>> /\ Len(out) = 0
        BY DEF Init
      <3> QED
        BY <3>1 DEF LastNeed
    <2> QED
      BY <2>1, <2>2
  <1> QED
    BY <1>1, <1>2 DEF Service!Init

\* What is seen of doorneedtobe does not change without a write to it.
LEMMA NeedKept ==
    ASSUME TypeOK, TypeOK', NeedPublished,
           \/ UNCHANGED <<out, db>>
           \/ Deliver
           \/ \E w : Writing(w) /\ w.key # "doorneedtobe"
    PROVE  LastNeed' = LastNeed
  <1>1. PICK s \in Statuses : Last("doorneedtobe", s)
    BY NeedLast
  <1>2. Last("doorneedtobe", s)'
    <2>1. CASE UNCHANGED <<out, db>>
      BY <1>1, <2>1, LastSame
    <2>2. CASE Deliver
      BY <1>1, <2>2, LastDeliver DEF Keys
    <2>3. ASSUME NEW w, Writing(w), w.key # "doorneedtobe" PROVE Last("doorneedtobe", s)'
      BY <1>1, <2>3, LastAppend DEF Keys, Writing
    <2> QED
      BY <2>1, <2>2, <2>3
  <1>3. LastNeed = s
    BY <1>1, NeedIsLast DEF NeedShown
  <1>4. LastNeed' = s
    BY <1>2, NeedIsLastNext DEF NeedShown
  <1> QED
    BY <1>3, <1>4

\* Every step is a step of the abstract service or changes nothing there.
LEMMA StepRefines ==
    ASSUME TypeOK, TypeOK', Serving, Published, NeedPublished', [Next]_vars
    PROVE  [Service!Next]_<<OutsideConn, LastNeed>>
  <1>t. /\ conn \in [Conns -> ConnStates] /\ conn' \in [Conns -> ConnStates] /\ NeedPublished
        /\ seen \in Statuses /\ TypeOK
    BY DEF TypeOK, Published
  <1>1. ASSUME NEW c \in Conns, Request(c) PROVE Service!Ask(c)
    <2>1. LastNeed' = LastNeed
      BY <1>1, <1>t, NeedKept DEF Request
    <2>2. PICK cmd \in Commands : conn' = [conn EXCEPT ![c] = Sent(cmd)]
      BY <1>1 DEF Request
    <2>3. conn[c] = Free /\ conn'[c] = Sent(cmd) /\ \A d \in Conns \ {c} : conn'[d] = conn[d]
      BY <1>1, <1>t, <2>2 DEF Request
    <2>4. OutsideConn[c] = Service!Free
      BY <1>t, <2>3, SeenConn DEF Free, Conn, NoReply, Service!Free, Service!NoReply
    <2>5. OutsideConn'[c] = [st |-> "sent", cmd |-> cmd, reply |-> Service!NoReply]
      BY <2>3 DEF OutsideConn, Sent, Conn, NoReply, Service!NoReply
    <2>6. cmd \in Service!Commands
      BY DEF Commands, Goals, Service!Commands
    <2>7. OutsideConn' = [OutsideConn EXCEPT ![c] = [st |-> "sent", cmd |-> cmd, reply |-> Service!NoReply]]
      BY <1>t, <2>3, <2>5, SeenConn
    <2> QED
      BY <2>1, <2>4, <2>6, <2>7 DEF Service!Ask
  <1>2. ASSUME NEW c \in Conns, Hangup(c) PROVE Service!Leave(c)
    <2>1. LastNeed' = LastNeed
      BY <1>2, <1>t, NeedKept DEF Hangup
    <2>2. conn[c].st = "replied" /\ conn'[c] = Free /\ \A d \in Conns \ {c} : conn'[d] = conn[d]
      BY <1>2, <1>t DEF Hangup
    <2>3. OutsideConn[c].st = "replied"
      BY <2>2 DEF OutsideConn
    <2>4. OutsideConn'[c] = Service!Free
      BY <2>2 DEF OutsideConn, Free, Conn, NoReply, Service!Free, Service!NoReply
    <2>5. OutsideConn' = [OutsideConn EXCEPT ![c] = Service!Free]
      BY <1>t, <2>2, <2>4, SeenConn
    <2> QED
      BY <2>1, <2>3, <2>5 DEF Service!Leave
  <1>3. ASSUME NEW c \in Conns, Refuse(c) PROVE Service!Refuse(c)
    <2>1. LastNeed' = LastNeed
      BY <1>3, <1>t, NeedKept DEF Refuse
    <2>2. PICK r \in {AlreadyWorking, BadCommand} : conn' = [conn EXCEPT ![c] = Answered(@, r)]
      BY <1>3 DEF Refuse
    <2>3. /\ conn[c].st = "sent" /\ conn'[c] = [conn[c] EXCEPT !.st = "replied", !.reply = r]
          /\ \A d \in Conns \ {c} : conn'[d] = conn[d]
      BY <1>3, <1>t, <2>2 DEF Refuse, Answered
    <2>4. OutsideConn[c] = [st |-> "sent", cmd |-> conn[c].cmd, reply |-> conn[c].reply]
      BY <2>3 DEF OutsideConn
    <2>5. OutsideConn'[c] = [st |-> "replied", cmd |-> conn[c].cmd, reply |-> r]
      BY <1>t, <2>3 DEF OutsideConn, ConnStates
    <2>6. OutsideConn' = [OutsideConn EXCEPT ![c].st = "replied", ![c].reply = r]
      <3>1. OutsideConn' = [OutsideConn EXCEPT ![c] = [st |-> "replied", cmd |-> conn[c].cmd, reply |-> r]]
        BY <1>t, <2>3, <2>5, SeenConn
      <3> QED
        BY <2>4, <3>1 DEF OutsideConn
    <2>7. r \in Service!Refused
      BY DEF Service!Refused, AlreadyWorking, BadCommand
    <2>8. OutsideConn[c].st = "sent"
      BY <2>4
    <2> QED
      BY <2>1, <2>6, <2>7, <2>8 DEF Service!Refuse
  <1>4. ASSUME NEW c \in Conns, AlreadyThere(c) \/ Engage(c) PROVE OutsideConn' = OutsideConn
    <2>1. /\ conn[c].st = "sent" /\ conn'[c] = [conn[c] EXCEPT !.st = "served"]
          /\ \A d \in Conns \ {c} : conn'[d] = conn[d]
      BY <1>4, <1>t DEF AlreadyThere, Engage, Served
    <2>2. conn'[c].st = "served" /\ conn'[c].cmd = conn[c].cmd /\ conn'[c].reply = conn[c].reply
      BY <1>t, <2>1 DEF ConnStates
    <2> QED
      BY <2>1, <2>2 DEF OutsideConn
  <1>5. ASSUME NEW c \in Conns, AlreadyThere(c) \/ Engage(c) PROVE LastNeed' = LastNeed
    <2>1. \E w : Writing(w) /\ w.key # "doorneedtobe"
      <3>1. PICK k, v : k # "doorneedtobe" /\ Writing(Write(k, v))
        BY <1>5, WritesTyped DEF AlreadyThere, Engage, Writing, bounds, Messages
      <3> QED
        BY <3>1 DEF Write
    <2> QED
      BY <1>t, <2>1, NeedKept
  <1>6. ASSUME Reply PROVE \E c \in Conns : Service!Serve(c)
    <2>1. cur \in Conns /\ conn[cur].st = "served" /\ conn[cur].cmd \in Goals
      BY <1>6 DEF Reply, Serving
    <2>2. /\ conn'[cur] = [conn[cur] EXCEPT !.st = "replied", !.reply = Door(seen)]
          /\ \A d \in Conns \ {cur} : conn'[d] = conn[d]
      BY <1>6, <1>t, <2>1 DEF Reply, Answered
    <2>3. PICK c \in Conns : c = cur
      BY <2>1
    <2>4. OutsideConn[c] = [st |-> "sent", cmd |-> conn[c].cmd, reply |-> conn[c].reply]
      BY <2>1, <2>3 DEF OutsideConn
    <2>5. OutsideConn'[c] = [st |-> "replied", cmd |-> conn[c].cmd, reply |-> <<"Door", seen>>]
      <3>1. conn[c] \in ConnStates /\ c = cur /\ c \in Conns
        BY <1>t, <2>3
      <3>2. conn'[c].st = "replied" /\ conn'[c].cmd = conn[c].cmd /\ conn'[c].reply = <<"Door", seen>>
        BY <2>2, <3>1 DEF ConnStates, Door
      <3> QED
        BY <3>1, <3>2 DEF OutsideConn
    <2>6. OutsideConn' = [OutsideConn EXCEPT ![c].st = "replied", ![c].reply = <<"Door", seen>>]
      <3>1. OutsideConn' = [OutsideConn EXCEPT ![c] =
                               [st |-> "replied", cmd |-> conn[c].cmd, reply |-> <<"Door", seen>>]]
        BY <1>t, <2>2, <2>3, <2>5, SeenConn
      <3> QED
        BY <2>4, <3>1 DEF OutsideConn
    <2>7. LastNeed' = seen
      <3>1. PICK v : v = seen
        OBVIOUS
      <3>2. PICK w \in Writes : w = Write("doorneedtobe", seen)
        BY <1>t, WritesTyped
      <3>3. out' = Append(out, w) /\ db' = db /\ w.key = "doorneedtobe" /\ w.val = v
        BY <1>6, <3>1, <3>2 DEF Reply, Write
      <3>4. Last("doorneedtobe", v)'
        BY <1>t, <3>3, LastAppend DEF Keys
      <3> QED
        BY <3>1, <3>4, NeedIsLastNext DEF NeedShown
    <2>8. conn[c].cmd # "Bad"
      BY <2>1, <2>3 DEF Goals
    <2>9. OutsideConn[c].st = "sent" /\ OutsideConn[c].cmd # "Bad"
      BY <2>4, <2>8
    <2> QED
      BY <1>t, <2>6, <2>7, <2>9 DEF Service!Serve
  <1>7. ASSUME Crash PROVE Service!Die
    <2>1. OutsideConn' = [c \in Conns |-> Service!Free]
      BY <1>7 DEF Crash, OutsideConn, Free, Conn, NoReply, Service!Free, Service!NoReply
    <2>2. LastNeed' \in Statuses
      <3>1. Len(out') \in 0 .. Len(out')
        <4>1. out' \in Seq(Writes)
          BY DEF TypeOK
        <4> QED
          BY <4>1
      <3>2. PICK s \in Statuses : Last("doorneedtobe", s)'
        BY <3>1 DEF NeedPublished, Last
      <3> QED
        BY <3>2, NeedIsLastNext DEF NeedShown
    <2> QED
      BY <2>1, <2>2 DEF Service!Die
  <1>8. ASSUME Start \/ Settle \/ Check1 \/ Check2 PROVE UNCHANGED <<OutsideConn, LastNeed>>
    <2>1. conn' = conn
      BY <1>8 DEF Start, Settle, Check1, Check2
    <2>2. UNCHANGED <<out, db>> \/ \E w : Writing(w) /\ w.key # "doorneedtobe"
      <3>1. CASE UNCHANGED <<out, db>>
        BY <3>1
      <3>2. CASE ~UNCHANGED <<out, db>>
        <4>1. pc' # pc /\ ~Deliver /\ ~Reply /\ ~Crash
          BY <1>8, <3>2
          DEF Start, Settle, Check1, Check2, Finish, Deliver, Reply, Crash, process
        <4>2. PICK k, v : k # "doorneedtobe" /\ Writing(Write(k, v))
          BY <3>2, <4>1, StepKinds
        <4> QED
          BY <4>2 DEF Write
      <3> QED
        BY <3>1, <3>2
    <2>3. LastNeed' = LastNeed
      BY <1>t, <2>2, NeedKept
    <2> QED
      BY <2>1, <2>3 DEF OutsideConn
  <1>9. ASSUME Raise \/ Turn \/ UNCHANGED vars PROVE UNCHANGED <<OutsideConn, LastNeed>>
    <2>1. UNCHANGED <<conn, out, db>>
      BY <1>9 DEF Raise, Turn, vars
    <2>2. LastNeed' = LastNeed
      BY <1>t, <2>1, NeedKept
    <2> QED
      BY <2>1, <2>2 DEF OutsideConn
  <1>10. ASSUME Deliver PROVE UNCHANGED <<OutsideConn, LastNeed>>
    <2>1. conn' = conn
      BY <1>10 DEF Deliver
    <2>2. LastNeed' = LastNeed
      BY <1>t, <1>10, NeedKept
    <2> QED
      BY <2>1, <2>2 DEF OutsideConn
  <1> QED
    BY <1>1, <1>2, <1>3, <1>4, <1>5, <1>6, <1>7, <1>8, <1>9, <1>10
    DEF Next, Handler, Running, Service!Next

\* The motor service implements LockService, for any connections, whatever
\* crashes and however the lock is turned.
THEOREM Implements == Spec => ImplementsLockService
  <1>1. Published => NeedPublished
    BY DEF Published
  <1> QED
    BY <1>1, InitRefines, StepRefines, TypeCorrect, AlwaysPublished, PTL
    DEF Spec, Service!Spec, ImplementsLockService

=============================================================================
