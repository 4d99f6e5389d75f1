----------------------- MODULE CommandMailbox_proofs -----------------------
(***************************************************************************)
(* Proofs about the mailbox, for any number of people, commands, lost      *)
(* connections, deaths of online.js and heartbeats.                        *)
(*                                                                         *)
(* Everything rests on three facts.  The acknowledgements on their way are *)
(* those of the first outstanding writes, in their order (AckedBy).  What  *)
(* online.js last heard in todo is hidden by its own clear (HeardHidden),  *)
(* so that only a message that brings a command makes it run one.  And a   *)
(* command that was carried out is told again only before the              *)
(* acknowledgement of its clear (NotAgain).                                *)
(*                                                                         *)
(* For the emergency, what counts is the last write to a field that is     *)
(* still outstanding, and the last one the server has applied (Settles).   *)
(***************************************************************************)
EXTENDS CommandMailbox, TLAPS

\* The message m says that todo is t.
Bears(m, t) ==
    \/ m.kind = "snapshot" /\ m.todo = t
    \/ m.kind # "snapshot" /\ m.key = "todo" /\ m.val = t

ArrivedIn(f, t) == f[t] \notin {"none", "sent"}
HasArrived(t) == ArrivedIn(fate, t)

\* Increasing embeds 1 .. n in the positions of d.
Increasing(f, n) == \A i, j \in 1 .. n : i < j => f[i] < f[j]

\* The acknowledgements in d are those of the first n writes of p.
AckedBy(d, p, n) ==
    \E f \in [1 .. n -> 1 .. Len(d)] :
        /\ Increasing(f, n)
        /\ \A i \in 1 .. n : d[f[i]] = Ack(p[i])
        /\ \A k \in 1 .. Len(d) : d[k].kind = "ack" => \E i \in 1 .. n : f[i] = k

Acked == AckedBy(toDoor, puts, applied)

\* Every command on its way was given, and is on its way once.
InFlight ==
    /\ \A t \in Ids : fate[t] # "none" => t <= Len(issued)
    /\ \A u \in Users : \A j \in 1 .. Len(up[u]) :
         up[u][j].key = "todo" =>
           /\ fate[up[u][j].val] = "sent"
           /\ \A v \in Users : \A k \in 1 .. Len(up[v]) :
                up[v][k].key = "todo" /\ up[v][k].val = up[u][j].val => u = v /\ j = k

\* Whatever anybody heard of arrived before.
Heard ==
    /\ srv.todo # Null => HasArrived(srv.todo)
    /\ cache.todo # Null => HasArrived(cache.todo)
    /\ \A k \in 1 .. Len(toDoor) : \A t \in Ids : Bears(toDoor[k], t) => HasArrived(t)
    /\ \A t \in clean : HasArrived(t)
    /\ \A k \in 1 .. Len(done) : HasArrived(done[k])

\* A connection starts with a snapshot, and only a live script has one.
Linked ==
    /\ link = "down" => toDoor = <<>> /\ applied = 0
    /\ ~alive => link = "down"
    /\ \A k \in 2 .. Len(toDoor) : toDoor[k].kind # "snapshot"
    /\ link = "up" /\ ~cache.known => toDoor # <<>> /\ toDoor[1].kind = "snapshot"

\* The command online.js last heard of is hidden by a clear.
HeardHidden == cache.todo # Null => Clearing(puts)

Base == TypeOK /\ Acked /\ InFlight /\ Heard /\ Linked /\ HeardHidden

-----------------------------------------------------------------------------
(* Sequences. *)

\* What is first and what is left.
LEMMA HeadTail ==
    ASSUME NEW S, NEW s \in Seq(S), s # <<>>
    PROVE  /\ Len(s) \in Nat \ {0} /\ Head(s) = s[1] /\ s[1] \in S
           /\ Tail(s) \in Seq(S) /\ Len(Tail(s)) = Len(s) - 1
           /\ \A k \in 1 .. Len(s) - 1 : Tail(s)[k] = s[k + 1]
  OBVIOUS

\* What is appended comes last.
LEMMA AppendAt ==
    ASSUME NEW S, NEW s \in Seq(S), NEW x \in S
    PROVE  /\ Append(s, x) \in Seq(S) /\ Len(Append(s, x)) = Len(s) + 1 /\ Len(s) \in Nat
           /\ \A k \in 1 .. Len(s) : Append(s, x)[k] = s[k]
           /\ Append(s, x)[Len(s) + 1] = x
  OBVIOUS

\* What is concatenated follows.
LEMMA ConcatAt ==
    ASSUME NEW S, NEW s \in Seq(S), NEW w \in Seq(S)
    PROVE  /\ s \o w \in Seq(S) /\ Len(s \o w) = Len(s) + Len(w)
           /\ Len(s) \in Nat /\ Len(w) \in Nat
           /\ \A k \in 1 .. Len(s) : (s \o w)[k] = s[k]
           /\ \A k \in Len(s) + 1 .. Len(s) + Len(w) : (s \o w)[k] = w[k - Len(s)]
  OBVIOUS

\* A sequence of one.
LEMMA SingleAt ==
    ASSUME NEW S, NEW x \in S
    PROVE  <<x>> \in Seq(S) /\ Len(<<x>>) = 1 /\ <<x>>[1] = x
  OBVIOUS

\* A sequence holds members of its set.
LEMMA ElementOf ==
    ASSUME NEW S, NEW s \in Seq(S), NEW k \in 1 .. Len(s)
    PROVE  s[k] \in S
  OBVIOUS

\* One element, then others.
LEMMA FirstThen ==
    ASSUME NEW S, NEW O \in SUBSET S, NEW a \in S, NEW w \in Seq(O)
    PROVE  /\ <<a>> \o w \in Seq(S) /\ <<a>> \o w # <<>> /\ (<<a>> \o w)[1] = a
           /\ \A k \in 2 .. Len(<<a>> \o w) : (<<a>> \o w)[k] \in O
  <1>1. <<a>> \in Seq(S) /\ w \in Seq(S) /\ Len(<<a>>) = 1 /\ <<a>>[1] = a
    OBVIOUS
  <1>2. /\ <<a>> \o w \in Seq(S) /\ Len(<<a>> \o w) = 1 + Len(w) /\ Len(w) \in Nat
        /\ (<<a>> \o w)[1] = a
        /\ \A k \in 2 .. 1 + Len(w) : (<<a>> \o w)[k] = w[k - 1]
    BY <1>1, ConcatAt
  <1>3. \A k \in 1 .. Len(w) : w[k] \in O
    BY ElementOf
  <1> QED
    BY <1>2, <1>3

-----------------------------------------------------------------------------
(* Acknowledgements. *)

\* Nothing to acknowledge.
LEMMA AckedNone ==
    ASSUME NEW D, NEW d \in Seq(D), NEW p,
           \A k \in 1 .. Len(d) : d[k].kind # "ack"
    PROVE  AckedBy(d, p, 0)
  <1> DEFINE f == [i \in 1 .. 0 |-> 1]
  <1>1. f \in [1 .. 0 -> 1 .. Len(d)] /\ 1 .. 0 = {}
    OBVIOUS
  <1>2. Increasing(f, 0)
    BY <1>1 DEF Increasing
  <1> QED
    BY <1>1, <1>2 DEF AckedBy

\* Another message follows.
LEMMA AckedOther ==
    ASSUME NEW D, NEW d \in Seq(D), NEW m \in D, NEW p, NEW n \in Nat,
           AckedBy(d, p, n), m.kind # "ack"
    PROVE  AckedBy(Append(d, m), p, n)
  <1> DEFINE e == Append(d, m)
  <1>1. /\ Len(e) = Len(d) + 1 /\ Len(d) \in Nat /\ e[Len(d) + 1] = m
        /\ \A k \in 1 .. Len(d) : e[k] = d[k]
    BY AppendAt
  <1> HIDE DEF e
  <1>2. PICK f \in [1 .. n -> 1 .. Len(d)] :
          /\ Increasing(f, n)
          /\ \A i \in 1 .. n : d[f[i]] = Ack(p[i])
          /\ \A k \in 1 .. Len(d) : d[k].kind = "ack" => \E i \in 1 .. n : f[i] = k
    BY DEF AckedBy
  <1>3. f \in [1 .. n -> 1 .. Len(e)] /\ \A i \in 1 .. n : e[f[i]] = Ack(p[i])
    <2>1. 1 .. Len(d) \subseteq 1 .. Len(e)
      BY <1>1
    <2>2. ASSUME NEW i \in 1 .. n PROVE f[i] \in 1 .. Len(d) /\ e[f[i]] = Ack(p[i])
      <3>1. f[i] \in 1 .. Len(d)
        BY <1>2
      <3> QED
        BY <1>1, <1>2, <3>1
    <2> QED
      BY <1>2, <2>1, <2>2
  <1>4. ASSUME NEW k \in 1 .. Len(e), e[k].kind = "ack" PROVE \E i \in 1 .. n : f[i] = k
    <2>1. k \in 1 .. Len(d) \/ k = Len(d) + 1
      BY <1>1
    <2>2. k # Len(d) + 1
      BY <1>1, <1>4
    <2> QED
      BY <1>1, <1>2, <1>4, <2>1, <2>2
  <1>5. AckedBy(e, p, n)
    BY <1>2, <1>3, <1>4 DEF AckedBy
  <1> QED
    BY <1>5 DEF e

\* The next acknowledgement follows.
LEMMA AckedNext ==
    ASSUME NEW D, NEW d \in Seq(D), NEW p, NEW n \in Nat,
           AckedBy(d, p, n), Ack(p[n + 1]) \in D
    PROVE  AckedBy(Append(d, Ack(p[n + 1])), p, n + 1)
  <1> DEFINE e == Append(d, Ack(p[n + 1]))
  <1>1. /\ Len(e) = Len(d) + 1 /\ Len(d) \in Nat /\ e[Len(d) + 1] = Ack(p[n + 1])
        /\ \A k \in 1 .. Len(d) : e[k] = d[k]
    BY AppendAt
  <1> HIDE DEF e
  <1>2. PICK f \in [1 .. n -> 1 .. Len(d)] :
          /\ Increasing(f, n)
          /\ \A i \in 1 .. n : d[f[i]] = Ack(p[i])
          /\ \A k \in 1 .. Len(d) : d[k].kind = "ack" => \E i \in 1 .. n : f[i] = k
    BY DEF AckedBy
  <1> DEFINE g == [i \in 1 .. n + 1 |-> IF i = n + 1 THEN Len(d) + 1 ELSE f[i]]
  <1>3. /\ \A i \in 1 .. n : g[i] = f[i] /\ f[i] \in 1 .. Len(d)
        /\ g[n + 1] = Len(d) + 1
        /\ \A i \in 1 .. n + 1 : i \in 1 .. n \/ i = n + 1
    BY <1>2
  <1>4. g \in [1 .. n + 1 -> 1 .. Len(e)]
    BY <1>1, <1>2
  <1> HIDE DEF g
  <1>5. Increasing(g, n + 1)
    <2> SUFFICES ASSUME NEW i \in 1 .. n + 1, NEW j \in 1 .. n + 1, i < j
                 PROVE  g[i] < g[j]
      BY DEF Increasing
    <2>1. i \in 1 .. n /\ g[i] = f[i] /\ f[i] \in 1 .. Len(d)
      BY <1>3
    <2>2. CASE j = n + 1
      BY <2>1, <2>2, <1>3, <1>1
    <2>3. CASE j \in 1 .. n
      BY <2>1, <2>3, <1>2, <1>3 DEF Increasing
    <2> QED
      BY <2>2, <2>3, <1>3
  <1>6. \A i \in 1 .. n + 1 : e[g[i]] = Ack(p[i])
    BY <1>1, <1>2, <1>3
  <1>7. ASSUME NEW k \in 1 .. Len(e), e[k].kind = "ack"
        PROVE  \E i \in 1 .. n + 1 : g[i] = k
    <2>1. CASE k = Len(d) + 1
      BY <2>1, <1>3
    <2>2. CASE k \in 1 .. Len(d)
      <3>1. PICK i \in 1 .. n : f[i] = k
        BY <2>2, <1>1, <1>2, <1>7
      <3> QED
        BY <3>1, <1>3
    <2> QED
      BY <2>1, <2>2, <1>1
  <1>8. AckedBy(e, p, n + 1)
    BY <1>4, <1>5, <1>6, <1>7 DEF AckedBy
  <1> QED
    BY <1>8 DEF e

\* Another message is received.
LEMMA AckedReceived ==
    ASSUME NEW D, NEW d \in Seq(D), d # <<>>, NEW p, NEW n \in Nat,
           AckedBy(d, p, n), d[1].kind # "ack"
    PROVE  AckedBy(Tail(d), p, n)
  <1> DEFINE e == Tail(d)
  <1>1. /\ Len(e) = Len(d) - 1 /\ Len(d) \in Nat \ {0}
        /\ \A k \in 1 .. Len(d) - 1 : e[k] = d[k + 1]
    BY HeadTail
  <1> HIDE DEF e
  <1>2. PICK f \in [1 .. n -> 1 .. Len(d)] :
          /\ Increasing(f, n)
          /\ \A i \in 1 .. n : d[f[i]] = Ack(p[i])
          /\ \A k \in 1 .. Len(d) : d[k].kind = "ack" => \E i \in 1 .. n : f[i] = k
    BY DEF AckedBy
  <1>3. \A i \in 1 .. n : f[i] \in 2 .. Len(d)
    <2> TAKE i \in 1 .. n
    <2>1. d[f[i]] = Ack(p[i]) /\ f[i] \in 1 .. Len(d)
      BY <1>2
    <2>2. d[f[i]].kind = "ack"
      BY <2>1 DEF Ack
    <2>3. f[i] # 1
      BY <2>2
    <2> QED
      BY <2>1, <2>3, <1>1
  <1> DEFINE g == [i \in 1 .. n |-> f[i] - 1]
  <1>4. /\ g \in [1 .. n -> 1 .. Len(e)]
        /\ \A i \in 1 .. n : g[i] = f[i] - 1
    BY <1>1, <1>3
  <1> HIDE DEF g
  <1>5. Increasing(g, n)
    BY <1>2, <1>3, <1>4 DEF Increasing
  <1>6. \A i \in 1 .. n : e[g[i]] = Ack(p[i])
    <2> TAKE i \in 1 .. n
    <2>1. f[i] \in 2 .. Len(d) /\ g[i] = f[i] - 1 /\ d[f[i]] = Ack(p[i])
      BY <1>2, <1>3, <1>4
    <2>2. g[i] \in 1 .. Len(d) - 1 /\ g[i] + 1 = f[i]
      BY <2>1, <1>1
    <2> QED
      BY <2>1, <2>2, <1>1
  <1>7. ASSUME NEW k \in 1 .. Len(e), e[k].kind = "ack"
        PROVE  \E i \in 1 .. n : g[i] = k
    <2>1. d[k + 1].kind = "ack" /\ k + 1 \in 1 .. Len(d)
      BY <1>1, <1>7
    <2>2. PICK i \in 1 .. n : f[i] = k + 1
      BY <2>1, <1>2
    <2> QED
      BY <2>2, <1>4, <1>1
  <1>8. AckedBy(e, p, n)
    BY <1>4, <1>5, <1>6, <1>7 DEF AckedBy
  <1> QED
    BY <1>8 DEF e

\* An acknowledgement is received: it is that of the oldest write.
LEMMA AckedTaken ==
    ASSUME NEW D, NEW d \in Seq(D), d # <<>>, NEW P, NEW p \in Seq(P), NEW n \in 0 .. Len(p),
           AckedBy(d, p, n), d[1].kind = "ack"
    PROVE  /\ n > 0 /\ p # <<>> /\ d[1] = Ack(p[1])
           /\ AckedBy(Tail(d), Tail(p), n - 1)
  <1> DEFINE e == Tail(d)
             q == Tail(p)
  <1>1. /\ Len(e) = Len(d) - 1 /\ Len(d) \in Nat \ {0}
        /\ \A k \in 1 .. Len(d) - 1 : e[k] = d[k + 1]
    BY HeadTail
  <1>2. PICK f \in [1 .. n -> 1 .. Len(d)] :
          /\ Increasing(f, n)
          /\ \A i \in 1 .. n : d[f[i]] = Ack(p[i])
          /\ \A k \in 1 .. Len(d) : d[k].kind = "ack" => \E i \in 1 .. n : f[i] = k
    BY DEF AckedBy
  <1>n. n \in Nat /\ Len(p) \in Nat /\ n <= Len(p)
    OBVIOUS
  <1>3. PICK i1 \in 1 .. n : f[i1] = 1
    <2>1. 1 \in 1 .. Len(d)
      BY <1>1
    <2> QED
      BY <2>1, <1>2
  <1>4. n > 0 /\ 1 \in 1 .. n
    BY <1>3, <1>n
  <1>5. f[1] = 1
    <2>1. f[1] \in 1 .. Len(d)
      BY <1>2, <1>4
    <2>2. ~(1 < i1)
      BY <2>1, <1>2, <1>3, <1>4 DEF Increasing
    <2> QED
      BY <2>2, <1>3
  <1>6. p # <<>>
    BY <1>4
  <1>7. Len(q) = Len(p) - 1 /\ \A k \in 1 .. Len(p) - 1 : q[k] = p[k + 1]
    BY <1>6, HeadTail
  <1> HIDE DEF e, q
  <1>8. \A i \in 2 .. n : f[i] \in 2 .. Len(d)
    <2> TAKE i \in 2 .. n
    <2>1. i \in 1 .. n /\ 1 < i
      BY <1>n
    <2>2. f[i] \in 1 .. Len(d) /\ f[1] < f[i]
      BY <2>1, <1>2, <1>4 DEF Increasing
    <2> QED
      BY <2>2, <1>5
  <1> DEFINE g == [i \in 1 .. n - 1 |-> f[i + 1] - 1]
  <1>9. /\ \A i \in 1 .. n - 1 : i + 1 \in 2 .. n /\ i + 1 \in 1 .. n
        /\ g \in [1 .. n - 1 -> 1 .. Len(e)]
        /\ \A i \in 1 .. n - 1 : g[i] = f[i + 1] - 1
    BY <1>1, <1>8, <1>n
  <1> HIDE DEF g
  <1>10. Increasing(g, n - 1)
    <2> SUFFICES ASSUME NEW i \in 1 .. n - 1, NEW j \in 1 .. n - 1, i < j
                 PROVE  g[i] < g[j]
      BY DEF Increasing
    <2>1. f[i + 1] < f[j + 1]
      <3>1. \A a, b \in 1 .. n : a < b => f[a] < f[b]
        BY <1>2 DEF Increasing
      <3>2. i + 1 \in 1 .. n /\ j + 1 \in 1 .. n
        BY <1>9
      <3>3. i + 1 < j + 1
        BY <1>n
      <3> QED
        BY <3>1, <3>2, <3>3
    <2>2. f[i + 1] \in 2 .. Len(d) /\ f[j + 1] \in 2 .. Len(d)
      BY <1>8, <1>9
    <2>3. g[i] = f[i + 1] - 1 /\ g[j] = f[j + 1] - 1
      BY <1>9
    <2>4. f[i + 1] \in Int /\ f[j + 1] \in Int
      BY <1>1, <2>2
    <2> QED
      BY <2>1, <2>3, <2>4
  <1>11. \A i \in 1 .. n - 1 : e[g[i]] = Ack(q[i])
    <2> TAKE i \in 1 .. n - 1
    <2>1. f[i + 1] \in 2 .. Len(d) /\ g[i] = f[i + 1] - 1 /\ d[f[i + 1]] = Ack(p[i + 1])
      BY <1>2, <1>8, <1>9
    <2> DEFINE j == f[i + 1]
    <2>j. j \in 2 .. Len(d) /\ g[i] = j - 1
      BY <2>1
    <2>2. g[i] \in 1 .. Len(d) - 1 /\ g[i] + 1 = f[i + 1]
      <3> HIDE DEF j
      <3>1. j - 1 \in 1 .. Len(d) - 1 /\ (j - 1) + 1 = j
        BY <2>j, <1>1
      <3> QED
        BY <2>j, <3>1 DEF j
    <2>3. q[i] = p[i + 1]
      BY <1>7, <1>n
    <2> QED
      BY <2>1, <2>2, <2>3, <1>1
  <1>12. ASSUME NEW k \in 1 .. Len(e), e[k].kind = "ack"
         PROVE  \E i \in 1 .. n - 1 : g[i] = k
    <2>1. d[k + 1].kind = "ack" /\ k + 1 \in 1 .. Len(d)
      BY <1>1, <1>12
    <2>2. PICK i \in 1 .. n : f[i] = k + 1
      BY <2>1, <1>2
    <2>3. i # 1
      BY <2>2, <1>5, <1>1
    <2>4. i - 1 \in 1 .. n - 1 /\ (i - 1) + 1 = i
      BY <2>3, <1>n
    <2>5. g[i - 1] = f[i] - 1
      BY <2>4, <1>9
    <2>6. g[i - 1] = (k + 1) - 1 /\ k \in Nat
      BY <2>2, <2>5, <1>1
    <2>7. g[i - 1] = k
      BY <2>6
    <2> QED
      BY <2>4, <2>7
  <1>13. AckedBy(e, q, n - 1)
    BY <1>9, <1>10, <1>11, <1>12 DEF AckedBy
  <1>14. d[1] = Ack(p[1])
    BY <1>2, <1>4, <1>5
  <1> QED
    BY <1>4, <1>6, <1>13, <1>14 DEF e, q

\* Further writes change no acknowledgement.
LEMMA AckedMore ==
    ASSUME NEW d, NEW p, NEW q, NEW n \in Nat,
           AckedBy(d, p, n), \A i \in 1 .. n : q[i] = p[i]
    PROVE  AckedBy(d, q, n)
  BY DEF AckedBy

\* A clear that is acknowledged is outstanding.
LEMMA AckedClears ==
    ASSUME NEW d, NEW P, NEW p \in Seq(P), NEW n \in 0 .. Len(p), AckedBy(d, p, n),
           NEW k \in 1 .. Len(d), d[k].kind = "ack", d[k].key = "todo"
    PROVE  Clearing(p)
  <1>1. PICK f \in [1 .. n -> 1 .. Len(d)] :
          /\ \A i \in 1 .. n : d[f[i]] = Ack(p[i])
          /\ \A j \in 1 .. Len(d) : d[j].kind = "ack" => \E i \in 1 .. n : f[i] = j
    BY DEF AckedBy
  <1>2. PICK i \in 1 .. n : f[i] = k
    BY <1>1
  <1>3. d[k] = Ack(p[i]) /\ i \in 1 .. Len(p)
    BY <1>1, <1>2
  <1>4. p[i].key = "todo"
    BY <1>3 DEF Ack
  <1> QED
    BY <1>3, <1>4 DEF Clearing

-----------------------------------------------------------------------------
(* The listener. *)

\* The listener runs the command t: it clears todo once, and first.
Handles(t, p) ==
    /\ \E w \in Seq(Puts) :
         /\ puts' = p \o w /\ w # <<>> /\ w[1].key = "todo"
         /\ \A k \in 2 .. Len(w) : w[k].key # "todo"
    /\ calls' \in Seq(Calls)
    /\ done' = Append(done, t) /\ fate' = [fate EXCEPT ![t] = "done"]

\* The listener finds nothing to do.
Idles(p) == puts' = p /\ UNCHANGED <<calls, done, fate>>

\* The writes of a command.
LEMMA WritesTyped ==
    ASSUME PagesOK, NEW t \in Ids, t <= Len(issued), NEW name \in Users \cup {NoUser}
    PROVE  /\ WritesOf(t, name) \in Seq(Puts) /\ WritesOf(t, name) # <<>>
           /\ WritesOf(t, name)[1].key = "todo"
           /\ \A k \in 2 .. Len(WritesOf(t, name)) : WritesOf(t, name)[k].key # "todo"
  <1>1. t \in 1 .. Len(issued) /\ issued \in Seq([user : Users, todo : Todos])
    BY MailboxAssumption DEF PagesOK, Ids
  <1>2. issued[t].todo \in {"Lock", "Unlock", "AlarmOff", "Emergency"}
    <2>1. issued[t] \in [user : Users, todo : Todos]
      BY <1>1, ElementOf
    <2> QED
      BY <2>1, MailboxAssumption
  <1>3. /\ Put("todo", Null) \in Puts /\ Put("log", [id |-> t, name |-> name]) \in Puts
        /\ \A v \in {"On", "Off"} : Put("Emergency", v) \in Puts
        /\ \A v \in BOOLEAN : Put("popup", v) \in Puts
    BY DEF Put, Puts
  <1> DEFINE Others == {x \in Puts : x.key # "todo"}
             log == Put("log", [id |-> t, name |-> name])
  <1>4. log \in Others /\ \A v \in {"On", "Off"} : Put("Emergency", v) \in Others
    BY <1>3 DEF Put
  <1>5. \A v \in BOOLEAN : Put("popup", v) \in Others
    BY <1>3 DEF Put
  <1>6. Log(t, name) \in Seq(Others)
    BY <1>4 DEF Log
  <1>7. \A on \in BOOLEAN : Alert(on) \in Seq(Others)
    BY <1>4, <1>5 DEF Alert
  <1>8. PICK w \in Seq(Others) : WritesOf(t, name) = <<Put("todo", Null)>> \o w
    <2>1. CASE issued[t].todo \in {"Lock", "Unlock"}
      BY <2>1, <1>6 DEF WritesOf
    <2>2. CASE issued[t].todo = "AlarmOff"
      BY <2>2, <1>7 DEF WritesOf
    <2>3. CASE issued[t].todo = "Emergency"
      <3>1. Log(t, name) \o Alert(TRUE) \in Seq(Others)
        BY <1>6, <1>7, ConcatAt
      <3> QED
        BY <2>3, <3>1 DEF WritesOf
    <2> QED
      BY <2>1, <2>2, <2>3, <1>2
  <1>9. /\ WritesOf(t, name) \in Seq(Puts) /\ WritesOf(t, name) # <<>>
        /\ WritesOf(t, name)[1] = Put("todo", Null)
        /\ \A k \in 2 .. Len(WritesOf(t, name)) : WritesOf(t, name)[k] \in Others
    BY <1>3, <1>8, FirstThen
  <1>10. Put("todo", Null).key = "todo"
    BY DEF Put
  <1> QED
    BY <1>9, <1>10

\* The services called for a command.
LEMMA CallsTyped ==
    ASSUME PagesOK, NEW t \in Ids, t <= Len(issued)
    PROVE  CallsOf(t) \in Seq(Calls)
  <1>1. t \in 1 .. Len(issued) /\ issued \in Seq([user : Users, todo : Todos])
    BY MailboxAssumption DEF PagesOK, Ids
  <1>2. issued[t].todo \in {"Lock", "Unlock", "AlarmOff", "Emergency"}
    <2>1. issued[t] \in [user : Users, todo : Todos]
      BY <1>1, ElementOf
    <2> QED
      BY <2>1, MailboxAssumption
  <1> DEFINE Ms == {"Open", "Close", "On", "Off", "Emergency!!!"}
  <1>3. ASSUME NEW c, NEW m \in Ms, NEW e \in BOOLEAN, c.service \in Services =>
                 c = [service |-> c.service, mode |-> m, emergency |-> e]
        PROVE  Called(c) \in Seq(Calls)
    <2>1. CASE c.service \in Services
      <3>1. c \in Calls
        BY <2>1, <1>3 DEF Calls
      <3> QED
        BY <2>1, <3>1 DEF Called
    <2>2. CASE c.service \notin Services
      BY <2>2 DEF Called
    <2> QED
      BY <2>1, <2>2
  <1>4. /\ Called(Call("Motor", "Close", FALSE)) \in Seq(Calls)
        /\ Called(Call("Motor", "Open", FALSE)) \in Seq(Calls)
        /\ Called(Call("Motor", "Open", TRUE)) \in Seq(Calls)
    <2>1. /\ Call("Motor", "Close", FALSE) = [service |-> Call("Motor", "Close", FALSE).service, mode |-> "Close", emergency |-> FALSE]
          /\ Call("Motor", "Open", FALSE) = [service |-> Call("Motor", "Open", FALSE).service, mode |-> "Open", emergency |-> FALSE]
          /\ Call("Motor", "Open", TRUE) = [service |-> Call("Motor", "Open", TRUE).service, mode |-> "Open", emergency |-> TRUE]
      BY DEF Call
    <2> QED
      BY <2>1, <1>3
  <1>5. /\ Called(Call("Alarm", "Off", TRUE)) \in Seq(Calls)
        /\ Called(Call("Alarm", "On", TRUE)) \in Seq(Calls)
        /\ Called(Call("Notification", "Emergency!!!", FALSE)) \in Seq(Calls)
    <2>1. /\ Call("Alarm", "Off", TRUE) = [service |-> Call("Alarm", "Off", TRUE).service, mode |-> "Off", emergency |-> TRUE]
          /\ Call("Alarm", "On", TRUE) = [service |-> Call("Alarm", "On", TRUE).service, mode |-> "On", emergency |-> TRUE]
          /\ Call("Notification", "Emergency!!!", FALSE) = [service |-> Call("Notification", "Emergency!!!", FALSE).service, mode |-> "Emergency!!!", emergency |-> FALSE]
      BY DEF Call
    <2> QED
      BY <2>1, <1>3
  <1> HIDE DEF Ms
  <1>7. CASE issued[t].todo \in {"Lock", "Unlock", "AlarmOff"}
    BY <1>4, <1>5, <1>7 DEF CallsOf
  <1>8. CASE issued[t].todo = "Emergency"
    <2>1. CallsOf(t) = Called(Call("Motor", "Open", TRUE)) \o Called(Call("Alarm", "On", TRUE))
                       \o Called(Call("Notification", "Emergency!!!", FALSE))
      BY <1>8 DEF CallsOf
    <2>2. Called(Call("Motor", "Open", TRUE)) \o Called(Call("Alarm", "On", TRUE)) \in Seq(Calls)
      BY <1>4, <1>5, ConcatAt
    <2> QED
      BY <2>1, <2>2, <1>5, ConcatAt
  <1> QED
    BY <1>2, <1>7, <1>8

\* The listener runs a command it sees, or does nothing.
LEMMA ListenerShape ==
    ASSUME PagesOK, calls \in Seq(Calls), NEW c, NEW p \in Seq(Puts),
           c.todo \in Ids \cup {Null}, c.name \in Users \cup {NoUser},
           c.todo # Null => c.todo <= Len(issued),
           OnValue(c, p)
    PROVE  \/ Idles(p) /\ (c.known /\ c.todo # Null => Clearing(p))
           \/ c.known /\ c.todo # Null /\ ~Clearing(p) /\ Handles(c.todo, p)
  <1>1. Null = 0 /\ Null \notin Ids
    BY MailboxAssumption DEF Null, Ids
  <1>2. CASE c.known /\ Seen(c, p) # Null
    <2>1. ~Clearing(p) /\ Seen(c, p) = c.todo /\ c.todo # Null
      BY <1>2 DEF Seen
    <2>2. /\ puts' = p \o WritesOf(c.todo, c.name) /\ calls' = calls \o CallsOf(c.todo)
          /\ done' = Append(done, c.todo) /\ fate' = [fate EXCEPT ![c.todo] = "done"]
      BY <1>2, <2>1 DEF OnValue
    <2>3. c.todo \in Ids /\ c.todo <= Len(issued)
      BY <2>1
    <2>4. calls' \in Seq(Calls)
      <3>1. CallsOf(c.todo) \in Seq(Calls)
        BY <2>3, CallsTyped
      <3> QED
        BY <3>1, <2>2
    <2>5. \E w \in Seq(Puts) :
            /\ puts' = p \o w /\ w # <<>> /\ w[1].key = "todo"
            /\ \A k \in 2 .. Len(w) : w[k].key # "todo"
      <3>1. /\ WritesOf(c.todo, c.name) \in Seq(Puts) /\ WritesOf(c.todo, c.name) # <<>>
            /\ WritesOf(c.todo, c.name)[1].key = "todo"
            /\ \A k \in 2 .. Len(WritesOf(c.todo, c.name)) : WritesOf(c.todo, c.name)[k].key # "todo"
        BY <2>3, WritesTyped
      <3> QED
        BY <2>2, <3>1
    <2> QED
      BY <1>2, <2>1, <2>2, <2>4, <2>5 DEF Handles
  <1>3. CASE ~(c.known /\ Seen(c, p) # Null)
    BY <1>3 DEF OnValue, Idles, Seen
  <1> QED
    BY <1>2, <1>3

-----------------------------------------------------------------------------
(* What the door receives. *)

\* The kinds of messages.
LEMMA MessageKinds ==
    ASSUME NEW m \in Messages
    PROVE  /\ m.kind \in {"ack", "update", "snapshot"}
           /\ m.kind = "ack" => \E p \in Puts : m = Ack(p)
           /\ m.kind = "update" => (m.key = "todo" /\ m.val \in Ids) \/ (m.key = "name" /\ m.val \in Users)
           /\ m.kind = "snapshot" => m.todo \in Ids \cup {Null} /\ m.name \in Users \cup {NoUser}
           /\ \A t : Bears(m, t) => t \in Ids \cup {Null} /\ (m.kind = "ack" => t = Null)
  <1>1. CASE m \in {Ack(p) : p \in Puts}
    <2>1. PICK p \in Puts : m = Ack(p)
      BY <1>1
    <2>2. m.kind = "ack" /\ m.key = p.key /\ m.val = p.val
      BY <2>1 DEF Ack
    <2>3. p.key = "todo" => p.val = Null
      BY DEF Puts
    <2> QED
      BY <2>1, <2>2, <2>3 DEF Bears
  <1>2. CASE m \in {Update(p.key, p.val) : p \in PagePuts}
    <2>1. PICK p \in PagePuts : m = Update(p.key, p.val)
      BY <1>2
    <2>2. m.kind = "update" /\ m.key = p.key /\ m.val = p.val
      BY <2>1 DEF Update
    <2>3. (p.key = "todo" /\ p.val \in Ids) \/ (p.key = "name" /\ p.val \in Users)
      BY DEF PagePuts
    <2> QED
      BY <2>2, <2>3 DEF Bears
  <1>3. CASE m \in [kind : {"snapshot"}, todo : Ids \cup {Null}, name : Users \cup {NoUser}]
    BY <1>3 DEF Bears
  <1> QED
    BY <1>1, <1>2, <1>3 DEF Messages

\* An acknowledgement of the oldest write arrives.
AckTaken ==
    /\ toDoor[1].kind = "ack" /\ puts # <<>> /\ toDoor[1] = Ack(puts[1]) /\ applied > 0
    /\ puts' = Tail(puts) /\ applied' = applied - 1
    /\ AckedBy(toDoor', puts', applied')
    /\ cache' = IF puts[1].key = "todo" THEN [cache EXCEPT !.todo = Null] ELSE cache
    /\ UNCHANGED <<calls, done, fate>>

\* Somebody else's write, or a snapshot, arrives; a command is run only by the
\* message that brings it.
Learnt ==
    /\ toDoor[1].kind # "ack" /\ applied' = applied
    /\ cache' \in [todo : Ids \cup {Null}, name : Users \cup {NoUser}, known : BOOLEAN]
    /\ cache'.known
    /\ cache'.todo = cache.todo \/ Bears(toDoor[1], cache'.todo)
    /\ \/ Idles(puts) /\ (cache'.todo # Null => Clearing(puts))
       \/ /\ Handles(cache'.todo, puts) /\ ~Clearing(puts)
          /\ cache'.todo # Null /\ Bears(toDoor[1], cache'.todo)

\* Every reception is one of these.
LEMMA ReceiveShape ==
    ASSUME Base, Receive
    PROVE  /\ toDoor # <<>> /\ toDoor' = Tail(toDoor) /\ toDoor[1] \in Messages
           /\ UNCHANGED <<issued, up, srv, link, alive, arrived, clean, drops, crashes, beats>>
           /\ AckTaken \/ Learnt
  <1>t. /\ toDoor \in Seq(Messages) /\ puts \in Seq(Puts) /\ applied \in 0 .. Len(puts)
        /\ cache \in [todo : Ids \cup {Null}, name : Users \cup {NoUser}, known : BOOLEAN]
        /\ calls \in Seq(Calls) /\ PagesOK
    BY DEF Base, TypeOK, DoorOK
  <1>1. /\ alive /\ toDoor # <<>> /\ toDoor' = Tail(toDoor)
        /\ UNCHANGED <<issued, up, srv, link, alive, arrived, clean, drops, crashes, beats>>
    <2>1. UNCHANGED bounds
      BY DEF Receive
    <2> QED
      BY <2>1 DEF Receive, bounds
  <1>2. Head(toDoor) = toDoor[1] /\ toDoor[1] \in Messages /\ 1 \in 1 .. Len(toDoor)
    BY <1>t, <1>1, HeadTail
  <1> DEFINE m == toDoor[1]
             c == CASE m.kind = "snapshot" -> Known(m.todo, m.name)
                    [] m.kind = "update" -> [cache EXCEPT ![m.key] = m.val]
                    [] m.kind = "ack" /\ m.key = "todo" -> [cache EXCEPT !.todo = m.val]
                    [] OTHER -> cache
             q == IF m.kind = "ack" THEN Tail(puts) ELSE puts
  <1>3. cache' = c /\ OnValue(c, q) /\ applied' = IF m.kind = "ack" THEN applied - 1 ELSE applied
    BY <1>2 DEF Receive
  <1>4. cache.known \/ m.kind = "snapshot"
    BY <1>1 DEF Base, Linked, TypeOK, DoorOK
  <1>5. \A t \in Ids : HasArrived(t) => t <= Len(issued)
    BY DEF Base, InFlight, HasArrived, ArrivedIn
  <1>6. CASE m.kind = "ack"
    <2>1. /\ applied > 0 /\ puts # <<>> /\ m = Ack(puts[1])
          /\ AckedBy(Tail(toDoor), Tail(puts), applied - 1)
      BY <1>t, <1>1, <1>6, AckedTaken DEF Base, Acked
    <2>2. puts[1] \in Puts /\ Tail(puts) \in Seq(Puts)
      BY <1>t, <2>1, HeadTail
    <2>3. m.key = puts[1].key /\ m.val = puts[1].val /\ (puts[1].key = "todo" => puts[1].val = Null)
      BY <2>1, <2>2 DEF Ack, Puts
    <2>4. c = IF puts[1].key = "todo" THEN [cache EXCEPT !.todo = Null] ELSE cache
      BY <1>6, <2>3
    <2>5. q = Tail(puts)
      BY <1>6
    <2> HIDE DEF c, q, m
    <2>6. ~(c.known /\ Seen(c, q) # Null)
      <3>1. CASE puts[1].key = "todo"
        <4>1. c.todo = Null
          BY <2>4, <3>1, <1>t
        <4> QED
          BY <4>1 DEF Seen
      <3>2. CASE puts[1].key # "todo"
        <4>1. c.todo = cache.todo
          BY <2>4, <3>2
        <4>2. CASE cache.todo = Null
          BY <4>1, <4>2 DEF Seen
        <4>3. CASE Clearing(puts)
          <5>1. PICK k \in 1 .. Len(puts) : puts[k].key = "todo"
            BY <4>3 DEF Clearing
          <5>2. k # 1 /\ Len(puts) \in Nat
            BY <5>1, <3>2, <1>t
          <5>3. k - 1 \in 1 .. Len(puts) - 1 /\ (k - 1) + 1 = k
            BY <5>2
          <5>4. Tail(puts)[k - 1] = puts[k] /\ k - 1 \in 1 .. Len(Tail(puts))
            BY <1>t, <2>1, <5>3, HeadTail
          <5>5. Clearing(q)
            BY <5>1, <5>4, <2>5 DEF Clearing
          <5> QED
            BY <5>5 DEF Seen
        <4> QED
          BY <4>2, <4>3 DEF Base, HeardHidden
      <3> QED
        BY <3>1, <3>2
    <2>7. puts' = q /\ UNCHANGED <<calls, done, fate>>
      BY <1>3, <2>6 DEF OnValue
    <2>8. applied' = applied - 1 /\ cache' = c
      BY <1>3, <1>6
    <2>9. AckTaken
      BY <1>6, <2>1, <2>4, <2>5, <2>7, <2>8, <1>1 DEF AckTaken, m
    <2> QED
      BY <1>1, <1>2, <2>9
  <1>7. CASE m.kind # "ack"
    <2>1. q = puts /\ applied' = applied
      BY <1>3, <1>7
    <2>2. /\ m.kind = "snapshot" => c = Known(m.todo, m.name)
          /\ m.kind = "update" /\ m.key = "todo" => c = [cache EXCEPT !.todo = m.val]
          /\ m.kind = "update" /\ m.key = "name" => c = [cache EXCEPT !.name = m.val]
      OBVIOUS
    <2>3. /\ m.kind \in {"snapshot", "update"}
          /\ m.kind = "update" => (m.key = "todo" /\ m.val \in Ids) \/ (m.key = "name" /\ m.val \in Users)
          /\ m.kind = "snapshot" => m.todo \in Ids \cup {Null} /\ m.name \in Users \cup {NoUser}
      BY <1>2, <1>7, MessageKinds
    <2> HIDE DEF c, m
    <2>4. /\ c \in [todo : Ids \cup {Null}, name : Users \cup {NoUser}, known : BOOLEAN]
          /\ c.known /\ (c.todo = cache.todo \/ Bears(m, c.todo))
      <3>1. CASE m.kind = "snapshot"
        <4>1. c = [todo |-> m.todo, name |-> m.name, known |-> TRUE]
          BY <2>2, <3>1 DEF Known
        <4>2. c.known /\ c.todo = m.todo
          BY <4>1
        <4>3. c \in [todo : Ids \cup {Null}, name : Users \cup {NoUser}, known : BOOLEAN]
          BY <4>1, <2>3, <3>1
        <4> QED
          BY <4>2, <4>3, <3>1 DEF Bears
      <3>2. CASE m.kind = "update" /\ m.key = "todo"
        <4>1. c = [cache EXCEPT !.todo = m.val] /\ m.val \in Ids /\ cache.known
          BY <2>2, <2>3, <3>2, <1>4
        <4>2. c \in [todo : Ids \cup {Null}, name : Users \cup {NoUser}, known : BOOLEAN]
          BY <4>1, <1>t
        <4>3. c.known /\ c.todo = m.val
          BY <4>1, <1>t
        <4> QED
          BY <4>2, <4>3, <3>2 DEF Bears
      <3>3. CASE m.kind = "update" /\ m.key = "name"
        <4>1. c = [cache EXCEPT !.name = m.val] /\ m.val \in Users /\ cache.known
          BY <2>2, <2>3, <3>3, <1>4
        <4>2. c \in [todo : Ids \cup {Null}, name : Users \cup {NoUser}, known : BOOLEAN]
          BY <4>1, <1>t
        <4>3. c.known /\ c.todo = cache.todo
          BY <4>1, <1>t
        <4> QED
          BY <4>2, <4>3
      <3> QED
        BY <2>3, <3>1, <3>2, <3>3
    <2> HIDE DEF q
    <2>5. c.todo # Null => HasArrived(c.todo)
      BY <2>4, <1>2 DEF Base, Heard, m
    <2>6. \/ Idles(puts) /\ (c.known /\ c.todo # Null => Clearing(puts))
          \/ c.known /\ c.todo # Null /\ ~Clearing(puts) /\ Handles(c.todo, puts)
      <3>1. c.todo \in Ids \cup {Null} /\ c.name \in Users \cup {NoUser}
        BY <2>4
      <3>2. c.todo # Null => c.todo <= Len(issued)
        BY <2>5, <3>1, <1>5
      <3>3. OnValue(c, puts)
        BY <1>3, <2>1
      <3> QED
        BY <1>t, <3>1, <3>2, <3>3, ListenerShape
    <2>7. c.todo # Null /\ ~Clearing(puts) => Bears(m, c.todo)
      BY <2>4 DEF Base, HeardHidden
    <2>8. cache' = c
      BY <1>3
    <2>9. Learnt
      BY <1>7, <2>1, <2>4, <2>6, <2>7, <2>8 DEF Learnt, m
    <2> QED
      BY <1>1, <1>2, <2>9
  <1> QED
    BY <1>6, <1>7

\* A heartbeat writes its field and runs nothing.
LEMMA HeartbeatShape ==
    ASSUME Base, Heartbeat
    PROVE  /\ Put("time", Null) \in Puts /\ Put("time", Null).key = "time"
           /\ Idles(Append(puts, Put("time", Null)))
           /\ alive /\ beats < MaxBeats /\ beats' = beats + 1
           /\ UNCHANGED <<issued, up, srv, toDoor, link, alive, cache, applied, arrived,
                          clean, drops, crashes>>
  <1>t. /\ puts \in Seq(Puts) /\ calls \in Seq(Calls) /\ PagesOK
        /\ cache \in [todo : Ids \cup {Null}, name : Users \cup {NoUser}, known : BOOLEAN]
    BY DEF Base, TypeOK, DoorOK
  <1>1. Put("time", Null) \in Puts /\ Put("time", Null).key = "time"
    BY DEF Put, Puts
  <1> DEFINE q == Append(puts, Put("time", Null))
  <1>2. cache.todo # Null => Clearing(q)
    <2> SUFFICES ASSUME cache.todo # Null PROVE Clearing(q)
      OBVIOUS
    <2>1. PICK k \in 1 .. Len(puts) : puts[k].key = "todo"
      BY DEF Base, HeardHidden, Clearing
    <2>2. q[k] = puts[k] /\ k \in 1 .. Len(q)
      BY <1>t, <1>1, AppendAt
    <2> QED
      BY <2>1, <2>2 DEF Clearing
  <1>3. Seen(cache, q) = Null
    BY <1>2 DEF Seen
  <1>4. Idles(q)
    BY <1>3 DEF Heartbeat, OnValue, Idles
  <1> QED
    BY <1>1, <1>4 DEF Heartbeat

-----------------------------------------------------------------------------
(* Types. *)

\* The writes of a command follow those already outstanding.
LEMMA HandlesPuts ==
    ASSUME NEW t \in Ids, DoorOK, HistoryOK, Handles(t, puts)
    PROVE  /\ puts' \in Seq(Puts) /\ Len(puts') \in Nat /\ Len(puts) \in Nat
           /\ Len(puts') > Len(puts)
           /\ \A k \in 1 .. Len(puts) : puts'[k] = puts[k]
           /\ puts'[Len(puts) + 1].key = "todo"
           /\ \A k \in Len(puts) + 2 .. Len(puts') : puts'[k].key # "todo"
           /\ done' \in Seq(Ids) /\ Len(done') = Len(done) + 1 /\ Len(done) \in Nat
           /\ done'[Len(done) + 1] = t /\ \A k \in 1 .. Len(done) : done'[k] = done[k]
           /\ fate'[t] = "done" /\ \A s \in Ids \ {t} : fate'[s] = fate[s]
           /\ fate' \in [Ids -> {"none", "sent", "stored", "overwritten", "wiped", "done"}]
           /\ calls' \in Seq(Calls)
  <1>1. PICK w \in Seq(Puts) :
          /\ puts' = puts \o w /\ w # <<>> /\ w[1].key = "todo"
          /\ \A k \in 2 .. Len(w) : w[k].key # "todo"
    BY DEF Handles
  <1>2. puts \in Seq(Puts)
    BY DEF DoorOK
  <1>3. /\ puts' \in Seq(Puts) /\ Len(puts') = Len(puts) + Len(w)
        /\ Len(puts) \in Nat /\ Len(w) \in Nat
        /\ \A k \in 1 .. Len(puts) : puts'[k] = puts[k]
        /\ \A k \in Len(puts) + 1 .. Len(puts) + Len(w) : puts'[k] = w[k - Len(puts)]
    BY <1>1, <1>2, ConcatAt
  <1>4. Len(w) > 0
    BY <1>1, HeadTail
  <1>5. puts'[Len(puts) + 1].key = "todo"
    <2>1. Len(puts) + 1 \in Len(puts) + 1 .. Len(puts) + Len(w) /\ (Len(puts) + 1) - Len(puts) = 1
      BY <1>3, <1>4
    <2> QED
      BY <2>1, <1>1, <1>3
  <1>6. ASSUME NEW k \in Len(puts) + 2 .. Len(puts') PROVE puts'[k].key # "todo"
    <2>1. /\ k \in Len(puts) + 1 .. Len(puts) + Len(w)
          /\ k - Len(puts) \in 2 .. Len(w)
      BY <1>3
    <2> QED
      BY <2>1, <1>1, <1>3
  <1>7. /\ done' \in Seq(Ids) /\ Len(done') = Len(done) + 1 /\ Len(done) \in Nat
        /\ done'[Len(done) + 1] = t /\ \A k \in 1 .. Len(done) : done'[k] = done[k]
    <2>1. done \in Seq(Ids) /\ done' = Append(done, t)
      BY DEF HistoryOK, Handles
    <2> QED
      BY <2>1, AppendAt
  <1>8. /\ fate'[t] = "done" /\ \A s \in Ids \ {t} : fate'[s] = fate[s]
        /\ fate' \in [Ids -> {"none", "sent", "stored", "overwritten", "wiped", "done"}]
    BY DEF HistoryOK, Handles
  <1>9. calls' \in Seq(Calls)
    BY DEF Handles
  <1> QED
    BY <1>3, <1>4, <1>5, <1>6, <1>7, <1>8, <1>9

\* The first write of a page, and what is left.
LEMMA PageHead ==
    ASSUME PagesOK, NEW u \in Users, up[u] # <<>>
    PROVE  /\ Head(up[u]) = up[u][1] /\ up[u][1] \in PagePuts /\ Tail(up[u]) \in Seq(PagePuts)
           /\ Len(up[u]) \in Nat \ {0} /\ Len(Tail(up[u])) = Len(up[u]) - 1
           /\ \A k \in 1 .. Len(up[u]) - 1 : Tail(up[u])[k] = up[u][k + 1]
           /\ Update(up[u][1].key, up[u][1].val) \in Messages
           /\ \/ up[u][1].key = "todo" /\ up[u][1].val \in Ids
              \/ up[u][1].key = "name" /\ up[u][1].val \in Users
  <1>1. up[u] \in Seq(PagePuts)
    BY DEF PagesOK
  <1>2. up[u][1] \in PagePuts
    BY <1>1, HeadTail
  <1>3. Update(up[u][1].key, up[u][1].val) \in Messages
    BY <1>2 DEF Messages
  <1>4. \/ up[u][1].key = "todo" /\ up[u][1].val \in Ids
        \/ up[u][1].key = "name" /\ up[u][1].val \in Users
    BY <1>2 DEF PagePuts
  <1> QED
    BY <1>1, <1>2, <1>3, <1>4, HeadTail

\* A command is given.
LEMMA WritecomType ==
    ASSUME TypeOK, NEW u \in Users, Writecom(u)
    PROVE  /\ TypeOK'
           /\ Len(issued) + 1 \in Ids /\ Len(issued) \in Nat /\ Len(issued') = Len(issued) + 1
           /\ fate' = [fate EXCEPT ![Len(issued) + 1] = "sent"]
           /\ up' = [up EXCEPT ![u] = up'[u]] /\ up[u] \in Seq(PagePuts)
           /\ Len(up'[u]) = Len(up[u]) + 2 /\ Len(up[u]) \in Nat
           /\ \A k \in 1 .. Len(up[u]) : up'[u][k] = up[u][k]
           /\ up'[u][Len(up[u]) + 1] = Put("todo", Len(issued) + 1)
           /\ up'[u][Len(up[u]) + 2] = Put("name", u)
  <1>1. /\ issued \in Seq([user : Users, todo : Todos]) /\ Len(issued) < MaxCommands
        /\ Len(issued) \in Nat /\ MaxCommands \in Nat
        /\ up \in [Users -> Seq(PagePuts)] /\ up[u] \in Seq(PagePuts)
    BY MailboxAssumption DEF TypeOK, PagesOK, Writecom
  <1>2. PICK todo \in Todos : issued' = Append(issued, [user |-> u, todo |-> todo])
    BY DEF Writecom
  <1>3. issued' \in Seq([user : Users, todo : Todos]) /\ Len(issued') = Len(issued) + 1
    <2>1. [user |-> u, todo |-> todo] \in [user : Users, todo : Todos]
      OBVIOUS
    <2> QED
      BY <1>1, <1>2, <2>1, AppendAt
  <1>4. Len(issued) + 1 \in Ids
    BY <1>1 DEF Ids
  <1> DEFINE w == <<Put("todo", Len(issued) + 1), Put("name", u)>>
  <1>5. Put("todo", Len(issued) + 1) \in PagePuts /\ Put("name", u) \in PagePuts
    BY <1>4 DEF Put, PagePuts
  <1>6. /\ w \in Seq(PagePuts) /\ Len(w) = 2
        /\ w[1] = Put("todo", Len(issued) + 1) /\ w[2] = Put("name", u)
    BY <1>5
  <1>7. up' = [up EXCEPT ![u] = up[u] \o w]
    BY DEF Writecom
  <1> HIDE DEF w
  <1>8. up'[u] = up[u] \o w
    BY <1>7, <1>1
  <1>9. /\ up'[u] \in Seq(PagePuts) /\ Len(up'[u]) = Len(up[u]) + 2 /\ Len(up[u]) \in Nat
        /\ \A k \in 1 .. Len(up[u]) : up'[u][k] = up[u][k]
        /\ up'[u][Len(up[u]) + 1] = w[1] /\ up'[u][Len(up[u]) + 2] = w[2]
    <2>1. /\ up'[u] \in Seq(PagePuts) /\ Len(up'[u]) = Len(up[u]) + 2 /\ Len(up[u]) \in Nat
          /\ \A k \in 1 .. Len(up[u]) : up'[u][k] = up[u][k]
          /\ \A k \in Len(up[u]) + 1 .. Len(up[u]) + 2 : up'[u][k] = w[k - Len(up[u])]
      <3>1. PICK s \in Seq(PagePuts) : s = up[u]
        BY <1>1
      <3>2. PICK v \in Seq(PagePuts) : v = w /\ Len(v) = 2
        BY <1>6
      <3>3. /\ s \o v \in Seq(PagePuts) /\ Len(s \o v) = Len(s) + Len(v)
            /\ Len(s) \in Nat /\ Len(v) \in Nat
            /\ \A k \in 1 .. Len(s) : (s \o v)[k] = s[k]
            /\ \A k \in Len(s) + 1 .. Len(s) + Len(v) : (s \o v)[k] = v[k - Len(s)]
        BY ConcatAt
      <3> QED
        BY <3>1, <3>2, <3>3, <1>8
    <2>2. /\ Len(up[u]) + 1 \in Len(up[u]) + 1 .. Len(up[u]) + 2 /\ (Len(up[u]) + 1) - Len(up[u]) = 1
          /\ Len(up[u]) + 2 \in Len(up[u]) + 1 .. Len(up[u]) + 2 /\ (Len(up[u]) + 2) - Len(up[u]) = 2
      BY <2>1
    <2> QED
      BY <2>1, <2>2
  <1>10. up' \in [Users -> Seq(PagePuts)] /\ up' = [up EXCEPT ![u] = up'[u]]
    BY <1>1, <1>7, <1>8, <1>9
  <1>11. PagesOK'
    BY <1>1, <1>3, <1>10 DEF PagesOK
  <1>12. fate' = [fate EXCEPT ![Len(issued) + 1] = "sent"]
    BY DEF Writecom
  <1>13. HistoryOK' /\ ServerOK' /\ DoorOK'
    BY <1>12 DEF Writecom, TypeOK, HistoryOK, ServerOK, DoorOK, client, bounds
  <1> QED
    BY <1>1, <1>3, <1>4, <1>6, <1>9, <1>10, <1>11, <1>12, <1>13 DEF TypeOK

\* Replacing what todo holds keeps the fates a function.
LEMMA ReplacedType ==
    ASSUME HistoryOK, ServerOK, NEW how \in {"overwritten", "wiped"}
    PROVE  /\ Replaced(fate, how) \in [Ids -> {"none", "sent", "stored", "overwritten", "wiped", "done"}]
           /\ \A t \in Ids : \/ Replaced(fate, how)[t] = fate[t]
                             \/ /\ t = srv.todo /\ srv.todo # Null
                                /\ fate[t] = "stored" /\ Replaced(fate, how)[t] = how
           /\ srv.todo # Null => Replaced(fate, how)[srv.todo] # "stored"
  <1>1. fate \in [Ids -> {"none", "sent", "stored", "overwritten", "wiped", "done"}]
    BY DEF HistoryOK
  <1>2. srv.todo \in Ids \cup {Null}
    BY DEF ServerOK
  <1>3. CASE srv.todo # Null /\ fate[srv.todo] = "stored"
    <2>1. Replaced(fate, how) = [fate EXCEPT ![srv.todo] = how]
      BY <1>3 DEF Replaced
    <2> QED
      BY <1>1, <1>2, <1>3, <2>1
  <1>4. CASE ~(srv.todo # Null /\ fate[srv.todo] = "stored")
    <2>1. Replaced(fate, how) = fate
      BY <1>4 DEF Replaced
    <2> QED
      BY <1>1, <1>4, <2>1
  <1> QED
    BY <1>3, <1>4

\* The server takes a page's write.
LEMMA ServePageType ==
    ASSUME TypeOK, NEW u \in Users, ServePage(u)
    PROVE  /\ TypeOK'
           /\ up' = [up EXCEPT ![u] = Tail(up[u])]
           /\ toDoor' = IF link = "up"
                        THEN Append(toDoor, Update(up[u][1].key, up[u][1].val)) ELSE toDoor
           /\ up[u][1].key = "todo" =>
                /\ srv'.todo = up[u][1].val
                /\ arrived' = Append(arrived, up[u][1].val)
                /\ fate' = [Replaced(fate, "overwritten") EXCEPT ![up[u][1].val] = "stored"]
                /\ clean' = IF link = "up" /\ srv.todo = Null /\ ~Clearing(puts)
                            THEN clean \cup {up[u][1].val} ELSE clean
           /\ up[u][1].key # "todo" => srv'.todo = srv.todo /\ UNCHANGED <<arrived, fate, clean>>
  <1> DEFINE put == up[u][1]
  <1>1. up[u] # <<>> /\ Head(up[u]) = put
    BY PageHead DEF ServePage, TypeOK
  <1>2. /\ put \in PagePuts /\ Tail(up[u]) \in Seq(PagePuts)
        /\ Update(put.key, put.val) \in Messages
        /\ (put.key = "todo" /\ put.val \in Ids) \/ (put.key = "name" /\ put.val \in Users)
    BY <1>1, PageHead DEF TypeOK
  <1> HIDE DEF put
  <1>3. /\ srv' = [srv EXCEPT ![put.key] = put.val]
        /\ toDoor' = IF link = "up" THEN Append(toDoor, Update(put.key, put.val)) ELSE toDoor
        /\ up' = [up EXCEPT ![u] = Tail(up[u])]
        /\ UNCHANGED <<issued, link, alive, cache, puts, applied, calls, done, drops, crashes, beats>>
    BY <1>1 DEF ServePage, client, bounds
  <1>4. IF put.key = "todo"
        THEN /\ arrived' = Append(arrived, put.val)
             /\ fate' = [Replaced(fate, "overwritten") EXCEPT ![put.val] = "stored"]
             /\ clean' = IF link = "up" /\ srv.todo = Null /\ ~Clearing(puts)
                         THEN clean \cup {put.val} ELSE clean
        ELSE UNCHANGED <<arrived, fate, clean>>
    BY <1>1 DEF ServePage
  <1>5. PagesOK'
    BY <1>2, <1>3 DEF TypeOK, PagesOK
  <1>6. DoorOK'
    <2>1. toDoor \in Seq(Messages)
      BY DEF TypeOK, DoorOK
    <2>2. toDoor' \in Seq(Messages)
      BY <1>2, <1>3, <2>1, AppendAt
    <2> QED
      BY <2>2, <1>3 DEF TypeOK, DoorOK
  <1>7. /\ ServerOK'
        /\ put.key = "todo" => srv'.todo = put.val
        /\ put.key # "todo" => srv'.todo = srv.todo
    <2>1. srv \in [todo : Ids \cup {Null}, name : Users \cup {NoUser},
                   emergency : {"On", "Off"}, popup : BOOLEAN,
                   log : SUBSET [id : Ids, name : Users \cup {NoUser}]]
      BY DEF TypeOK, ServerOK
    <2>2. CASE put.key = "todo" /\ put.val \in Ids
      <3>1. srv' = [srv EXCEPT !.todo = put.val]
        BY <1>3, <2>2
      <3> QED
        BY <3>1, <2>1, <2>2 DEF ServerOK
    <2>3. CASE put.key = "name" /\ put.val \in Users
      <3>1. srv' = [srv EXCEPT !.name = put.val]
        BY <1>3, <2>3
      <3> QED
        BY <3>1, <2>1, <2>3 DEF ServerOK
    <2> QED
      BY <1>2, <2>2, <2>3
  <1>8. HistoryOK'
    <2>1. /\ arrived \in Seq(Ids) /\ clean \subseteq Ids
          /\ fate \in [Ids -> {"none", "sent", "stored", "overwritten", "wiped", "done"}]
      BY DEF TypeOK, HistoryOK
    <2>2. CASE put.key = "todo"
      <3>1. put.val \in Ids
        BY <1>2, <2>2
      <3>2. arrived' \in Seq(Ids)
        BY <1>4, <2>1, <2>2, <3>1, AppendAt
      <3>3. fate' \in [Ids -> {"none", "sent", "stored", "overwritten", "wiped", "done"}]
        <4>1. Replaced(fate, "overwritten")
                \in [Ids -> {"none", "sent", "stored", "overwritten", "wiped", "done"}]
          BY ReplacedType DEF TypeOK
        <4> QED
          BY <4>1, <1>4, <2>2, <3>1
      <3>4. clean' \subseteq Ids
        BY <1>4, <2>1, <2>2, <3>1
      <3> QED
        BY <3>2, <3>3, <3>4, <1>3 DEF TypeOK, HistoryOK
    <2>3. CASE put.key # "todo"
      BY <1>3, <1>4, <2>3 DEF TypeOK, HistoryOK
    <2> QED
      BY <2>2, <2>3
  <1> QED
    BY <1>3, <1>4, <1>5, <1>6, <1>7, <1>8 DEF TypeOK, put

\* The server applies a write of the door.
LEMMA ServeDoorType ==
    ASSUME TypeOK, ServeDoor
    PROVE  /\ TypeOK'
           /\ applied + 1 \in 1 .. Len(puts) /\ puts[applied + 1] \in Puts /\ applied \in Nat
           /\ Ack(puts[applied + 1]) \in Messages
           /\ link = "up" /\ applied' = applied + 1
           /\ toDoor' = Append(toDoor, Ack(puts[applied + 1]))
           /\ srv'.todo = IF puts[applied + 1].key = "todo" THEN Null ELSE srv.todo
           /\ fate' = IF puts[applied + 1].key = "todo" THEN Replaced(fate, "wiped") ELSE fate
  <1> DEFINE put == puts[applied + 1]
  <1>1. /\ link = "up" /\ applied < Len(puts) /\ applied \in 0 .. Len(puts)
        /\ puts \in Seq(Puts) /\ Len(puts) \in Nat /\ applied' = applied + 1
        /\ toDoor' = Append(toDoor, Ack(put)) /\ toDoor \in Seq(Messages)
        /\ fate' = IF put.key = "todo" THEN Replaced(fate, "wiped") ELSE fate
    BY DEF TypeOK, DoorOK, ServeDoor
  <1>2. applied + 1 \in 1 .. Len(puts) /\ applied \in Nat /\ applied + 1 \in 0 .. Len(puts)
    BY <1>1
  <1>3. put \in Puts /\ Ack(put) \in Messages
    <2>1. put \in Puts
      BY <1>1, <1>2, ElementOf
    <2> QED
      BY <2>1 DEF Messages
  <1>4. /\ UNCHANGED <<issued, up, link, alive, cache, puts, calls, done, arrived, clean>>
        /\ UNCHANGED <<drops, crashes, beats>>
    BY DEF ServeDoor, bounds
  <1>5. /\ srv' = CASE put.key = "todo" -> [srv EXCEPT !.todo = put.val]
                    [] put.key = "log" -> [srv EXCEPT !.log = @ \cup {put.val}]
                    [] put.key = "Emergency" -> [srv EXCEPT !.emergency = put.val]
                    [] put.key = "popup" -> [srv EXCEPT !.popup = put.val]
                    [] put.key = "time" -> srv
    BY DEF ServeDoor
  <1> HIDE DEF put
  <1>6. ServerOK' /\ srv'.todo = IF put.key = "todo" THEN Null ELSE srv.todo
    <2>1. srv \in [todo : Ids \cup {Null}, name : Users \cup {NoUser},
                   emergency : {"On", "Off"}, popup : BOOLEAN,
                   log : SUBSET [id : Ids, name : Users \cup {NoUser}]]
      BY DEF TypeOK, ServerOK
    <2>2. /\ put.key \in {"todo", "time", "log", "Emergency", "popup"}
          /\ put.key = "todo" => put.val = Null
          /\ put.key = "log" => put.val \in [id : Ids, name : Users \cup {NoUser}]
          /\ put.key = "Emergency" => put.val \in {"On", "Off"}
          /\ put.key = "popup" => put.val \in BOOLEAN
      BY <1>3 DEF Puts
    <2>3. CASE put.key = "todo"
      <3>1. srv' = [srv EXCEPT !.todo = Null]
        BY <1>5, <2>2, <2>3
      <3> QED
        BY <3>1, <2>1, <2>3 DEF ServerOK
    <2>4. CASE put.key = "log"
      <3>1. srv' = [srv EXCEPT !.log = srv.log \cup {put.val}]
        BY <1>5, <2>4
      <3>2. srv.log \cup {put.val} \in SUBSET [id : Ids, name : Users \cup {NoUser}]
        BY <2>1, <2>2, <2>4
      <3> QED
        BY <3>1, <3>2, <2>1, <2>4 DEF ServerOK
    <2>5. CASE put.key = "Emergency"
      <3>1. srv' = [srv EXCEPT !.emergency = put.val]
        BY <1>5, <2>5
      <3> QED
        BY <3>1, <2>1, <2>2, <2>5 DEF ServerOK
    <2>6. CASE put.key = "popup"
      <3>1. srv' = [srv EXCEPT !.popup = put.val]
        BY <1>5, <2>6
      <3> QED
        BY <3>1, <2>1, <2>2, <2>6 DEF ServerOK
    <2>7. CASE put.key = "time"
      <3>1. srv' = srv
        BY <1>5, <2>7
      <3> QED
        BY <3>1, <2>1, <2>7 DEF ServerOK
    <2> QED
      BY <2>2, <2>3, <2>4, <2>5, <2>6, <2>7
  <1>7. DoorOK'
    <2>1. toDoor' \in Seq(Messages)
      BY <1>1, <1>3, AppendAt
    <2> QED
      BY <2>1, <1>1, <1>2, <1>4 DEF TypeOK, DoorOK
  <1>8. HistoryOK'
    <2>1. fate' \in [Ids -> {"none", "sent", "stored", "overwritten", "wiped", "done"}]
      <3>1. Replaced(fate, "wiped")
              \in [Ids -> {"none", "sent", "stored", "overwritten", "wiped", "done"}]
        BY ReplacedType DEF TypeOK
      <3>2. fate \in [Ids -> {"none", "sent", "stored", "overwritten", "wiped", "done"}]
        BY DEF TypeOK, HistoryOK
      <3> QED
        BY <3>1, <3>2, <1>1
    <2> QED
      BY <2>1, <1>4 DEF TypeOK, HistoryOK
  <1>9. PagesOK'
    BY <1>4 DEF TypeOK, PagesOK
  <1> QED
    BY <1>1, <1>2, <1>3, <1>6, <1>7, <1>8, <1>9 DEF TypeOK, put

\* A message is received.
LEMMA ReceiveType ==
    ASSUME Base, Receive
    PROVE  TypeOK'
  <1>1. /\ toDoor # <<>> /\ toDoor' = Tail(toDoor) /\ toDoor[1] \in Messages
        /\ UNCHANGED <<issued, up, srv, link, alive, arrived, clean, drops, crashes, beats>>
        /\ AckTaken \/ Learnt
    BY ReceiveShape
  <1>t. /\ toDoor \in Seq(Messages) /\ puts \in Seq(Puts) /\ applied \in 0 .. Len(puts)
        /\ cache \in [todo : Ids \cup {Null}, name : Users \cup {NoUser}, known : BOOLEAN]
        /\ calls \in Seq(Calls) /\ link \in {"up", "down"} /\ alive \in BOOLEAN
        /\ Len(puts) \in Nat
    BY DEF Base, TypeOK, DoorOK
  <1>2. toDoor' \in Seq(Messages)
    BY <1>1, <1>t, HeadTail
  <1>3. PagesOK' /\ ServerOK'
    BY <1>1 DEF Base, TypeOK, PagesOK, ServerOK
  <1>4. CASE AckTaken
    <2>1. puts' \in Seq(Puts) /\ Len(puts') = Len(puts) - 1
      BY <1>t, <1>4, HeadTail DEF AckTaken
    <2>2. applied' \in 0 .. Len(puts')
      BY <1>t, <1>4, <2>1 DEF AckTaken
    <2>3. cache' \in [todo : Ids \cup {Null}, name : Users \cup {NoUser}, known : BOOLEAN]
      BY <1>t, <1>4 DEF AckTaken
    <2>4. DoorOK'
      BY <1>t, <1>1, <1>2, <2>1, <2>2, <2>3, <1>4 DEF DoorOK, AckTaken
    <2>5. HistoryOK'
      BY <1>1, <1>4 DEF Base, TypeOK, HistoryOK, AckTaken
    <2> QED
      BY <1>3, <2>4, <2>5 DEF TypeOK
  <1>5. CASE Learnt /\ Idles(puts)
    <2>1. DoorOK'
      BY <1>t, <1>1, <1>2, <1>5 DEF DoorOK, Learnt, Idles
    <2>2. HistoryOK'
      BY <1>1, <1>5 DEF Base, TypeOK, HistoryOK, Idles
    <2> QED
      BY <1>3, <2>1, <2>2 DEF TypeOK
  <1>6. CASE Learnt /\ Handles(cache'.todo, puts) /\ cache'.todo # Null
    <2>1. /\ cache' \in [todo : Ids \cup {Null}, name : Users \cup {NoUser}, known : BOOLEAN]
          /\ applied' = applied
      BY <1>6 DEF Learnt
    <2>2. cache'.todo \in Ids
      BY <1>6, <2>1
    <2>3. PICK t \in Ids : t = cache'.todo
      BY <2>2
    <2>4. Handles(t, puts)
      BY <1>6, <2>3
    <2>5. /\ puts' \in Seq(Puts) /\ Len(puts') \in Nat /\ Len(puts') > Len(puts)
          /\ done' \in Seq(Ids) /\ calls' \in Seq(Calls)
          /\ fate' \in [Ids -> {"none", "sent", "stored", "overwritten", "wiped", "done"}]
      BY <2>4, HandlesPuts DEF Base, TypeOK
    <2>6. applied' \in 0 .. Len(puts')
      BY <1>t, <2>1, <2>5
    <2>7. DoorOK'
      BY <1>t, <1>1, <1>2, <2>1, <2>5, <2>6 DEF DoorOK
    <2>8. HistoryOK'
      BY <1>1, <2>5 DEF Base, TypeOK, HistoryOK
    <2> QED
      BY <1>3, <2>7, <2>8 DEF TypeOK
  <1> QED
    BY <1>1, <1>4, <1>5, <1>6 DEF Learnt

\* The other steps of the door.
LEMMA LinkSteps ==
    ASSUME TypeOK
    PROVE  /\ Drop => TypeOK'
           /\ Connect => TypeOK' /\ Snapshot(srv) \in Messages /\ Snapshot(srv).kind = "snapshot"
                         /\ Snapshot(srv).todo = srv.todo
           /\ Crash => TypeOK'
           /\ Restart => TypeOK'
  <1>t. /\ puts \in Seq(Puts) /\ Len(puts) \in Nat /\ applied \in 0 .. Len(puts)
        /\ drops \in 0 .. MaxDrops /\ crashes \in 0 .. MaxCrashes
        /\ MaxDrops \in Nat /\ MaxCrashes \in Nat
    BY MailboxAssumption DEF TypeOK, DoorOK, HistoryOK
  <1>1. /\ <<>> \in Seq(Messages) /\ <<>> \in Seq(Puts) /\ Len(<<>>) = 0
        /\ 0 \in 0 .. Len(puts)
    BY <1>t
  <1>2. ASSUME Drop PROVE TypeOK'
    <2>1. DoorOK'
      BY <1>1, <1>2 DEF TypeOK, DoorOK, Drop
    <2>2. HistoryOK'
      BY <1>t, <1>2 DEF TypeOK, HistoryOK, Drop, history
    <2> QED
      BY <1>2, <2>1, <2>2 DEF TypeOK, PagesOK, ServerOK, Drop
  <1>3. ASSUME Connect
        PROVE  /\ TypeOK' /\ Snapshot(srv) \in Messages /\ Snapshot(srv).kind = "snapshot"
               /\ Snapshot(srv).todo = srv.todo
    <2>1. srv.todo \in Ids \cup {Null} /\ srv.name \in Users \cup {NoUser}
      BY DEF TypeOK, ServerOK
    <2>2. /\ Snapshot(srv) \in Messages /\ Snapshot(srv).kind = "snapshot"
          /\ Snapshot(srv).todo = srv.todo
      BY <2>1 DEF Snapshot, Messages
    <2>3. toDoor' \in Seq(Messages)
      BY <2>2, <1>3, SingleAt DEF Connect
    <2>4. DoorOK'
      BY <2>3, <1>3 DEF TypeOK, DoorOK, Connect
    <2>5. HistoryOK'
      BY <1>3 DEF TypeOK, HistoryOK, Connect, history, bounds
    <2> QED
      BY <1>3, <2>2, <2>4, <2>5 DEF TypeOK, PagesOK, ServerOK, Connect
  <1>4. ASSUME Crash PROVE TypeOK'
    <2>1. Unknown \in [todo : Ids \cup {Null}, name : Users \cup {NoUser}, known : BOOLEAN]
      BY DEF Unknown
    <2>2. DoorOK'
      <3>1. /\ toDoor' \in Seq(Messages) /\ puts' \in Seq(Puts)
            /\ cache' \in [todo : Ids \cup {Null}, name : Users \cup {NoUser}, known : BOOLEAN]
        BY <1>1, <1>4, <2>1 DEF Crash
      <3>0. Len(puts') = 0 /\ applied' = 0
        BY <1>1, <1>4 DEF Crash
      <3>2. applied' \in 0 .. Len(puts')
        BY <3>0
      <3>4. link' \in {"up", "down"} /\ alive' \in BOOLEAN
        BY <1>4 DEF Crash
      <3>3. calls' \in Seq(Calls)
        BY <1>4 DEF TypeOK, DoorOK, Crash
      <3> QED
        BY <3>1, <3>2, <3>3, <3>4 DEF DoorOK
    <2>3. HistoryOK'
      BY <1>t, <1>4 DEF TypeOK, HistoryOK, Crash, history
    <2> QED
      BY <1>4, <2>2, <2>3 DEF TypeOK, PagesOK, ServerOK, Crash
  <1>5. ASSUME Restart PROVE TypeOK'
    BY <1>5 DEF Restart, TypeOK, PagesOK, ServerOK, DoorOK, HistoryOK, history, bounds
  <1> QED
    BY <1>2, <1>3, <1>4, <1>5

-----------------------------------------------------------------------------
(* The invariant Base. *)

\* A step that leaves the door, the server and the fates alone.
LEMMA CloseTabShape ==
    ASSUME TypeOK, NEW u \in Users, CloseTab(u)
    PROVE  /\ TypeOK'
           /\ up' = [up EXCEPT ![u] = <<>>]
           /\ UNCHANGED <<issued, srv, toDoor, link, alive, cache, puts, applied, calls>>
           /\ UNCHANGED <<done, arrived, fate, clean, drops, crashes, beats>>
  <1>1. /\ up' = [up EXCEPT ![u] = <<>>]
        /\ UNCHANGED <<issued, srv, toDoor, link, alive, cache, puts, applied, calls>>
        /\ UNCHANGED <<done, arrived, fate, clean, drops, crashes, beats>>
    BY DEF CloseTab, client, history, bounds
  <1>2. PagesOK'
    <2>1. <<>> \in Seq(PagePuts)
      OBVIOUS
    <2> QED
      BY <1>1, <2>1 DEF TypeOK, PagesOK
  <1> QED
    BY <1>1, <1>2 DEF TypeOK, ServerOK, DoorOK, HistoryOK

\* A heartbeat keeps the types.
LEMMA HeartbeatType ==
    ASSUME Base, Heartbeat
    PROVE  /\ TypeOK' /\ Len(puts) \in Nat /\ Len(puts') = Len(puts) + 1
           /\ \A k \in 1 .. Len(puts) : puts'[k] = puts[k]
           /\ puts'[Len(puts) + 1].key = "time"
  <1>1. /\ Put("time", Null) \in Puts /\ Put("time", Null).key = "time"
        /\ Idles(Append(puts, Put("time", Null)))
        /\ beats < MaxBeats /\ beats' = beats + 1
        /\ UNCHANGED <<issued, up, srv, toDoor, link, alive, cache, applied, arrived,
                       clean, drops, crashes>>
    BY HeartbeatShape
  <1>2. /\ puts \in Seq(Puts) /\ applied \in 0 .. Len(puts)
        /\ beats \in 0 .. MaxBeats /\ MaxBeats \in Nat
    BY MailboxAssumption DEF Base, TypeOK, DoorOK, HistoryOK
  <1>3. /\ puts' \in Seq(Puts) /\ Len(puts') = Len(puts) + 1 /\ Len(puts) \in Nat
        /\ \A k \in 1 .. Len(puts) : puts'[k] = puts[k]
        /\ puts'[Len(puts) + 1].key = "time"
    BY <1>1, <1>2, AppendAt DEF Idles
  <1>4. applied' \in 0 .. Len(puts')
    BY <1>1, <1>2, <1>3
  <1>5. DoorOK'
    BY <1>1, <1>3, <1>4 DEF Base, TypeOK, DoorOK, Idles
  <1>6. HistoryOK'
    BY <1>1, <1>2 DEF Base, TypeOK, HistoryOK, Idles
  <1> QED
    BY <1>1, <1>3, <1>5, <1>6 DEF Base, TypeOK, PagesOK, ServerOK

\* Types are kept.
LEMMA NextType ==
    ASSUME Base, [Next]_vars
    PROVE  TypeOK'
  <1>0. TypeOK
    BY DEF Base
  <1>1. ASSUME NEW u \in Users, Writecom(u) PROVE TypeOK'
    BY <1>0, <1>1, WritecomType
  <1>2. ASSUME NEW u \in Users, CloseTab(u) PROVE TypeOK'
    BY <1>0, <1>2, CloseTabShape
  <1>3. ASSUME NEW u \in Users, ServePage(u) PROVE TypeOK'
    BY <1>0, <1>3, ServePageType
  <1>4. CASE ServeDoor
    BY <1>0, <1>4, ServeDoorType
  <1>5. CASE Receive
    BY <1>5, ReceiveType
  <1>6. CASE Heartbeat
    BY <1>6, HeartbeatType
  <1>7. CASE Drop \/ Connect \/ Crash \/ Restart
    BY <1>0, <1>7, LinkSteps
  <1>8. CASE UNCHANGED vars
    BY <1>0, <1>8 DEF vars, client, history, bounds, TypeOK, PagesOK, ServerOK, DoorOK, HistoryOK
  <1> QED
    BY <1>1, <1>2, <1>3, <1>4, <1>5, <1>6, <1>7, <1>8 DEF Next

\* The acknowledgements stay those of the first outstanding writes.
LEMMA NextAcked ==
    ASSUME Base, [Next]_vars
    PROVE  Acked'
  <1>t. /\ TypeOK /\ Acked /\ toDoor \in Seq(Messages) /\ puts \in Seq(Puts)
        /\ applied \in 0 .. Len(puts) /\ Len(puts) \in Nat /\ applied \in Nat
    BY DEF Base, TypeOK, DoorOK
  <1>1. ASSUME UNCHANGED <<toDoor, puts, applied>> PROVE Acked'
    BY <1>t, <1>1 DEF Acked
  <1>2. ASSUME NEW u \in Users, ServePage(u) PROVE Acked'
    <2>1. UNCHANGED <<puts, applied>>
      BY <1>2 DEF ServePage, client
    <2>2. /\ toDoor' = IF link = "up"
                       THEN Append(toDoor, Update(up[u][1].key, up[u][1].val)) ELSE toDoor
          /\ up[u] # <<>>
      BY <1>t, <1>2, ServePageType DEF ServePage
    <2>3. /\ Update(up[u][1].key, up[u][1].val) \in Messages
          /\ Update(up[u][1].key, up[u][1].val).kind # "ack"
      BY <1>t, <2>2, PageHead DEF Update, TypeOK
    <2>4. AckedBy(Append(toDoor, Update(up[u][1].key, up[u][1].val)), puts, applied)
      BY <1>t, <2>3, AckedOther DEF Acked
    <2> QED
      BY <1>t, <2>1, <2>2, <2>4 DEF Acked
  <1>3. CASE ServeDoor
    <2>1. /\ Ack(puts[applied + 1]) \in Messages /\ applied' = applied + 1
          /\ toDoor' = Append(toDoor, Ack(puts[applied + 1])) /\ UNCHANGED puts
      BY <1>t, <1>3, ServeDoorType DEF ServeDoor
    <2>2. AckedBy(Append(toDoor, Ack(puts[applied + 1])), puts, applied + 1)
      BY <1>t, <2>1, AckedNext DEF Acked
    <2> QED
      BY <2>1, <2>2 DEF Acked
  <1>4. CASE Receive
    <2>1. toDoor # <<>> /\ toDoor' = Tail(toDoor) /\ (AckTaken \/ Learnt)
      BY <1>4, ReceiveShape
    <2>2. CASE AckTaken
      BY <2>2 DEF AckTaken, Acked
    <2>3. CASE Learnt
      <3>1. toDoor[1].kind # "ack" /\ applied' = applied
        BY <2>3 DEF Learnt
      <3>2. AckedBy(Tail(toDoor), puts, applied)
        BY <1>t, <2>1, <3>1, AckedReceived DEF Acked
      <3>3. \A i \in 1 .. applied : puts'[i] = puts[i]
        <4>1. CASE Idles(puts)
          BY <4>1 DEF Idles
        <4>2. CASE cache'.todo # Null /\ Handles(cache'.todo, puts)
          <5>1. PICK w \in Seq(Puts) : puts' = puts \o w
            BY <4>2 DEF Handles
          <5>2. \A k \in 1 .. Len(puts) : puts'[k] = puts[k]
            BY <1>t, <5>1, ConcatAt
          <5> QED
            BY <1>t, <5>2
        <4> QED
          BY <2>3, <4>1, <4>2 DEF Learnt
      <3> QED
        BY <1>t, <2>1, <3>1, <3>2, <3>3, AckedMore DEF Acked
    <2> QED
      BY <2>1, <2>2, <2>3
  <1>5. CASE Heartbeat
    <2>1. UNCHANGED <<toDoor, applied>> /\ \A i \in 1 .. Len(puts) : puts'[i] = puts[i]
      BY <1>5, HeartbeatShape, HeartbeatType
    <2>2. \A i \in 1 .. applied : puts'[i] = puts[i]
      BY <1>t, <2>1
    <2> QED
      BY <1>t, <2>1, <2>2, AckedMore DEF Acked
  <1>6. CASE Drop \/ Crash
    <2>1. toDoor' = <<>> /\ applied' = 0
      BY <1>6 DEF Drop, Crash
    <2>2. toDoor' \in Seq(Messages) /\ \A k \in 1 .. Len(toDoor') : toDoor'[k].kind # "ack"
      BY <2>1
    <2>3. AckedBy(toDoor', puts', 0)
      BY <2>2, AckedNone
    <2> QED
      BY <2>1, <2>3 DEF Acked
  <1>7. CASE Connect
    <2>1. toDoor' = <<Snapshot(srv)>> /\ applied' = 0
      BY <1>7 DEF Connect, Base, Linked
    <2>2. Snapshot(srv) \in Messages /\ Snapshot(srv).kind = "snapshot"
      BY <1>t, <1>7, LinkSteps
    <2>3. /\ <<Snapshot(srv)>> \in Seq(Messages) /\ Len(<<Snapshot(srv)>>) = 1
          /\ <<Snapshot(srv)>>[1] = Snapshot(srv)
      BY <2>2, SingleAt
    <2>4. toDoor' \in Seq(Messages) /\ \A k \in 1 .. Len(toDoor') : toDoor'[k].kind # "ack"
      BY <2>1, <2>2, <2>3
    <2>5. AckedBy(toDoor', puts', 0)
      BY <2>4, AckedNone
    <2> QED
      BY <2>1, <2>5 DEF Acked
  <1>8. CASE Restart \/ UNCHANGED vars
    BY <1>1, <1>8 DEF Restart, vars, client
  <1>9. ASSUME NEW u \in Users, Writecom(u) \/ CloseTab(u) PROVE Acked'
    BY <1>1, <1>9 DEF Writecom, CloseTab, client
  <1> QED
    BY <1>2, <1>3, <1>4, <1>5, <1>6, <1>7, <1>8, <1>9 DEF Next

\* A connection still starts with a snapshot.
LEMMA NextLinked ==
    ASSUME Base, [Next]_vars
    PROVE  Linked'
  <1>t. /\ TypeOK /\ Linked /\ toDoor \in Seq(Messages) /\ Len(toDoor) \in Nat
        /\ link \in {"up", "down"}
    BY DEF Base, TypeOK, DoorOK
  <1>1. ASSUME UNCHANGED <<toDoor, link, cache, applied>>, ~alive' => ~alive PROVE Linked'
    BY <1>t, <1>1 DEF Linked
  <1>2. ASSUME NEW m \in Messages, m.kind # "snapshot", link = "up", toDoor' = Append(toDoor, m),
               UNCHANGED <<link, alive, cache>>
        PROVE  Linked'
    <2>1. /\ Len(toDoor') = Len(toDoor) + 1 /\ toDoor'[Len(toDoor) + 1] = m
          /\ \A k \in 1 .. Len(toDoor) : toDoor'[k] = toDoor[k]
      BY <1>t, <1>2, AppendAt
    <2>2. \A k \in 2 .. Len(toDoor') : toDoor'[k].kind # "snapshot"
      BY <1>t, <1>2, <2>1 DEF Linked
    <2>3. link' = "up" /\ ~cache'.known => toDoor' # <<>> /\ toDoor'[1].kind = "snapshot"
      <3> SUFFICES ASSUME ~cache.known
                   PROVE  toDoor' # <<>> /\ toDoor'[1].kind = "snapshot"
        BY <1>2
      <3>1. toDoor # <<>> /\ toDoor[1].kind = "snapshot"
        BY <1>t, <1>2 DEF Linked
      <3>2. 1 \in 1 .. Len(toDoor)
        BY <1>t, <3>1, HeadTail
      <3> QED
        BY <2>1, <3>1, <3>2, <1>t
    <2> QED
      BY <1>t, <1>2, <2>2, <2>3 DEF Linked
  <1>3. ASSUME NEW u \in Users, ServePage(u) PROVE Linked'
    <2>1. UNCHANGED <<link, alive, cache, applied>> /\ up[u] # <<>>
      BY <1>3 DEF ServePage, client
    <2>2. /\ toDoor' = IF link = "up"
                       THEN Append(toDoor, Update(up[u][1].key, up[u][1].val)) ELSE toDoor
      BY <1>t, <1>3, ServePageType
    <2>3. /\ Update(up[u][1].key, up[u][1].val) \in Messages
          /\ Update(up[u][1].key, up[u][1].val).kind # "snapshot"
      BY <1>t, <2>1, PageHead DEF Update, TypeOK
    <2> QED
      BY <1>1, <1>2, <2>1, <2>2, <2>3
  <1>4. CASE ServeDoor
    <2>1. /\ Ack(puts[applied + 1]) \in Messages /\ link = "up"
          /\ toDoor' = Append(toDoor, Ack(puts[applied + 1])) /\ UNCHANGED <<link, alive, cache>>
      BY <1>t, <1>4, ServeDoorType DEF ServeDoor
    <2>2. Ack(puts[applied + 1]).kind # "snapshot"
      BY DEF Ack
    <2> QED
      BY <1>2, <2>1, <2>2
  <1>5. CASE Receive
    <2>1. /\ toDoor # <<>> /\ toDoor' = Tail(toDoor) /\ UNCHANGED <<link, alive>>
          /\ AckTaken \/ Learnt
      BY <1>5, ReceiveShape
    <2>2. link = "up"
      BY <1>t, <2>1 DEF Linked
    <2>3. \A k \in 1 .. Len(toDoor') : toDoor'[k].kind # "snapshot"
      <3>1. Len(toDoor') = Len(toDoor) - 1 /\ \A k \in 1 .. Len(toDoor) - 1 : toDoor'[k] = toDoor[k + 1]
        BY <1>t, <2>1, HeadTail
      <3>2. \A k \in 1 .. Len(toDoor) - 1 : k + 1 \in 2 .. Len(toDoor)
        BY <1>t
      <3> QED
        BY <1>t, <3>1, <3>2 DEF Linked
    <2>4. cache'.known
      <3>1. CASE AckTaken
        <4>1. cache.known
          BY <1>t, <2>2, <3>1 DEF AckTaken, Linked
        <4> QED
          BY <3>1, <4>1 DEF AckTaken, Base, TypeOK, DoorOK
      <3>2. CASE Learnt
        BY <3>2 DEF Learnt
      <3> QED
        BY <2>1, <3>1, <3>2
    <2>5. Len(toDoor') \in Nat
      BY <2>1, <1>t, HeadTail
    <2> QED
      BY <1>t, <2>1, <2>2, <2>3, <2>4, <2>5 DEF Linked
  <1>6. CASE Heartbeat
    BY <1>1, <1>6, HeartbeatShape
  <1>7. CASE Drop \/ Crash
    <2>1. toDoor' = <<>> /\ applied' = 0 /\ link' = "down"
      BY <1>7 DEF Drop, Crash
    <2> QED
      BY <2>1 DEF Linked
  <1>8. CASE Connect
    <2>1. toDoor' = <<Snapshot(srv)>> /\ link' = "up" /\ alive' = alive /\ alive
      BY <1>8 DEF Connect
    <2>2. Snapshot(srv) \in Messages /\ Snapshot(srv).kind = "snapshot"
      BY <1>t, <1>8, LinkSteps
    <2>3. /\ Len(toDoor') = 1 /\ toDoor'[1] = Snapshot(srv) /\ toDoor' # <<>>
      BY <2>1, <2>2, SingleAt
    <2>4. 2 .. 1 = {}
      OBVIOUS
    <2> QED
      BY <2>1, <2>2, <2>3, <2>4 DEF Linked
  <1>9. CASE Restart \/ UNCHANGED vars
    <2>1. UNCHANGED <<toDoor, link, cache, applied>> /\ (~alive' => ~alive)
      BY <1>9 DEF Restart, vars, client
    <2> QED
      BY <1>1, <2>1
  <1>10. ASSUME NEW u \in Users, Writecom(u) \/ CloseTab(u) PROVE Linked'
    BY <1>1, <1>10 DEF Writecom, CloseTab, client
  <1> QED
    BY <1>3, <1>4, <1>5, <1>6, <1>7, <1>8, <1>9, <1>10 DEF Next

\* A command that arrived has arrived for good; but for the command a person
\* gives and the one a page hands over, what is not sent or has not arrived
\* stays so.
LEMMA FatesMove ==
    ASSUME Base, [Next]_vars
    PROVE  /\ \A t \in Ids : HasArrived(t) => ArrivedIn(fate', t)
           /\ \A t \in Ids :
                fate[t] \in {"none", "sent"} =>
                  \/ fate'[t] = fate[t]
                  \/ /\ fate[t] = "none" /\ t = Len(issued) + 1
                     /\ \E u \in Users : Writecom(u)
                  \/ \E u \in Users : /\ ServePage(u) /\ up[u] # <<>>
                                      /\ up[u][1].key = "todo" /\ up[u][1].val = t
  <1>t. /\ TypeOK /\ PagesOK /\ ServerOK /\ DoorOK /\ HistoryOK
        /\ fate \in [Ids -> {"none", "sent", "stored", "overwritten", "wiped", "done"}]
        /\ Len(issued) \in Nat
    BY DEF Base, TypeOK, HistoryOK, PagesOK
  <1>1. ASSUME UNCHANGED fate
        PROVE  /\ \A t \in Ids : HasArrived(t) => ArrivedIn(fate', t)
               /\ \A t \in Ids : fate'[t] = fate[t]
    BY <1>1 DEF HasArrived, ArrivedIn
  <1>2. ASSUME NEW u \in Users, Writecom(u)
        PROVE  /\ \A t \in Ids : HasArrived(t) => ArrivedIn(fate', t)
               /\ \A t \in Ids : \/ fate'[t] = fate[t]
                                 \/ fate[t] = "none" /\ t = Len(issued) + 1
    <2>1. Len(issued) + 1 \in Ids /\ fate' = [fate EXCEPT ![Len(issued) + 1] = "sent"]
      BY <1>t, <1>2, WritecomType
    <2>2. fate[Len(issued) + 1] = "none"
      <3>1. ~(Len(issued) + 1 <= Len(issued))
        BY <1>t
      <3> QED
        BY <2>1, <3>1 DEF Base, InFlight
    <2> QED
      BY <1>t, <2>1, <2>2 DEF HasArrived, ArrivedIn
  <1>3. ASSUME NEW u \in Users, ServePage(u)
        PROVE  /\ \A t \in Ids : HasArrived(t) => ArrivedIn(fate', t)
               /\ \A t \in Ids :
                    fate[t] \in {"none", "sent"} =>
                      \/ fate'[t] = fate[t]
                      \/ up[u] # <<>> /\ up[u][1].key = "todo" /\ up[u][1].val = t
    <2>0. up[u] # <<>>
      BY <1>3 DEF ServePage
    <2>1. CASE up[u][1].key = "todo"
      <3>1. PICK v \in Ids : v = up[u][1].val
        BY <1>t, <2>0, <2>1, PageHead
      <3>2. fate' = [Replaced(fate, "overwritten") EXCEPT ![v] = "stored"]
        BY <1>t, <1>3, <2>1, <3>1, ServePageType
      <3>3. /\ Replaced(fate, "overwritten") \in [Ids -> {"none", "sent", "stored", "overwritten", "wiped", "done"}]
            /\ \A t \in Ids : \/ Replaced(fate, "overwritten")[t] = fate[t]
                              \/ fate[t] = "stored" /\ Replaced(fate, "overwritten")[t] = "overwritten"
        BY <1>t, ReplacedType
      <3>4. fate'[v] = "stored" /\ \A t \in Ids \ {v} : fate'[t] = Replaced(fate, "overwritten")[t]
        BY <3>2, <3>3
      <3> QED
        BY <1>t, <2>0, <2>1, <3>1, <3>3, <3>4 DEF HasArrived, ArrivedIn
    <2>2. CASE up[u][1].key # "todo"
      BY <1>t, <1>1, <1>3, <2>2, ServePageType
    <2> QED
      BY <2>1, <2>2
  <1>4. ASSUME ServeDoor
        PROVE  /\ \A t \in Ids : HasArrived(t) => ArrivedIn(fate', t)
               /\ \A t \in Ids : fate[t] \in {"none", "sent"} => fate'[t] = fate[t]
    <2>1. fate' = IF puts[applied + 1].key = "todo" THEN Replaced(fate, "wiped") ELSE fate
      BY <1>t, <1>4, ServeDoorType
    <2>2. \A t \in Ids : \/ Replaced(fate, "wiped")[t] = fate[t]
                         \/ fate[t] = "stored" /\ Replaced(fate, "wiped")[t] = "wiped"
      BY <1>t, ReplacedType
    <2> QED
      BY <2>1, <2>2 DEF HasArrived, ArrivedIn
  <1>5. ASSUME Receive
        PROVE  /\ \A t \in Ids : HasArrived(t) => ArrivedIn(fate', t)
               /\ \A t \in Ids : fate[t] \in {"none", "sent"} => fate'[t] = fate[t]
    <2>1. (AckTaken \/ Learnt) /\ toDoor # <<>>
      BY <1>5, ReceiveShape
    <2>2. CASE AckTaken \/ Idles(puts)
      BY <1>1, <2>2 DEF AckTaken, Idles
    <2>3. CASE Learnt /\ Handles(cache'.todo, puts) /\ cache'.todo # Null /\ Bears(toDoor[1], cache'.todo)
      <3>1. PICK s \in Ids : s = cache'.todo
        BY <2>3 DEF Learnt
      <3>2. Handles(s, puts) /\ Bears(toDoor[1], s)
        BY <2>3, <3>1
      <3>3. fate'[s] = "done" /\ \A t \in Ids \ {s} : fate'[t] = fate[t]
        BY <1>t, <3>2, HandlesPuts
      <3>4. 1 \in 1 .. Len(toDoor)
        BY <2>1, <1>t, HeadTail DEF DoorOK
      <3>5. HasArrived(s)
        BY <3>2, <3>4 DEF Base, Heard
      <3> QED
        BY <3>3, <3>5 DEF HasArrived, ArrivedIn
    <2> QED
      BY <2>1, <2>2, <2>3 DEF Learnt
  <1>6. CASE Heartbeat
    BY <1>1, <1>6, HeartbeatShape DEF Idles
  <1>7. CASE Drop \/ Connect \/ Crash \/ Restart \/ UNCHANGED vars
    BY <1>1, <1>7 DEF Drop, Connect, Crash, Restart, vars, history
  <1>8. ASSUME NEW u \in Users, CloseTab(u) PROVE UNCHANGED fate
    BY <1>t, <1>8, CloseTabShape
  <1> QED
    BY <1>1, <1>2, <1>3, <1>4, <1>5, <1>6, <1>7, <1>8 DEF Next

\* Writes that are not touched stay in flight as they were.
LEMMA InFlightSame ==
    ASSUME Base, UNCHANGED <<up, issued>>,
           \A t \in Ids : fate[t] \in {"none", "sent"} => fate'[t] = fate[t],
           \A t \in Ids : HasArrived(t) => ArrivedIn(fate', t)
    PROVE  InFlight'
  <1>1. \A t \in Ids : fate'[t] # "none" => t <= Len(issued')
    <2> TAKE t \in Ids
    <2> QED
      BY DEF Base, InFlight
  <1>2. ASSUME NEW u \in Users, NEW j \in 1 .. Len(up[u]), up[u][j].key = "todo"
        PROVE  /\ fate'[up[u][j].val] = "sent"
               /\ \A v \in Users : \A k \in 1 .. Len(up[v]) :
                    up[v][k].key = "todo" /\ up[v][k].val = up[u][j].val => u = v /\ j = k
    <2>1. up[u][j] \in PagePuts
      <3>1. up[u] \in Seq(PagePuts)
        BY DEF Base, TypeOK, PagesOK
      <3> QED
        BY <3>1, ElementOf
    <2>2. up[u][j].val \in Ids
      BY <1>2, <2>1 DEF PagePuts
    <2> QED
      BY <1>2, <2>2 DEF Base, InFlight
  <1> QED
    BY <1>1, <1>2 DEF InFlight

\* Every command on its way stays on its way once.
LEMMA NextInFlight ==
    ASSUME Base, [Next]_vars
    PROVE  InFlight'
  <1>t. /\ TypeOK /\ InFlight /\ up \in [Users -> Seq(PagePuts)] /\ Len(issued) \in Nat
        /\ fate \in [Ids -> {"none", "sent", "stored", "overwritten", "wiped", "done"}]
        /\ PagesOK
    BY DEF Base, TypeOK, PagesOK, HistoryOK
  <1>f. \A t \in Ids : HasArrived(t) => ArrivedIn(fate', t)
    BY FatesMove
  <1>v. ASSUME NEW v \in Users, NEW k \in 1 .. Len(up[v]), up[v][k].key = "todo"
        PROVE  up[v][k].val \in Ids /\ up[v][k].val <= Len(issued) /\ fate[up[v][k].val] = "sent"
    <2>1. up[v][k] \in PagePuts
      BY <1>t, ElementOf
    <2>2. up[v][k].val \in Ids
      BY <1>v, <2>1 DEF PagePuts
    <2> QED
      BY <1>t, <1>v, <2>2 DEF InFlight
  <1>1. ASSUME NEW u \in Users, Writecom(u) PROVE InFlight'
    <2> DEFINE new == Len(issued) + 1
    <2>1. /\ new \in Ids /\ Len(issued') = new
          /\ fate' = [fate EXCEPT ![new] = "sent"]
          /\ up' = [up EXCEPT ![u] = up'[u]]
          /\ Len(up'[u]) = Len(up[u]) + 2 /\ Len(up[u]) \in Nat
          /\ \A k \in 1 .. Len(up[u]) : up'[u][k] = up[u][k]
          /\ up'[u][Len(up[u]) + 1] = Put("todo", new)
          /\ up'[u][Len(up[u]) + 2] = Put("name", u)
      BY <1>t, <1>1, WritecomType
    <2>2. \A v \in Users \ {u} : up'[v] = up[v]
      BY <1>t, <2>1
    <2>3. ASSUME NEW v \in Users, NEW k \in 1 .. Len(up'[v]), up'[v][k].key = "todo"
          PROVE  \/ k \in 1 .. Len(up[v]) /\ up'[v][k] = up[v][k]
                 \/ v = u /\ k = Len(up[u]) + 1 /\ up'[v][k].val = new
      <3>1. CASE v = u
        <4>1. k \in 1 .. Len(up[u]) \/ k = Len(up[u]) + 1 \/ k = Len(up[u]) + 2
          BY <2>1, <3>1
        <4>2. k # Len(up[u]) + 2
          BY <2>1, <2>3, <3>1 DEF Put
        <4>3. CASE k = Len(up[u]) + 1
          BY <2>1, <3>1, <4>3 DEF Put
        <4> QED
          BY <2>1, <3>1, <4>1, <4>2, <4>3
      <3>2. CASE v # u
        BY <2>2, <3>2
      <3> QED
        BY <3>1, <3>2
    <2>4. \A t \in Ids : fate'[t] # "none" => t <= Len(issued')
      <3> TAKE t \in Ids
      <3>1. t \in Nat
        BY MailboxAssumption DEF Ids
      <3>2. CASE t = new
        BY <2>1, <3>2, <1>t
      <3>3. CASE t # new
        <4>1. fate'[t] = fate[t]
          BY <1>t, <2>1, <3>3
        <4>2. fate[t] # "none" => t <= Len(issued)
          BY <1>t DEF InFlight
        <4> QED
          BY <4>1, <4>2, <2>1, <1>t, <3>1
      <3> QED
        BY <3>2, <3>3
    <2>5. ASSUME NEW v \in Users, NEW k \in 1 .. Len(up'[v]), up'[v][k].key = "todo"
          PROVE  /\ fate'[up'[v][k].val] = "sent"
                 /\ k \in 1 .. Len(up[v]) /\ up'[v][k] = up[v][k] => up'[v][k].val # new
      <3>1. CASE k \in 1 .. Len(up[v]) /\ up'[v][k] = up[v][k]
        <4>1. /\ up[v][k].val \in Ids /\ up[v][k].val <= Len(issued)
              /\ fate[up[v][k].val] = "sent"
          BY <1>v, <2>5, <3>1
        <4>2. up[v][k].val # new
          BY <4>1, <1>t
        <4> QED
          BY <1>t, <2>1, <3>1, <4>1, <4>2
      <3>2. CASE ~(k \in 1 .. Len(up[v]) /\ up'[v][k] = up[v][k])
        <4>1. up'[v][k].val = new
          BY <2>3, <2>5, <3>2
        <4> QED
          BY <1>t, <2>1, <3>2, <4>1
      <3> QED
        BY <3>1, <3>2
    <2>6. ASSUME NEW v \in Users, NEW k \in 1 .. Len(up'[v]), up'[v][k].key = "todo",
                 NEW w \in Users, NEW l \in 1 .. Len(up'[w]), up'[w][l].key = "todo",
                 up'[v][k].val = up'[w][l].val
          PROVE  v = w /\ k = l
      <3>1. CASE k \in 1 .. Len(up[v]) /\ up'[v][k] = up[v][k]
        <4>1. up'[v][k].val # new
          BY <2>5, <2>6, <3>1
        <4>2. l \in 1 .. Len(up[w]) /\ up'[w][l] = up[w][l]
          BY <2>3, <2>6, <4>1
        <4>3. up[v][k].key = "todo" /\ up[w][l].key = "todo" /\ up[w][l].val = up[v][k].val
          BY <2>6, <3>1, <4>2
        <4> QED
          BY <1>t, <3>1, <4>2, <4>3 DEF InFlight
      <3>2. CASE ~(k \in 1 .. Len(up[v]) /\ up'[v][k] = up[v][k])
        <4>1. v = u /\ k = Len(up[u]) + 1 /\ up'[v][k].val = new
          BY <2>3, <2>6, <3>2
        <4>2. ~(l \in 1 .. Len(up[w]) /\ up'[w][l] = up[w][l])
          BY <2>5, <2>6, <4>1
        <4>3. w = u /\ l = Len(up[u]) + 1
          BY <2>3, <2>6, <4>2
        <4> QED
          BY <4>1, <4>3
      <3> QED
        BY <3>1, <3>2
    <2> QED
      BY <2>4, <2>5, <2>6 DEF InFlight
  <1>2. ASSUME NEW u \in Users, NEW n \in {0, 1}, UNCHANGED issued,
               NEW s \in Seq(PagePuts), up' = [up EXCEPT ![u] = s],
               n = 1 => Len(up[u]) \in Nat \ {0},
               \A k \in 1 .. Len(s) : k + n \in 1 .. Len(up[u]) /\ s[k] = up[u][k + n],
               \A t \in Ids : \/ fate[t] \in {"none", "sent"} => fate'[t] = fate[t]
                              \/ n = 1 /\ up[u][1].key = "todo" /\ up[u][1].val = t
        PROVE  InFlight'
    <2>1. up'[u] = s /\ \A v \in Users \ {u} : up'[v] = up[v]
      BY <1>t, <1>2
    <2> DEFINE old(v, k) == IF v = u THEN k + n ELSE k
    <2>2. ASSUME NEW v \in Users, NEW k \in 1 .. Len(up'[v])
          PROVE  /\ old(v, k) \in 1 .. Len(up[v]) /\ up'[v][k] = up[v][old(v, k)]
                 /\ n = 1 /\ v = u => old(v, k) # 1
      <3>1. CASE v = u
        <4>1. k \in 1 .. Len(s) /\ old(v, k) = k + n
          BY <2>1, <3>1
        <4>2. k \in Nat /\ k > 0
          BY <4>1
        <4> QED
          BY <1>2, <2>1, <3>1, <4>1, <4>2
      <3>2. CASE v # u
        BY <2>1, <3>2
      <3> QED
        BY <3>1, <3>2
    <2>3. ASSUME NEW v \in Users, NEW k \in 1 .. Len(up'[v]), up'[v][k].key = "todo"
          PROVE  fate'[up'[v][k].val] = "sent"
      <3>1. /\ old(v, k) \in 1 .. Len(up[v]) /\ up'[v][k] = up[v][old(v, k)]
            /\ n = 1 /\ v = u => old(v, k) # 1
        BY <2>2
      <3> HIDE DEF old
      <3>2. PICK j \in 1 .. Len(up[v]) : j = old(v, k)
        BY <3>1
      <3>3. up[v][j].val \in Ids /\ fate[up[v][j].val] = "sent"
        BY <1>v, <2>3, <3>1, <3>2
      <3>4. ~(n = 1 /\ up[u][1].key = "todo" /\ up[u][1].val = up[v][j].val)
        <4> SUFFICES ASSUME n = 1, up[u][1].key = "todo", up[u][1].val = up[v][j].val
                     PROVE  FALSE
          OBVIOUS
        <4>1. 1 \in 1 .. Len(up[u])
          BY <1>2
        <4>2. v = u /\ j = 1
          BY <1>t, <4>1, <2>3, <3>1, <3>2 DEF InFlight
        <4> QED
          BY <4>2, <3>1, <3>2
      <3> QED
        BY <1>2, <3>1, <3>2, <3>3, <3>4
    <2>4. ASSUME NEW v \in Users, NEW k \in 1 .. Len(up'[v]), up'[v][k].key = "todo",
                 NEW w \in Users, NEW l \in 1 .. Len(up'[w]), up'[w][l].key = "todo",
                 up'[v][k].val = up'[w][l].val
          PROVE  v = w /\ k = l
      <3>1. /\ old(v, k) \in 1 .. Len(up[v]) /\ up'[v][k] = up[v][old(v, k)]
            /\ old(w, l) \in 1 .. Len(up[w]) /\ up'[w][l] = up[w][old(w, l)]
        BY <2>2
      <3>2. v = w /\ old(v, k) = old(w, l)
        <4> HIDE DEF old
        <4> QED
          BY <1>t, <2>4, <3>1 DEF InFlight
      <3>3. CASE v = u
        BY <3>2, <3>3
      <3>4. CASE v # u
        BY <3>2, <3>4
      <3> QED
        BY <3>3, <3>4
    <2>5. \A t \in Ids : fate'[t] # "none" => t <= Len(issued')
      <3> TAKE t \in Ids
      <3>1. CASE n = 1 /\ up[u][1].key = "todo" /\ up[u][1].val = t
        <4>1. 1 \in 1 .. Len(up[u])
          BY <1>2, <3>1
        <4> QED
          BY <1>v, <1>2, <3>1, <4>1
      <3>2. CASE fate[t] \in {"none", "sent"} => fate'[t] = fate[t]
        BY <1>t, <1>2, <3>2 DEF InFlight
      <3> QED
        BY <1>2, <3>1, <3>2
    <2> QED
      BY <2>3, <2>4, <2>5 DEF InFlight
  <1>3. ASSUME NEW u \in Users, ServePage(u) PROVE InFlight'
    <2>1. up[u] # <<>> /\ up' = [up EXCEPT ![u] = Tail(up[u])] /\ UNCHANGED issued
      BY <1>t, <1>3, ServePageType DEF ServePage
    <2>2. /\ Tail(up[u]) \in Seq(PagePuts) /\ Len(up[u]) \in Nat \ {0}
          /\ Len(Tail(up[u])) = Len(up[u]) - 1
          /\ \A k \in 1 .. Len(up[u]) - 1 : Tail(up[u])[k] = up[u][k + 1]
          /\ up[u][1].key = "todo" => up[u][1].val \in Ids
      BY <1>t, <2>1, PageHead
    <2>3. \A k \in 1 .. Len(Tail(up[u])) : k + 1 \in 1 .. Len(up[u]) /\ Tail(up[u])[k] = up[u][k + 1]
      BY <2>2
    <2>4. \A t \in Ids : \/ fate[t] \in {"none", "sent"} => fate'[t] = fate[t]
                         \/ up[u][1].key = "todo" /\ up[u][1].val = t
      <3>1. CASE up[u][1].key = "todo"
        <4>1. fate' = [Replaced(fate, "overwritten") EXCEPT ![up[u][1].val] = "stored"]
          BY <1>t, <1>3, <3>1, ServePageType
        <4>2. /\ Replaced(fate, "overwritten") \in [Ids -> {"none", "sent", "stored", "overwritten", "wiped", "done"}]
              /\ \A t \in Ids : \/ Replaced(fate, "overwritten")[t] = fate[t]
                                \/ fate[t] = "stored"
          BY <1>t, ReplacedType DEF TypeOK
        <4> QED
          BY <4>1, <4>2, <3>1, <2>2
      <3>2. CASE up[u][1].key # "todo"
        BY <1>t, <1>3, <3>2, ServePageType
      <3> QED
        BY <3>1, <3>2
    <2> QED
      BY <1>2, <2>1, <2>2, <2>3, <2>4
  <1>4. ASSUME NEW u \in Users, CloseTab(u) PROVE InFlight'
    <2>1. up' = [up EXCEPT ![u] = <<>>] /\ UNCHANGED <<issued, fate>>
      BY <1>t, <1>4, CloseTabShape
    <2>0. <<>> \in Seq(PagePuts) /\ Len(<<>>) = 0
      OBVIOUS
    <2>2. PICK s \in Seq(PagePuts) : s = <<>> /\ Len(s) = 0
      BY <2>0
    <2>3. /\ up' = [up EXCEPT ![u] = s] /\ 0 \in {0, 1} /\ 0 # 1
          /\ \A k \in 1 .. Len(s) : k + 0 \in 1 .. Len(up[u]) /\ s[k] = up[u][k + 0]
      BY <2>1, <2>2
    <2>4. \A t \in Ids : fate[t] \in {"none", "sent"} => fate'[t] = fate[t]
      BY <2>1
    <2> QED
      BY <1>2, <2>1, <2>3, <2>4
  <1>5. CASE ServeDoor \/ Receive \/ Heartbeat \/ Drop \/ Connect \/ Crash \/ Restart \/ UNCHANGED vars
    <2>1. UNCHANGED <<up, issued>>
      BY <1>5 DEF ServeDoor, Receive, Heartbeat, Drop, Connect, Crash, Restart, vars
    <2>2. \A t \in Ids : fate[t] \in {"none", "sent"} => fate'[t] = fate[t]
      <3> TAKE t \in Ids
      <3>1. ~\E u \in Users : Writecom(u)
        <4>1. \A u \in Users : Writecom(u) => issued' # issued
          <5> TAKE u \in Users
          <5>1. Writecom(u) => Len(issued') = Len(issued) + 1
            BY <1>t, WritecomType
          <5> QED
            BY <5>1, <1>t
        <4> QED
          BY <2>1, <4>1
      <3>2. ~\E u \in Users : ServePage(u) /\ up[u] # <<>>
        <4>1. \A u \in Users : ServePage(u) /\ up[u] # <<>> => up' # up
          <5> SUFFICES ASSUME NEW u \in Users, ServePage(u), up[u] # <<>>
                       PROVE  up' # up
            OBVIOUS
          <5>1. up'[u] = Tail(up[u])
            BY <1>t, ServePageType
          <5>2. Len(Tail(up[u])) = Len(up[u]) - 1 /\ Len(up[u]) \in Nat
            BY <1>t, PageHead
          <5>3. ASSUME Tail(up[u]) = up[u] PROVE FALSE
            <6>1. Len(up[u]) = Len(up[u]) - 1 /\ Len(up[u]) \in Nat
              BY <5>2, <5>3
            <6> QED
              BY <6>1
          <5> QED
            BY <5>1, <5>3
        <4> QED
          BY <2>1, <4>1
      <3> QED
        BY <3>1, <3>2, FatesMove
    <2> QED
      BY <1>f, <2>1, <2>2, InFlightSame
  <1> QED
    BY <1>1, <1>3, <1>4, <1>5 DEF Next

\* What the messages of the server say of todo.
LEMMA BearsWhat ==
    /\ \A key, val, t : Bears(Update(key, val), t) <=> key = "todo" /\ val = t
    /\ \A p, t : Bears(Ack(p), t) <=> p.key = "todo" /\ p.val = t
    /\ \A t : Bears(Snapshot(srv), t) <=> srv.todo = t
  BY DEF Bears, Update, Ack, Snapshot

\* Whatever anybody hears of has arrived.
LEMMA NextHeard ==
    ASSUME Base, [Next]_vars
    PROVE  Heard'
  <1>t. /\ TypeOK /\ Heard /\ toDoor \in Seq(Messages) /\ Len(toDoor) \in Nat
        /\ srv.todo \in Ids \cup {Null} /\ cache.todo \in Ids \cup {Null}
        /\ clean \subseteq Ids /\ done \in Seq(Ids) /\ Null \notin Ids
        /\ fate \in [Ids -> {"none", "sent", "stored", "overwritten", "wiped", "done"}]
    BY DEF Base, TypeOK, ServerOK, DoorOK, HistoryOK, Null, Ids
  <1>f. \A t \in Ids : HasArrived(t) => ArrivedIn(fate', t)
    BY FatesMove
  <1>d. \A k \in 1 .. Len(done) : done[k] \in Ids
    BY <1>t, ElementOf
  <1>1. ASSUME srv'.todo \in {srv.todo, Null} \/ ArrivedIn(fate', srv'.todo),
               cache'.todo \in {cache.todo, Null} \/ ArrivedIn(fate', cache'.todo),
               \A k \in 1 .. Len(toDoor') : \A t \in Ids : Bears(toDoor'[k], t) => ArrivedIn(fate', t),
               \A t \in clean' : t \in clean \/ ArrivedIn(fate', t),
               UNCHANGED done \/ (\E s \in Ids : done' = Append(done, s) /\ ArrivedIn(fate', s))
        PROVE  Heard'
    <2>1. srv'.todo # Null => ArrivedIn(fate', srv'.todo)
      BY <1>t, <1>f, <1>1 DEF Heard, HasArrived
    <2>2. cache'.todo # Null => ArrivedIn(fate', cache'.todo)
      BY <1>t, <1>f, <1>1 DEF Heard, HasArrived
    <2>3. \A t \in clean' : ArrivedIn(fate', t)
      BY <1>t, <1>f, <1>1 DEF Heard, HasArrived
    <2>4. \A k \in 1 .. Len(done') : ArrivedIn(fate', done'[k])
      <3>1. CASE UNCHANGED done
        BY <1>t, <1>f, <1>d, <3>1 DEF Heard, HasArrived
      <3>2. CASE \E s \in Ids : done' = Append(done, s) /\ ArrivedIn(fate', s)
        <4>1. PICK s \in Ids : done' = Append(done, s) /\ ArrivedIn(fate', s)
          BY <3>2
        <4>2. /\ Len(done') = Len(done) + 1 /\ Len(done) \in Nat /\ done'[Len(done) + 1] = s
              /\ \A k \in 1 .. Len(done) : done'[k] = done[k]
          BY <1>t, <4>1, AppendAt
        <4>3. \A k \in 1 .. Len(done) : ArrivedIn(fate', done[k])
          BY <1>t, <1>f, <1>d DEF Heard, HasArrived
        <4>4. \A k \in 1 .. Len(done') : k \in 1 .. Len(done) \/ k = Len(done) + 1
          BY <4>2
        <4> QED
          BY <4>1, <4>2, <4>3, <4>4
      <3> QED
        BY <1>1, <3>1, <3>2
    <2> QED
      BY <1>1, <2>1, <2>2, <2>3, <2>4 DEF Heard, HasArrived
  <1>2. \A k \in 1 .. Len(toDoor) : \A t \in Ids : Bears(toDoor[k], t) => ArrivedIn(fate', t)
    BY <1>t, <1>f DEF Heard, HasArrived
  <1>3. ASSUME NEW m \in Messages, toDoor' = Append(toDoor, m),
               \A t \in Ids : Bears(m, t) => ArrivedIn(fate', t)
        PROVE  \A k \in 1 .. Len(toDoor') : \A t \in Ids : Bears(toDoor'[k], t) => ArrivedIn(fate', t)
    <2>1. /\ Len(toDoor') = Len(toDoor) + 1 /\ toDoor'[Len(toDoor) + 1] = m
          /\ \A k \in 1 .. Len(toDoor) : toDoor'[k] = toDoor[k]
      BY <1>t, <1>3, AppendAt
    <2>2. \A k \in 1 .. Len(toDoor') : k \in 1 .. Len(toDoor) \/ k = Len(toDoor) + 1
      BY <1>t, <2>1
    <2> QED
      BY <1>2, <1>3, <2>1, <2>2
  <1>4. ASSUME NEW u \in Users, ServePage(u) PROVE Heard'
    <2>1. /\ up[u] # <<>> /\ UNCHANGED <<cache, done, link>>
          /\ toDoor' = IF link = "up"
                       THEN Append(toDoor, Update(up[u][1].key, up[u][1].val)) ELSE toDoor
      BY <1>t, <1>4, ServePageType DEF ServePage, client
    <2>2. /\ Update(up[u][1].key, up[u][1].val) \in Messages
          /\ up[u][1].key = "todo" => up[u][1].val \in Ids
      BY <1>t, <2>1, PageHead DEF TypeOK
    <2>3. up[u][1].key = "todo" => ArrivedIn(fate', up[u][1].val)
      <3> SUFFICES ASSUME up[u][1].key = "todo" PROVE ArrivedIn(fate', up[u][1].val)
        OBVIOUS
      <3>1. PICK v \in Ids : v = up[u][1].val
        BY <2>2
      <3>2. fate' = [Replaced(fate, "overwritten") EXCEPT ![v] = "stored"]
        BY <1>t, <1>4, <3>1, ServePageType
      <3>3. Replaced(fate, "overwritten") \in [Ids -> {"none", "sent", "stored", "overwritten", "wiped", "done"}]
        BY <1>t, ReplacedType DEF TypeOK
      <3>4. fate'[v] = "stored"
        BY <3>2, <3>3
      <3> QED
        BY <3>1, <3>4 DEF ArrivedIn
    <2>4. \A t \in Ids : Bears(Update(up[u][1].key, up[u][1].val), t) => ArrivedIn(fate', t)
      BY <2>3, BearsWhat DEF HasArrived, ArrivedIn
    <2>5. \A k \in 1 .. Len(toDoor') : \A t \in Ids : Bears(toDoor'[k], t) => ArrivedIn(fate', t)
      BY <1>2, <1>3, <2>1, <2>2, <2>4 DEF HasArrived, ArrivedIn
    <2>6. srv'.todo \in {srv.todo, Null} \/ ArrivedIn(fate', srv'.todo)
      BY <1>t, <1>4, <2>3, ServePageType DEF HasArrived, ArrivedIn
    <2>7. \A t \in clean' : t \in clean \/ ArrivedIn(fate', t)
      BY <1>t, <1>4, <2>3, ServePageType DEF HasArrived, ArrivedIn
    <2> QED
      BY <1>1, <2>1, <2>5, <2>6, <2>7 DEF HasArrived, ArrivedIn
  <1>5. CASE ServeDoor
    <2>1. /\ Ack(puts[applied + 1]) \in Messages /\ UNCHANGED <<cache, done, clean>>
          /\ toDoor' = Append(toDoor, Ack(puts[applied + 1]))
          /\ srv'.todo \in {srv.todo, Null} /\ puts[applied + 1] \in Puts
      BY <1>t, <1>5, ServeDoorType DEF ServeDoor
    <2>2. \A t \in Ids : ~Bears(Ack(puts[applied + 1]), t)
      BY <1>t, <2>1, BearsWhat DEF Puts
    <2>3. \A k \in 1 .. Len(toDoor') : \A t \in Ids : Bears(toDoor'[k], t) => ArrivedIn(fate', t)
      BY <1>3, <2>1, <2>2
    <2> QED
      BY <1>1, <2>1, <2>3
  <1>6. CASE Receive
    <2>1. /\ toDoor # <<>> /\ toDoor' = Tail(toDoor) /\ UNCHANGED <<srv, clean>>
          /\ AckTaken \/ Learnt
      BY <1>6, ReceiveShape
    <2>2. 1 \in 1 .. Len(toDoor)
      BY <1>t, <2>1, HeadTail
    <2>3. /\ Len(toDoor') = Len(toDoor) - 1
          /\ \A k \in 1 .. Len(toDoor) - 1 : toDoor'[k] = toDoor[k + 1] /\ k + 1 \in 1 .. Len(toDoor)
      BY <1>t, <2>1, HeadTail
    <2>4. \A k \in 1 .. Len(toDoor') : \A t \in Ids : Bears(toDoor'[k], t) => ArrivedIn(fate', t)
      BY <1>2, <2>3
    <2>5. cache'.todo \in {cache.todo, Null} \/ ArrivedIn(fate', cache'.todo)
      <3>1. CASE AckTaken
        BY <3>1 DEF AckTaken, Base, TypeOK, DoorOK
      <3>2. CASE Learnt
        <4>1. PICK t \in Ids \cup {Null} : t = cache'.todo
          BY <3>2 DEF Learnt
        <4>2. t \in Ids /\ Bears(toDoor[1], t) => ArrivedIn(fate', t)
          BY <1>2, <2>2 DEF HasArrived, ArrivedIn
        <4> QED
          BY <3>2, <4>1, <4>2 DEF Learnt, HasArrived, ArrivedIn
      <3> QED
        BY <2>1, <3>1, <3>2
    <2>6. UNCHANGED done \/ (\E s \in Ids : done' = Append(done, s) /\ ArrivedIn(fate', s))
      <3>1. CASE AckTaken \/ Idles(puts)
        BY <3>1 DEF AckTaken, Idles
      <3>2. CASE Learnt /\ Handles(cache'.todo, puts) /\ cache'.todo # Null /\ Bears(toDoor[1], cache'.todo)
        <4>1. PICK t \in Ids : t = cache'.todo
          BY <3>2 DEF Learnt
        <4>2. ArrivedIn(fate', t)
          BY <1>2, <2>2, <3>2, <4>1 DEF HasArrived, ArrivedIn
        <4>3. done' = Append(done, t)
          BY <3>2, <4>1 DEF Handles
        <4> QED
          BY <4>2, <4>3 DEF HasArrived, ArrivedIn
      <3> QED
        BY <2>1, <3>1, <3>2 DEF Learnt
    <2> QED
      BY <1>1, <2>1, <2>4, <2>5, <2>6
  <1>7. ASSUME UNCHANGED <<srv, cache, toDoor, clean, done>> PROVE Heard'
    BY <1>1, <1>2, <1>7
  <1>8. CASE Heartbeat
    BY <1>7, <1>8, HeartbeatShape DEF Idles
  <1>9. CASE Drop \/ Crash
    <2>1. toDoor' = <<>> /\ UNCHANGED <<srv, clean, done>> /\ cache'.todo \in {cache.todo, Null}
      BY <1>9 DEF Drop, Crash, history, Unknown
    <2> QED
      BY <1>1, <2>1
  <1>10. CASE Connect
    <2>1. toDoor' = <<Snapshot(srv)>> /\ UNCHANGED <<srv, cache, clean, done, fate>>
      BY <1>10 DEF Connect, history
    <2>2. Len(toDoor') = 1 /\ toDoor'[1] = Snapshot(srv)
      BY <2>1
    <2>3. \A t \in Ids : Bears(Snapshot(srv), t) => ArrivedIn(fate', t)
      BY <1>t, <2>1, BearsWhat DEF Heard, HasArrived, ArrivedIn
    <2>4. \A k \in 1 .. Len(toDoor') : \A t \in Ids : Bears(toDoor'[k], t) => ArrivedIn(fate', t)
      BY <2>2, <2>3 DEF HasArrived, ArrivedIn
    <2> QED
      BY <1>1, <2>1, <2>4
  <1>11. CASE Restart \/ UNCHANGED vars
    BY <1>7, <1>11 DEF Restart, vars, client, history
  <1>12. ASSUME NEW u \in Users, Writecom(u) \/ CloseTab(u) PROVE Heard'
    BY <1>7, <1>12 DEF Writecom, CloseTab, client, history
  <1> QED
    BY <1>4, <1>5, <1>6, <1>8, <1>9, <1>10, <1>11, <1>12 DEF Next

\* Clears are not lost by other writes.
LEMMA ClearingStays ==
    ASSUME Base, [Next]_vars, Clearing(puts)
    PROVE  \/ Clearing(puts') \/ Crash
           \/ Receive /\ AckTaken /\ puts[1].key = "todo"
  <1>t. TypeOK /\ puts \in Seq(Puts) /\ Len(puts) \in Nat
    BY DEF Base, TypeOK, DoorOK
  <1>0. PICK k \in 1 .. Len(puts) : puts[k].key = "todo"
    BY DEF Clearing
  <1>1. CASE UNCHANGED puts
    BY <1>1 DEF Clearing
  <1>2. ASSUME Len(puts') \in Nat, Len(puts') >= Len(puts),
               \A i \in 1 .. Len(puts) : puts'[i] = puts[i]
        PROVE  Clearing(puts')
    <2>1. k \in 1 .. Len(puts') /\ puts'[k].key = "todo"
      BY <1>t, <1>0, <1>2
    <2> QED
      BY <2>1 DEF Clearing
  <1>3. CASE Heartbeat
    <2>1. /\ Len(puts) \in Nat /\ Len(puts') = Len(puts) + 1
          /\ \A i \in 1 .. Len(puts) : puts'[i] = puts[i]
      BY <1>3, HeartbeatType
    <2> QED
      BY <1>2, <2>1
  <1>4. CASE Receive
    <2>1. AckTaken \/ Learnt
      BY <1>4, ReceiveShape
    <2>2. CASE AckTaken /\ puts[1].key # "todo"
      <3>1. puts # <<>> /\ puts' = Tail(puts) /\ k # 1
        BY <1>0, <2>2 DEF AckTaken
      <3>2. k - 1 \in 1 .. Len(puts) - 1 /\ (k - 1) + 1 = k
        BY <3>1, <1>t
      <3>3. puts'[k - 1] = puts[k] /\ k - 1 \in 1 .. Len(puts')
        BY <1>t, <3>1, <3>2, HeadTail
      <3>4. Clearing(puts')
        BY <1>0, <3>3 DEF Clearing
      <3> QED
        BY <3>4
    <2>3. CASE Learnt
      BY <1>1, <2>3 DEF Learnt, Idles
    <2> QED
      BY <1>4, <2>1, <2>2, <2>3
  <1>5. CASE ServeDoor \/ Drop \/ Connect \/ Restart \/ UNCHANGED vars
    BY <1>1, <1>5 DEF ServeDoor, Drop, Connect, Restart, vars, client
  <1>6. ASSUME NEW u \in Users, Writecom(u) \/ CloseTab(u) \/ ServePage(u) PROVE Clearing(puts')
    BY <1>1, <1>6 DEF Writecom, CloseTab, ServePage, client
  <1> QED
    BY <1>3, <1>4, <1>5, <1>6 DEF Next

\* What online.js last heard in todo stays hidden by its clear.
LEMMA NextHidden ==
    ASSUME Base, [Next]_vars
    PROVE  HeardHidden'
  <1>t. /\ TypeOK /\ HeardHidden /\ Null \notin Ids
        /\ cache \in [todo : Ids \cup {Null}, name : Users \cup {NoUser}, known : BOOLEAN]
    BY DEF Base, TypeOK, DoorOK, Null, Ids
  <1>1. CASE Receive
    <2>1. AckTaken \/ Learnt
      BY <1>1, ReceiveShape
    <2>2. CASE AckTaken
      <3>1. CASE puts[1].key = "todo"
        BY <1>t, <2>2, <3>1 DEF AckTaken, HeardHidden
      <3>2. CASE puts[1].key # "todo"
        <4>1. cache' = cache /\ (Clearing(puts) => Clearing(puts'))
          <5>1. ~Crash
            BY <1>1 DEF Crash, Receive
          <5> QED
            BY <2>2, <3>2, <5>1, ClearingStays DEF AckTaken
        <4> QED
          BY <1>t, <4>1 DEF HeardHidden
      <3> QED
        BY <3>1, <3>2
    <2>3. CASE Learnt /\ Idles(puts) /\ (cache'.todo # Null => Clearing(puts))
      BY <2>3 DEF Idles, HeardHidden
    <2>4. CASE Learnt /\ Handles(cache'.todo, puts) /\ cache'.todo # Null
      <3>1. PICK t \in Ids : t = cache'.todo
        BY <2>4 DEF Learnt
      <3>2. /\ puts'[Len(puts) + 1].key = "todo" /\ Len(puts') > Len(puts)
            /\ Len(puts') \in Nat /\ Len(puts) \in Nat
        BY <2>4, <3>1, HandlesPuts DEF Base, TypeOK
      <3>3. Len(puts) + 1 \in 1 .. Len(puts')
        BY <3>2
      <3>4. Clearing(puts')
        BY <3>2, <3>3 DEF Clearing
      <3> QED
        BY <3>4 DEF HeardHidden
    <2> QED
      BY <2>1, <2>2, <2>3, <2>4 DEF Learnt
  <1>2. CASE Crash
    BY <1>2 DEF Crash, HeardHidden, Unknown
  <1>3. CASE ~Receive /\ ~Crash
    <2>1. cache' = cache
      BY <1>3, HeartbeatShape DEF Next, ServeDoor, Drop, Connect, Restart, vars, client, Writecom, CloseTab, ServePage
    <2> QED
      BY <1>t, <1>3, <2>1, ClearingStays DEF HeardHidden
  <1> QED
    BY <1>1, <1>2, <1>3

\* Base holds at first.
LEMMA InitBase ==
    ASSUME Init
    PROVE  Base
  <1>1. PagesOK
    <2>1. up \in [Users -> Seq(PagePuts)] /\ issued \in Seq([user : Users, todo : Todos])
      BY DEF Init
    <2>2. Len(issued) <= MaxCommands
      BY MailboxAssumption DEF Init
    <2> QED
      BY <2>1, <2>2 DEF PagesOK
  <1>2. ServerOK
    BY DEF Init, ServerOK
  <1>3. DoorOK
    <2>1. /\ toDoor = <<>> /\ puts = <<>> /\ calls = <<>> /\ applied = 0 /\ cache = Unknown
          /\ link = "down" /\ alive = TRUE
      BY DEF Init
    <2>2. toDoor \in Seq(Messages) /\ puts \in Seq(Puts) /\ calls \in Seq(Calls) /\ Len(puts) = 0
      BY <2>1
    <2>3. applied \in 0 .. Len(puts)
      BY <2>1, <2>2
    <2>4. cache \in [todo : Ids \cup {Null}, name : Users \cup {NoUser}, known : BOOLEAN]
      BY <2>1 DEF Unknown
    <2> QED
      BY <2>1, <2>2, <2>3, <2>4 DEF DoorOK
  <1>4. HistoryOK
    <2>1. done \in Seq(Ids) /\ arrived \in Seq(Ids) /\ clean \subseteq Ids
      BY DEF Init
    <2>2. fate \in [Ids -> {"none", "sent", "stored", "overwritten", "wiped", "done"}]
      BY DEF Init
    <2>3. drops \in 0 .. MaxDrops /\ crashes \in 0 .. MaxCrashes /\ beats \in 0 .. MaxBeats
      BY MailboxAssumption DEF Init
    <2> QED
      BY <2>1, <2>2, <2>3 DEF HistoryOK
  <1>5. Acked
    <2>1. toDoor = <<>> /\ applied = 0
      BY DEF Init
    <2>2. toDoor \in Seq(Messages) /\ \A k \in 1 .. Len(toDoor) : toDoor[k].kind # "ack"
      BY <2>1
    <2>3. AckedBy(toDoor, puts, 0)
      BY <2>2, AckedNone
    <2> QED
      BY <2>1, <2>3 DEF Acked
  <1>6. InFlight
    <2>1. \A u \in Users : up[u] = <<>>
      BY DEF Init
    <2>2. \A u \in Users : \A j \in 1 .. Len(up[u]) : FALSE
      BY <2>1
    <2>3. \A t \in Ids : fate[t] = "none"
      BY DEF Init
    <2> QED
      BY <2>2, <2>3 DEF InFlight
  <1>7. Heard /\ Linked /\ HeardHidden
    <2>1. /\ srv.todo = Null /\ cache.todo = Null /\ toDoor = <<>> /\ clean = {} /\ done = <<>>
          /\ applied = 0 /\ link = "down" /\ alive = TRUE
      BY DEF Init, Unknown
    <2> QED
      BY <2>1 DEF Heard, Linked, HeardHidden
  <1> QED
    BY <1>1, <1>2, <1>3, <1>4, <1>5, <1>6, <1>7 DEF Base, TypeOK

\* Base is an invariant.
LEMMA Consistent == Spec => []Base
  <1>1. Base /\ [Next]_vars => Base'
    BY NextType, NextAcked, NextInFlight, NextHeard, NextLinked, NextHidden DEF Base
  <1> QED
    BY InitBase, <1>1, PTL DEF Spec

\* The mailbox, the messages and the history keep their types; in particular
\* the acknowledged writes never outnumber the outstanding ones.
THEOREM TypeCorrect == Spec => []TypeOK
  <1>1. Base => TypeOK
    BY DEF Base
  <1> QED
    BY Consistent, <1>1, PTL

-----------------------------------------------------------------------------
(* One clear at a time. *)

\* A step adds a clear only where there is none.
LEMMA NextOneClear ==
    ASSUME Base, OneClear, [Next]_vars
    PROVE  OneClear'
  <1>t. /\ TypeOK /\ puts \in Seq(Puts) /\ Len(puts) \in Nat /\ Null \notin Ids
    BY DEF Base, TypeOK, DoorOK, Null, Ids
  <1>1. CASE UNCHANGED puts
    BY <1>1 DEF OneClear
  <1>2. CASE Receive
    <2>1. (AckTaken \/ Learnt) /\ toDoor # <<>>
      BY <1>2, ReceiveShape
    <2>2. CASE AckTaken
      <3>1. /\ Len(puts') = Len(puts) - 1
            /\ \A k \in 1 .. Len(puts) - 1 : puts'[k] = puts[k + 1]
        BY <1>t, <2>2, HeadTail DEF AckTaken
      <3>2. \A k \in 1 .. Len(puts') : k + 1 \in 1 .. Len(puts) /\ puts'[k] = puts[k + 1] /\ k \in Nat
        BY <1>t, <3>1
      <3>3. ASSUME NEW j \in 1 .. Len(puts'), NEW k \in 1 .. Len(puts'),
                   puts'[j].key = "todo", puts'[k].key = "todo"
            PROVE  j = k
        <4>1. j + 1 = k + 1
          BY <3>2, <3>3 DEF OneClear
        <4> QED
          BY <4>1, <3>2
      <3> QED
        BY <3>3 DEF OneClear
    <2>3. CASE Idles(puts)
      BY <1>1, <2>3 DEF Idles
    <2>4. CASE Learnt /\ Handles(cache'.todo, puts) /\ cache'.todo # Null /\ ~Clearing(puts)
      <3>1. PICK t \in Ids : t = cache'.todo
        BY <2>4 DEF Learnt
      <3>2. /\ Len(puts') \in Nat
            /\ \A k \in 1 .. Len(puts) : puts'[k] = puts[k]
            /\ \A k \in Len(puts) + 2 .. Len(puts') : puts'[k].key # "todo"
        BY <2>4, <3>1, HandlesPuts DEF Base, TypeOK
      <3>3. \A k \in 1 .. Len(puts) : puts'[k].key # "todo"
        BY <2>4, <3>2 DEF Clearing
      <3>4. \A k \in 1 .. Len(puts') : puts'[k].key = "todo" => k = Len(puts) + 1
        <4> SUFFICES ASSUME NEW k \in 1 .. Len(puts'), k # Len(puts) + 1
                     PROVE  puts'[k].key # "todo"
          OBVIOUS
        <4>1. k \in 1 .. Len(puts) \/ k \in Len(puts) + 2 .. Len(puts')
          BY <1>t, <3>2
        <4> QED
          BY <3>2, <3>3, <4>1
      <3> QED
        BY <3>4 DEF OneClear
    <2> QED
      BY <2>1, <2>2, <2>3, <2>4 DEF Learnt
  <1>3. CASE Heartbeat
    <2>1. /\ Len(puts') = Len(puts) + 1 /\ puts'[Len(puts) + 1].key = "time"
          /\ \A k \in 1 .. Len(puts) : puts'[k] = puts[k]
      BY <1>3, HeartbeatType
    <2>2. \A k \in 1 .. Len(puts') : puts'[k].key = "todo" => k \in 1 .. Len(puts) /\ puts'[k] = puts[k]
      <3> SUFFICES ASSUME NEW k \in 1 .. Len(puts'), puts'[k].key = "todo"
                   PROVE  k \in 1 .. Len(puts)
        BY <2>1
      <3>1. k # Len(puts) + 1
        BY <2>1
      <3> QED
        BY <2>1, <3>1, <1>t
    <2> QED
      BY <2>2 DEF OneClear
  <1>4. CASE Crash
    <2>1. puts' = <<>>
      BY <1>4 DEF Crash
    <2> QED
      BY <2>1 DEF OneClear
  <1>5. CASE ServeDoor \/ Drop \/ Connect \/ Restart \/ UNCHANGED vars
    BY <1>1, <1>5 DEF ServeDoor, Drop, Connect, Restart, vars, client
  <1>6. ASSUME NEW u \in Users, Writecom(u) \/ CloseTab(u) \/ ServePage(u) PROVE UNCHANGED puts
    BY <1>6 DEF Writecom, CloseTab, ServePage, client
  <1> QED
    BY <1>1, <1>2, <1>3, <1>4, <1>5, <1>6 DEF Next

\* online.js never has two clears of todo outstanding.
THEOREM ClearsOneAtATime == Spec => []OneClear
  <1>1. Init => OneClear
    BY DEF Init, OneClear
  <1>2. Base /\ OneClear /\ [Next]_vars => OneClear'
    BY NextOneClear
  <1> QED
    BY Consistent, <1>1, <1>2, PTL DEF Spec

-----------------------------------------------------------------------------
(* What a command finds in an empty mailbox. *)

\* While todo is empty, every command in a message is followed by an empty
\* todo.
ToldLater ==
    link = "up" /\ srv.todo = Null =>
        \A k \in 1 .. Len(toDoor) : \A s \in Ids :
            Bears(toDoor[k], s) => \E j \in k + 1 .. Len(toDoor) : Bears(toDoor[j], Null)

\* A command that found the mailbox empty is in todo, and is the only one that
\* online.js can hear of, until it is carried out or overwritten.
CleanKept ==
    \A t \in clean :
        /\ fate[t] # "wiped"
        /\ fate[t] = "stored" =>
             /\ srv.todo = t /\ ~Clearing(puts)
             /\ \A k \in 1 .. Len(toDoor) : \A s \in Ids : Bears(toDoor[k], s) => s = t

\* A command in todo stays the last that online.js is told of, and an empty
\* todo is told last.
LEMMA NextToldLater ==
    ASSUME Base, ToldLater, [Next]_vars
    PROVE  ToldLater'
  <1>t. /\ TypeOK /\ toDoor \in Seq(Messages) /\ Len(toDoor) \in Nat
        /\ srv.todo \in Ids \cup {Null} /\ Null \notin Ids
    BY DEF Base, TypeOK, ServerOK, DoorOK, Null, Ids
  <1>1. ASSUME UNCHANGED <<link, srv, toDoor>> PROVE ToldLater'
    BY <1>1 DEF ToldLater
  <1>2. ASSUME NEW m \in Messages, toDoor' = Append(toDoor, m), UNCHANGED link,
               Bears(m, Null) \/ (srv'.todo = srv.todo /\ \A s \in Ids : ~Bears(m, s))
        PROVE  ToldLater'
    <2>1. /\ Len(toDoor') = Len(toDoor) + 1 /\ toDoor'[Len(toDoor) + 1] = m
          /\ \A k \in 1 .. Len(toDoor) : toDoor'[k] = toDoor[k]
      BY <1>t, <1>2, AppendAt
    <2> SUFFICES ASSUME link' = "up", srv'.todo = Null,
                        NEW k \in 1 .. Len(toDoor'), NEW s \in Ids, Bears(toDoor'[k], s)
                 PROVE  \E j \in k + 1 .. Len(toDoor') : Bears(toDoor'[j], Null)
      BY DEF ToldLater
    <2>2. CASE Bears(m, Null)
      <3>1. k # Len(toDoor) + 1
        <4>1. ~(Bears(m, Null) /\ Bears(m, s))
          BY <1>t DEF Bears
        <4> QED
          BY <2>1, <2>2, <4>1
      <3>2. Len(toDoor) + 1 \in k + 1 .. Len(toDoor')
        BY <1>t, <2>1, <3>1
      <3> QED
        BY <2>1, <2>2, <3>2
    <2>3. CASE srv'.todo = srv.todo /\ \A x \in Ids : ~Bears(m, x)
      <3>1. k # Len(toDoor) + 1
        BY <2>1, <2>3
      <3>2. k \in 1 .. Len(toDoor) /\ toDoor'[k] = toDoor[k]
        BY <1>t, <2>1, <3>1
      <3>3. PICK j \in k + 1 .. Len(toDoor) : Bears(toDoor[j], Null)
        BY <1>2, <2>3, <3>2 DEF ToldLater
      <3>4. j \in k + 1 .. Len(toDoor') /\ toDoor'[j] = toDoor[j]
        BY <1>t, <2>1, <3>2
      <3> QED
        BY <3>3, <3>4
    <2> QED
      BY <1>2, <2>2, <2>3
  <1>3. ASSUME NEW u \in Users, ServePage(u) PROVE ToldLater'
    <2>1. /\ up[u] # <<>> /\ UNCHANGED link
          /\ toDoor' = IF link = "up"
                       THEN Append(toDoor, Update(up[u][1].key, up[u][1].val)) ELSE toDoor
          /\ up[u][1].key # "todo" => srv'.todo = srv.todo
          /\ up[u][1].key = "todo" => srv'.todo = up[u][1].val
      BY <1>t, <1>3, ServePageType DEF ServePage, client
    <2>2. /\ Update(up[u][1].key, up[u][1].val) \in Messages
          /\ up[u][1].key = "todo" => up[u][1].val \in Ids
      BY <1>t, <2>1, PageHead DEF TypeOK
    <2>3. CASE up[u][1].key = "todo"
      <3>1. srv'.todo # Null
        BY <1>t, <2>1, <2>2, <2>3
      <3> QED
        BY <3>1 DEF ToldLater
    <2>4. CASE up[u][1].key # "todo"
      <3>1. \A s \in Ids : ~Bears(Update(up[u][1].key, up[u][1].val), s)
        BY <2>4, BearsWhat
      <3>2. CASE link = "up"
        BY <1>2, <2>1, <2>2, <2>4, <3>1, <3>2
      <3>3. CASE link # "up"
        BY <2>1, <3>3 DEF ToldLater
      <3> QED
        BY <3>2, <3>3
    <2> QED
      BY <2>3, <2>4
  <1>4. CASE ServeDoor
    <2>1. /\ Ack(puts[applied + 1]) \in Messages /\ UNCHANGED link
          /\ toDoor' = Append(toDoor, Ack(puts[applied + 1]))
          /\ srv'.todo = IF puts[applied + 1].key = "todo" THEN Null ELSE srv.todo
          /\ puts[applied + 1] \in Puts
      BY <1>t, <1>4, ServeDoorType DEF ServeDoor
    <2>2. puts[applied + 1].key = "todo" => puts[applied + 1].val = Null
      BY <2>1 DEF Puts
    <2>3. CASE puts[applied + 1].key = "todo"
      BY <1>2, <2>1, <2>2, <2>3, BearsWhat
    <2>4. CASE puts[applied + 1].key # "todo"
      BY <1>2, <2>1, <2>4, BearsWhat
    <2> QED
      BY <2>3, <2>4
  <1>5. CASE Receive
    <2>1. toDoor # <<>> /\ toDoor' = Tail(toDoor) /\ UNCHANGED <<link, srv>>
      BY <1>5, ReceiveShape
    <2>2. /\ Len(toDoor') = Len(toDoor) - 1
          /\ \A k \in 1 .. Len(toDoor) - 1 : toDoor'[k] = toDoor[k + 1]
      BY <1>t, <2>1, HeadTail
    <2> SUFFICES ASSUME link = "up", srv.todo = Null,
                        NEW k \in 1 .. Len(toDoor'), NEW s \in Ids, Bears(toDoor'[k], s)
                 PROVE  \E j \in k + 1 .. Len(toDoor') : Bears(toDoor'[j], Null)
      BY <2>1 DEF ToldLater
    <2>3. k + 1 \in 1 .. Len(toDoor) /\ toDoor'[k] = toDoor[k + 1] /\ k \in Nat
      BY <1>t, <2>2
    <2>4. PICK j \in (k + 1) + 1 .. Len(toDoor) : Bears(toDoor[j], Null)
      BY <2>3 DEF ToldLater
    <2>5. j - 1 \in k + 1 .. Len(toDoor') /\ j - 1 \in 1 .. Len(toDoor) - 1 /\ (j - 1) + 1 = j
      BY <1>t, <2>2, <2>3
    <2>6. toDoor'[j - 1] = toDoor[j]
      BY <2>2, <2>5
    <2> QED
      BY <2>4, <2>5, <2>6
  <1>6. CASE Connect
    <2>1. toDoor' = <<Snapshot(srv)>> /\ UNCHANGED srv
      BY <1>6 DEF Connect
    <2>2. Len(toDoor') = 1 /\ toDoor'[1] = Snapshot(srv)
      BY <2>1
    <2>3. srv.todo = Null => \A s \in Ids : ~Bears(Snapshot(srv), s)
      BY <1>t, BearsWhat
    <2> QED
      BY <2>1, <2>2, <2>3 DEF ToldLater
  <1>7. CASE Drop \/ Crash
    <2>1. link' = "down"
      BY <1>7 DEF Drop, Crash
    <2> QED
      BY <2>1 DEF ToldLater
  <1>8. CASE Heartbeat
    BY <1>1, <1>8, HeartbeatShape
  <1>9. CASE Restart \/ UNCHANGED vars
    BY <1>1, <1>9 DEF Restart, vars, client
  <1>10. ASSUME NEW u \in Users, Writecom(u) \/ CloseTab(u) PROVE ToldLater'
    BY <1>1, <1>10 DEF Writecom, CloseTab, client
  <1> QED
    BY <1>3, <1>4, <1>5, <1>6, <1>7, <1>8, <1>9, <1>10 DEF Next

\* A command that finds todo empty and no clear under way is the first that
\* online.js hears of.
LEMMA NothingTold ==
    ASSUME Base, ToldLater, link = "up", srv.todo = Null, ~Clearing(puts)
    PROVE  \A k \in 1 .. Len(toDoor) : \A s \in Ids : ~Bears(toDoor[k], s)
  <1>t. /\ toDoor \in Seq(Messages) /\ puts \in Seq(Puts) /\ applied \in 0 .. Len(puts)
        /\ Len(toDoor) \in Nat /\ Null \notin Ids
    BY DEF Base, TypeOK, DoorOK, Null, Ids
  <1> SUFFICES ASSUME NEW k \in 1 .. Len(toDoor), NEW s \in Ids, Bears(toDoor[k], s)
               PROVE  FALSE
    OBVIOUS
  <1>1. PICK j \in k + 1 .. Len(toDoor) : Bears(toDoor[j], Null)
    BY DEF ToldLater
  <1>2. j \in 1 .. Len(toDoor) /\ j \in 2 .. Len(toDoor)
    BY <1>t
  <1>3. toDoor[j].kind # "snapshot"
    BY <1>2 DEF Base, Linked
  <1>4. toDoor[j].key = "todo" /\ toDoor[j].val = Null
    BY <1>1, <1>3 DEF Bears
  <1>5. toDoor[j] \in Messages
    BY <1>t, <1>2, ElementOf
  <1>6. toDoor[j].kind = "ack"
    BY <1>t, <1>3, <1>4, <1>5, MessageKinds
  <1>7. Clearing(puts)
    BY <1>t, <1>2, <1>4, <1>6, AckedClears DEF Base, Acked
  <1> QED
    BY <1>7

\* No clear appears but by running a command.
LEMMA NotClearing ==
    ASSUME Base, ~Clearing(puts),
           (Receive /\ AckTaken) \/ Heartbeat \/ Crash \/ UNCHANGED puts
    PROVE  ~Clearing(puts')
  <1>t. puts \in Seq(Puts) /\ Len(puts) \in Nat
    BY DEF Base, TypeOK, DoorOK
  <1>0. \A k \in 1 .. Len(puts) : puts[k].key # "todo"
    BY DEF Clearing
  <1>1. CASE Receive /\ AckTaken
    <2>1. /\ Len(puts') = Len(puts) - 1
          /\ \A k \in 1 .. Len(puts) - 1 : puts'[k] = puts[k + 1]
      BY <1>t, <1>1, HeadTail DEF AckTaken
    <2>2. \A k \in 1 .. Len(puts') : k + 1 \in 1 .. Len(puts) /\ puts'[k] = puts[k + 1]
      BY <1>t, <2>1
    <2> QED
      BY <1>0, <2>2 DEF Clearing
  <1>2. CASE Heartbeat
    <2>1. /\ Len(puts') = Len(puts) + 1 /\ puts'[Len(puts) + 1].key = "time"
          /\ \A k \in 1 .. Len(puts) : puts'[k] = puts[k]
      BY <1>2, HeartbeatType
    <2>2. \A k \in 1 .. Len(puts') : k \in 1 .. Len(puts) \/ k = Len(puts) + 1
      BY <1>t, <2>1
    <2> QED
      BY <1>0, <2>1, <2>2 DEF Clearing
  <1>3. CASE Crash
    <2>1. puts' = <<>>
      BY <1>3 DEF Crash
    <2> QED
      BY <2>1 DEF Clearing
  <1>4. CASE UNCHANGED puts
    BY <1>4 DEF Clearing
  <1> QED
    BY <1>1, <1>2, <1>3, <1>4

\* The server takes a page's write.
LEMMA ServePageClean ==
    ASSUME Base, ToldLater, CleanKept, NEW u \in Users, ServePage(u)
    PROVE  CleanKept'
  <1>t. /\ TypeOK /\ PagesOK /\ HistoryOK /\ ServerOK /\ clean \subseteq Ids
        /\ toDoor \in Seq(Messages) /\ Len(toDoor) \in Nat
        /\ fate \in [Ids -> {"none", "sent", "stored", "overwritten", "wiped", "done"}]
    BY DEF Base, TypeOK, DoorOK, HistoryOK
  <1>1. /\ up[u] # <<>> /\ UNCHANGED <<link, puts>>
        /\ toDoor' = IF link = "up"
                     THEN Append(toDoor, Update(up[u][1].key, up[u][1].val)) ELSE toDoor
    BY <1>t, ServePageType DEF ServePage, client
  <1>2. Update(up[u][1].key, up[u][1].val) \in Messages
    BY <1>t, <1>1, PageHead
  <1>3. \A k \in 1 .. Len(toDoor') : \A s \in Ids :
          Bears(toDoor'[k], s) => \/ k \in 1 .. Len(toDoor) /\ Bears(toDoor[k], s)
                                  \/ up[u][1].key = "todo" /\ up[u][1].val = s
    <2>1. CASE link = "up"
      <3>1. /\ Len(toDoor') = Len(toDoor) + 1
            /\ toDoor'[Len(toDoor) + 1] = Update(up[u][1].key, up[u][1].val)
            /\ \A k \in 1 .. Len(toDoor) : toDoor'[k] = toDoor[k]
        BY <1>t, <1>1, <1>2, <2>1, AppendAt
      <3>2. \A k \in 1 .. Len(toDoor') : k \in 1 .. Len(toDoor) \/ k = Len(toDoor) + 1
        BY <1>t, <3>1
      <3> QED
        BY <3>1, <3>2, BearsWhat
    <2>2. CASE link # "up"
      BY <1>1, <2>2
    <2> QED
      BY <2>1, <2>2
  <1>4. CASE up[u][1].key = "todo"
    <2>1. PICK v \in Ids : v = up[u][1].val
      BY <1>t, <1>1, <1>4, PageHead
    <2>2. /\ srv'.todo = v
          /\ fate' = [Replaced(fate, "overwritten") EXCEPT ![v] = "stored"]
          /\ clean' = IF link = "up" /\ srv.todo = Null /\ ~Clearing(puts)
                      THEN clean \cup {v} ELSE clean
      BY <1>t, <1>4, <2>1, ServePageType
    <2>3. /\ Replaced(fate, "overwritten") \in [Ids -> {"none", "sent", "stored", "overwritten", "wiped", "done"}]
          /\ \A t \in Ids : \/ Replaced(fate, "overwritten")[t] = fate[t]
                            \/ Replaced(fate, "overwritten")[t] = "overwritten"
          /\ srv.todo # Null => Replaced(fate, "overwritten")[srv.todo] # "stored"
      BY <1>t, ReplacedType
    <2>4. fate'[v] = "stored" /\ \A t \in Ids \ {v} : fate'[t] = Replaced(fate, "overwritten")[t]
      BY <2>2, <2>3
    <2>5. v \notin clean
      <3>1. 1 \in 1 .. Len(up[u])
        BY <1>t, <1>1, PageHead
      <3>2. fate[v] = "sent"
        BY <3>1, <1>4, <2>1 DEF Base, InFlight
      <3> QED
        BY <3>2 DEF Base, Heard, HasArrived, ArrivedIn
    <2>6. ASSUME NEW t \in clean', t # v
          PROVE  fate'[t] \notin {"wiped", "stored"}
      <3>1. t \in clean /\ t \in Ids
        BY <1>t, <2>2, <2>6
      <3>2. fate'[t] = fate[t] \/ fate'[t] = "overwritten"
        BY <2>3, <2>4, <2>6, <3>1
      <3>3. ASSUME fate[t] = "stored" PROVE fate'[t] # "stored"
        <4>1. srv.todo = t
          BY <3>1, <3>3 DEF CleanKept
        <4>2. t # Null
          BY <3>1 DEF Null, Ids
        <4> QED
          BY <2>3, <2>4, <2>6, <3>1, <4>1, <4>2
      <3> QED
        BY <3>1, <3>2, <3>3 DEF CleanKept
    <2>7. ASSUME v \in clean'
          PROVE  /\ ~Clearing(puts)
                 /\ \A k \in 1 .. Len(toDoor') : \A s \in Ids : Bears(toDoor'[k], s) => s = v
      <3>1. link = "up" /\ srv.todo = Null /\ ~Clearing(puts)
        BY <2>2, <2>5, <2>7
      <3>2. \A k \in 1 .. Len(toDoor) : \A s \in Ids : ~Bears(toDoor[k], s)
        BY <3>1, NothingTold
      <3> QED
        BY <1>3, <2>1, <3>1, <3>2
    <2>8. ~Clearing(puts) => ~Clearing(puts')
      BY <1>1
    <2> QED
      BY <2>2, <2>4, <2>6, <2>7, <2>8 DEF CleanKept
  <1>5. CASE up[u][1].key # "todo"
    <2>1. srv'.todo = srv.todo /\ UNCHANGED <<fate, clean>>
      BY <1>t, <1>5, ServePageType
    <2>2. ~Clearing(puts) => ~Clearing(puts')
      BY <1>1
    <2> QED
      BY <1>3, <1>5, <2>1, <2>2 DEF CleanKept
  <1> QED
    BY <1>4, <1>5

\* A command that found the mailbox empty stays there.
LEMMA NextClean ==
    ASSUME Base, ToldLater, CleanKept, [Next]_vars
    PROVE  CleanKept'
  <1>t. /\ TypeOK /\ HistoryOK /\ ServerOK /\ clean \subseteq Ids
        /\ toDoor \in Seq(Messages) /\ Len(toDoor) \in Nat
        /\ puts \in Seq(Puts) /\ Len(puts) \in Nat
        /\ fate \in [Ids -> {"none", "sent", "stored", "overwritten", "wiped", "done"}]
    BY DEF Base, TypeOK, DoorOK, HistoryOK
  <1>1. ASSUME UNCHANGED clean,
               \A t \in clean : fate'[t] # fate[t] => fate'[t] \notin {"wiped", "stored"},
               \A t \in clean : fate'[t] = "stored" =>
                 /\ srv'.todo = srv.todo
                 /\ ~Clearing(puts) => ~Clearing(puts')
                 /\ \A k \in 1 .. Len(toDoor') : \A s \in Ids :
                      Bears(toDoor'[k], s) => \/ s = srv.todo
                                              \/ \E j \in 1 .. Len(toDoor) : Bears(toDoor[j], s)
        PROVE  CleanKept'
    <2> SUFFICES ASSUME NEW t \in clean
                 PROVE  /\ fate'[t] # "wiped"
                        /\ fate'[t] = "stored" =>
                             /\ srv'.todo = t /\ ~Clearing(puts')
                             /\ \A k \in 1 .. Len(toDoor') : \A s \in Ids :
                                  Bears(toDoor'[k], s) => s = t
      BY <1>1 DEF CleanKept
    <2>1. fate'[t] # "wiped" /\ (fate'[t] = "stored" => fate[t] = "stored")
      BY <1>1 DEF CleanKept
    <2>2. fate[t] = "stored" =>
            /\ srv.todo = t /\ ~Clearing(puts)
            /\ \A k \in 1 .. Len(toDoor) : \A s \in Ids : Bears(toDoor[k], s) => s = t
      BY DEF CleanKept
    <2> QED
      BY <1>1, <2>1, <2>2
  <1>2. ASSUME UNCHANGED <<clean, fate, srv, toDoor>>, ~Clearing(puts) => ~Clearing(puts')
        PROVE  CleanKept'
    BY <1>1, <1>2
  <1>3. CASE ServeDoor
    <2>1. /\ applied + 1 \in 1 .. Len(puts) /\ Ack(puts[applied + 1]) \in Messages
          /\ toDoor' = Append(toDoor, Ack(puts[applied + 1]))
          /\ srv'.todo = IF puts[applied + 1].key = "todo" THEN Null ELSE srv.todo
          /\ fate' = IF puts[applied + 1].key = "todo" THEN Replaced(fate, "wiped") ELSE fate
          /\ UNCHANGED <<clean, puts>> /\ puts[applied + 1] \in Puts
      BY <1>t, <1>3, ServeDoorType DEF ServeDoor
    <2>2. CASE puts[applied + 1].key = "todo"
      <3>1. Clearing(puts)
        BY <2>1, <2>2 DEF Clearing
      <3>2. \A t \in clean : fate[t] # "stored"
        BY <3>1 DEF CleanKept
      <3>3. \A t \in Ids : \/ Replaced(fate, "wiped")[t] = fate[t]
                           \/ fate[t] = "stored"
        BY <1>t, ReplacedType
      <3>4. \A t \in clean : fate'[t] = fate[t]
        BY <1>t, <2>1, <2>2, <3>2, <3>3
      <3> QED
        BY <1>1, <2>1, <3>2, <3>4
    <2>3. CASE puts[applied + 1].key # "todo"
      <3>1. \A s \in Ids : ~Bears(Ack(puts[applied + 1]), s)
        BY <2>3, BearsWhat
      <3>2. /\ Len(toDoor') = Len(toDoor) + 1
            /\ toDoor'[Len(toDoor) + 1] = Ack(puts[applied + 1])
            /\ \A k \in 1 .. Len(toDoor) : toDoor'[k] = toDoor[k]
        BY <1>t, <2>1, AppendAt
      <3>3. \A k \in 1 .. Len(toDoor') : k \in 1 .. Len(toDoor) \/ k = Len(toDoor) + 1
        BY <1>t, <3>2
      <3>4. \A k \in 1 .. Len(toDoor') : \A s \in Ids :
              Bears(toDoor'[k], s) => \E j \in 1 .. Len(toDoor) : Bears(toDoor[j], s)
        BY <3>1, <3>2, <3>3
      <3>5. UNCHANGED <<clean, fate>> /\ srv'.todo = srv.todo /\ (~Clearing(puts) => ~Clearing(puts'))
        BY <2>1, <2>3
      <3> QED
        BY <1>1, <3>4, <3>5
    <2> QED
      BY <2>2, <2>3
  <1>4. CASE Receive
    <2>1. /\ toDoor # <<>> /\ toDoor' = Tail(toDoor) /\ UNCHANGED <<srv, clean>>
          /\ AckTaken \/ Learnt
      BY <1>4, ReceiveShape
    <2>2. /\ Len(toDoor') = Len(toDoor) - 1 /\ 1 \in 1 .. Len(toDoor)
          /\ \A k \in 1 .. Len(toDoor) - 1 : toDoor'[k] = toDoor[k + 1] /\ k + 1 \in 1 .. Len(toDoor)
      BY <1>t, <2>1, HeadTail
    <2>3. \A k \in 1 .. Len(toDoor') : \A s \in Ids :
            Bears(toDoor'[k], s) => \E j \in 1 .. Len(toDoor) : Bears(toDoor[j], s)
      BY <2>2
    <2>4. CASE AckTaken
      <3>1. UNCHANGED fate /\ (~Clearing(puts) => ~Clearing(puts'))
        BY <1>4, <2>4, NotClearing DEF AckTaken
      <3> QED
        BY <1>1, <2>1, <2>3, <3>1
    <2>5. CASE Idles(puts)
      <3>1. UNCHANGED fate /\ (~Clearing(puts) => ~Clearing(puts'))
        BY <2>5 DEF Idles
      <3> QED
        BY <1>1, <2>1, <2>3, <3>1
    <2>6. CASE /\ Learnt /\ Handles(cache'.todo, puts) /\ cache'.todo # Null
               /\ Bears(toDoor[1], cache'.todo)
      <3>1. PICK x \in Ids : x = cache'.todo
        BY <2>6 DEF Learnt
      <3>2. /\ fate'[x] = "done" /\ \A s \in Ids \ {x} : fate'[s] = fate[s]
            /\ Bears(toDoor[1], x)
        BY <2>6, <3>1, HandlesPuts DEF Base, TypeOK
      <3>3. \A t \in clean : fate'[t] # "stored"
        <4> SUFFICES ASSUME NEW t \in clean, fate'[t] = "stored" PROVE FALSE
          OBVIOUS
        <4>1. t # x /\ fate[t] = "stored"
          BY <1>t, <3>2
        <4> QED
          BY <2>2, <3>2, <4>1 DEF CleanKept
      <3>4. \A t \in clean : fate'[t] # fate[t] => fate'[t] \notin {"wiped", "stored"}
        BY <1>t, <3>2
      <3> QED
        BY <1>1, <2>1, <3>3, <3>4
    <2> QED
      BY <2>1, <2>4, <2>5, <2>6 DEF Learnt
  <1>5. CASE Heartbeat
    <2>1. UNCHANGED <<clean, fate, srv, toDoor>>
      BY <1>5, HeartbeatShape DEF Idles
    <2> QED
      BY <1>2, <1>5, <2>1, NotClearing
  <1>6. CASE Drop \/ Crash
    <2>1. toDoor' = <<>> /\ UNCHANGED <<clean, fate, srv>>
      BY <1>6 DEF Drop, Crash, history
    <2>2. ~Clearing(puts) => ~Clearing(puts')
      BY <1>6, NotClearing DEF Drop
    <2>3. \A k \in 1 .. Len(toDoor') : FALSE
      BY <2>1
    <2> QED
      BY <1>1, <2>1, <2>2, <2>3
  <1>7. CASE Connect
    <2>1. toDoor' = <<Snapshot(srv)>> /\ UNCHANGED <<clean, fate, srv, puts>>
      BY <1>7 DEF Connect, history
    <2>2. Len(toDoor') = 1 /\ toDoor'[1] = Snapshot(srv)
      BY <2>1
    <2>3. \A k \in 1 .. Len(toDoor') : \A s \in Ids : Bears(toDoor'[k], s) => s = srv.todo
      BY <2>2, BearsWhat
    <2>4. ~Clearing(puts) => ~Clearing(puts')
      BY <2>1
    <2> QED
      BY <1>1, <2>1, <2>3, <2>4
  <1>8. CASE Restart \/ UNCHANGED vars
    <2>1. UNCHANGED <<clean, fate, srv, toDoor, puts>>
      BY <1>8 DEF Restart, vars, client, history
    <2> QED
      BY <1>2, <2>1
  <1>9. ASSUME NEW u \in Users, Writecom(u) PROVE CleanKept'
    <2>1. UNCHANGED <<clean, srv, toDoor, puts>>
      BY <1>9 DEF Writecom, client
    <2>2. \A t \in clean : fate'[t] = fate[t]
      <3>1. /\ Len(issued) + 1 \in Ids /\ Len(issued) \in Nat
            /\ fate' = [fate EXCEPT ![Len(issued) + 1] = "sent"]
        BY <1>t, <1>9, WritecomType
      <3>2. \A t \in clean : fate[t] # "none"
        BY DEF Base, Heard, HasArrived, ArrivedIn
      <3>3. ~(Len(issued) + 1 <= Len(issued))
        BY <3>1
      <3>4. fate[Len(issued) + 1] = "none"
        BY <3>1, <3>3 DEF Base, InFlight
      <3> QED
        BY <1>t, <3>1, <3>2, <3>4
    <2>3. ~Clearing(puts) => ~Clearing(puts')
      BY <2>1
    <2> QED
      BY <1>1, <2>1, <2>2, <2>3
  <1>10. ASSUME NEW u \in Users, CloseTab(u) PROVE CleanKept'
    <2>1. UNCHANGED <<clean, fate, srv, toDoor, puts>>
      BY <1>10 DEF CloseTab, client, history
    <2> QED
      BY <1>2, <2>1
  <1> QED
    BY <1>3, <1>4, <1>5, <1>6, <1>7, <1>8, <1>9, <1>10, ServePageClean DEF Next

\* A command that reaches an empty mailbox with no clear under way is never
\* wiped by a clear.
THEOREM CleanIsNeverWiped == Spec => []CleanNeverWiped
  <1>1. Init => ToldLater /\ CleanKept
    BY DEF Init, ToldLater, CleanKept
  <1>2. Base /\ ToldLater /\ CleanKept /\ [Next]_vars => ToldLater' /\ CleanKept'
    BY NextToldLater, NextClean
  <1>3. CleanKept => CleanNeverWiped
    BY DEF CleanKept, CleanNeverWiped
  <1> QED
    BY Consistent, <1>1, <1>2, <1>3, PTL DEF Spec

-----------------------------------------------------------------------------
(* Commands in the order of their arrival. *)

\* Nothing arrives twice, and what arrived is what is no longer on its way.
Arrivals ==
    /\ \A t \in Ids : HasArrived(t) => \E k \in 1 .. Len(arrived) : arrived[k] = t
    /\ \A k \in 1 .. Len(arrived) : HasArrived(arrived[k])
    /\ \A j, k \in 1 .. Len(arrived) : arrived[j] = arrived[k] => j = k

\* In the order of arrival s, b does not come before a.
NotAfter(s, a, b) == \A j, k \in 1 .. Len(s) : s[j] = a /\ s[k] = b => j <= k

\* What was carried out, what online.js is told and what todo holds follow
\* each other in the order of arrival.
InTurn ==
    /\ \A n \in 1 .. Len(done) :
         /\ srv.todo # Null => NotAfter(arrived, done[n], srv.todo)
         /\ \A k \in 1 .. Len(toDoor) : \A t \in Ids :
              Bears(toDoor[k], t) => NotAfter(arrived, done[n], t)
    /\ \A k \in 1 .. Len(toDoor) : \A s \in Ids :
         Bears(toDoor[k], s) =>
           /\ srv.todo # Null => NotAfter(arrived, s, srv.todo)
           /\ \A j \in k + 1 .. Len(toDoor) : \A t \in Ids :
                Bears(toDoor[j], t) => NotAfter(arrived, s, t)

ClearAck(m) == m.kind = "ack" /\ m.key = "todo"

\* While online.js has not died, a command that was carried out is in todo
\* only before its clear is applied, and is told only before the
\* acknowledgement of its clear.
NotAgain ==
    crashes = 0 =>
        \A n \in 1 .. Len(done) :
            /\ srv.todo = done[n] =>
                 Clearing(puts) /\ \A j \in 1 .. Len(toDoor) : ~ClearAck(toDoor[j])
            /\ \A k \in 1 .. Len(toDoor) :
                 Bears(toDoor[k], done[n]) =>
                   Clearing(puts) /\ \A j \in 1 .. k : ~ClearAck(toDoor[j])

\* The commands carried out, in order.
Ordered ==
    \A j, k \in 1 .. Len(done) :
        j < k => NotAfter(arrived, done[j], done[k]) /\ (done[j] = done[k] => crashes > 0)

\* Either nothing arrives, or one command that had not.
LEMMA ArrivedGrows ==
    ASSUME Base, [Next]_vars
    PROVE  \/ UNCHANGED arrived /\ \A t \in Ids : HasArrived(t) <=> ArrivedIn(fate', t)
           \/ \E v \in Ids :
                /\ arrived' = Append(arrived, v) /\ fate[v] = "sent"
                /\ \A t \in Ids : ArrivedIn(fate', t) <=> (HasArrived(t) \/ t = v)
                /\ srv'.todo = v /\ UNCHANGED <<puts, done, crashes>>
                /\ \/ UNCHANGED toDoor
                   \/ /\ toDoor' = Append(toDoor, Update("todo", v))
                      /\ Update("todo", v) \in Messages
  <1>t. /\ TypeOK /\ PagesOK /\ Len(issued) \in Nat
        /\ fate \in [Ids -> {"none", "sent", "stored", "overwritten", "wiped", "done"}]
    BY DEF Base, TypeOK, PagesOK, HistoryOK
  <1>f. \A t \in Ids : HasArrived(t) => ArrivedIn(fate', t)
    BY FatesMove
  <1>1. ASSUME NEW u \in Users, ServePage(u), up[u][1].key = "todo"
        PROVE  \E v \in Ids :
                 /\ arrived' = Append(arrived, v) /\ fate[v] = "sent"
                 /\ \A t \in Ids : ArrivedIn(fate', t) <=> (HasArrived(t) \/ t = v)
                 /\ srv'.todo = v /\ UNCHANGED <<puts, done, crashes>>
                 /\ \/ UNCHANGED toDoor
                    \/ /\ toDoor' = Append(toDoor, Update("todo", v))
                       /\ Update("todo", v) \in Messages
    <2>1. up[u] # <<>> /\ UNCHANGED <<puts, done, crashes>>
      BY <1>1 DEF ServePage, client, bounds
    <2>2. PICK v \in Ids : v = up[u][1].val
      BY <1>t, <1>1, <2>1, PageHead
    <2>3. /\ arrived' = Append(arrived, v) /\ srv'.todo = v
          /\ fate' = [Replaced(fate, "overwritten") EXCEPT ![v] = "stored"]
          /\ toDoor' = IF link = "up" THEN Append(toDoor, Update("todo", v)) ELSE toDoor
      BY <1>t, <1>1, <2>2, ServePageType
    <2>4. Update("todo", v) \in Messages /\ 1 \in 1 .. Len(up[u])
      BY <1>t, <1>1, <2>1, <2>2, PageHead
    <2>5. fate[v] = "sent"
      BY <2>4, <2>2, <1>1 DEF Base, InFlight
    <2>6. /\ Replaced(fate, "overwritten") \in [Ids -> {"none", "sent", "stored", "overwritten", "wiped", "done"}]
          /\ \A t \in Ids : \/ Replaced(fate, "overwritten")[t] = fate[t]
                            \/ fate[t] = "stored"
      BY <1>t, ReplacedType DEF TypeOK
    <2>7. \A t \in Ids : ArrivedIn(fate', t) => (HasArrived(t) \/ t = v)
      BY <2>3, <2>6 DEF HasArrived, ArrivedIn
    <2>8. fate'[v] = "stored"
      BY <2>3, <2>6
    <2>9. \A t \in Ids : (HasArrived(t) \/ t = v) => ArrivedIn(fate', t)
      BY <1>f, <2>8 DEF ArrivedIn
    <2> QED
      BY <2>1, <2>3, <2>4, <2>5, <2>7, <2>9
  <1>2. ASSUME ~\E u \in Users : ServePage(u) /\ up[u][1].key = "todo"
        PROVE  UNCHANGED arrived /\ \A t \in Ids : HasArrived(t) <=> ArrivedIn(fate', t)
    <2>1. UNCHANGED arrived
      <3>1. ASSUME NEW u \in Users, ServePage(u) PROVE UNCHANGED arrived
        BY <1>t, <1>2, <3>1, ServePageType
      <3>2. CASE Heartbeat
        BY <3>2, HeartbeatShape
      <3> QED
        BY <3>1, <3>2 DEF Next, Writecom, CloseTab, ServeDoor, Receive, Drop, Connect, Crash, Restart, vars, history
    <2>2. ASSUME NEW t \in Ids, ~HasArrived(t) PROVE ~ArrivedIn(fate', t)
      <3>1. fate[t] \in {"none", "sent"}
        BY <1>t, <2>2 DEF HasArrived, ArrivedIn
      <3>2. fate'[t] = fate[t] \/ \E u \in Users : Writecom(u) /\ t = Len(issued) + 1
        BY <1>2, <3>1, FatesMove
      <3>3. ASSUME NEW u \in Users, Writecom(u), t = Len(issued) + 1 PROVE fate'[t] = "sent"
        BY <1>t, <3>3, WritecomType
      <3> QED
        BY <3>1, <3>2, <3>3 DEF ArrivedIn
    <2> QED
      BY <1>f, <2>1, <2>2
  <1> QED
    BY <1>1, <1>2

\* Nothing arrives twice.
LEMMA NextArrivals ==
    ASSUME Base, Arrivals, [Next]_vars
    PROVE  Arrivals'
  <1>t. arrived \in Seq(Ids) /\ Len(arrived) \in Nat
    BY DEF Base, TypeOK, HistoryOK
  <1>e. \A k \in 1 .. Len(arrived) : arrived[k] \in Ids
    BY <1>t, ElementOf
  <1>1. CASE UNCHANGED arrived /\ \A t \in Ids : HasArrived(t) <=> ArrivedIn(fate', t)
    BY <1>1, <1>e DEF Arrivals, HasArrived
  <1>2. ASSUME NEW v \in Ids, arrived' = Append(arrived, v), fate[v] = "sent",
               \A t \in Ids : ArrivedIn(fate', t) <=> (HasArrived(t) \/ t = v)
        PROVE  Arrivals'
    <2>1. /\ Len(arrived') = Len(arrived) + 1 /\ arrived'[Len(arrived) + 1] = v
          /\ \A k \in 1 .. Len(arrived) : arrived'[k] = arrived[k]
      BY <1>t, <1>2, AppendAt
    <2>2. \A k \in 1 .. Len(arrived') : k \in 1 .. Len(arrived) \/ k = Len(arrived) + 1
      BY <1>t, <2>1
    <2>3. \A k \in 1 .. Len(arrived) : arrived[k] # v
      BY <1>2 DEF Arrivals, HasArrived, ArrivedIn
    <2>4. \A k \in 1 .. Len(arrived) : k \in 1 .. Len(arrived')
      BY <1>t, <2>1
    <2>5. \A t \in Ids : ArrivedIn(fate', t) => \E k \in 1 .. Len(arrived') : arrived'[k] = t
      <3> SUFFICES ASSUME NEW t \in Ids, ArrivedIn(fate', t)
                   PROVE  \E k \in 1 .. Len(arrived') : arrived'[k] = t
        OBVIOUS
      <3>1. CASE t = v
        <4>1. Len(arrived) + 1 \in 1 .. Len(arrived')
          BY <1>t, <2>1
        <4> QED
          BY <2>1, <3>1, <4>1
      <3>2. CASE t # v
        <4>1. HasArrived(t)
          BY <1>2, <3>2
        <4>2. PICK k \in 1 .. Len(arrived) : arrived[k] = t
          BY <4>1 DEF Arrivals
        <4> QED
          BY <2>1, <2>4, <4>2
      <3> QED
        BY <3>1, <3>2
    <2>6. \A k \in 1 .. Len(arrived') : ArrivedIn(fate', arrived'[k])
      <3> SUFFICES ASSUME NEW k \in 1 .. Len(arrived') PROVE ArrivedIn(fate', arrived'[k])
        OBVIOUS
      <3>1. CASE k \in 1 .. Len(arrived)
        <4>1. HasArrived(arrived[k]) /\ arrived[k] \in Ids
          BY <1>e, <3>1 DEF Arrivals
        <4> QED
          BY <1>2, <2>1, <3>1, <4>1
      <3>2. CASE k = Len(arrived) + 1
        BY <1>2, <2>1, <3>2
      <3> QED
        BY <2>2, <3>1, <3>2
    <2>7. \A j, k \in 1 .. Len(arrived') : arrived'[j] = arrived'[k] => j = k
      BY <2>1, <2>2, <2>3 DEF Arrivals
    <2> QED
      BY <2>5, <2>6, <2>7 DEF Arrivals, HasArrived
  <1> QED
    BY <1>1, <1>2, ArrivedGrows

\* The order of what arrived does not change, and a newcomer is last.
LEMMA OrderStays ==
    ASSUME Base, Arrivals, NEW v \in Ids, fate[v] = "sent"
    PROVE  /\ \A a, b \in Ids : HasArrived(a) /\ HasArrived(b) /\ NotAfter(arrived, a, b)
                                  => NotAfter(Append(arrived, v), a, b)
           /\ \A a \in Ids : NotAfter(Append(arrived, v), a, v)
  <1>t. arrived \in Seq(Ids) /\ Len(arrived) \in Nat
    BY DEF Base, TypeOK, HistoryOK
  <1> DEFINE s == Append(arrived, v)
  <1>1. /\ Len(s) = Len(arrived) + 1 /\ s[Len(arrived) + 1] = v
        /\ \A k \in 1 .. Len(arrived) : s[k] = arrived[k]
    BY <1>t, AppendAt
  <1> HIDE DEF s
  <1>2. \A k \in 1 .. Len(s) : k \in 1 .. Len(arrived) \/ k = Len(arrived) + 1
    BY <1>t, <1>1
  <1>3. ~HasArrived(v) /\ \A k \in 1 .. Len(arrived) : arrived[k] # v
    BY DEF Arrivals, HasArrived, ArrivedIn
  <1>4. ASSUME NEW a \in Ids, NEW b \in Ids, HasArrived(a), HasArrived(b), NotAfter(arrived, a, b)
        PROVE  NotAfter(s, a, b)
    <2> SUFFICES ASSUME NEW j \in 1 .. Len(s), NEW k \in 1 .. Len(s), s[j] = a, s[k] = b
                 PROVE  j <= k
      BY DEF NotAfter
    <2>1. j \in 1 .. Len(arrived) /\ k \in 1 .. Len(arrived)
      BY <1>1, <1>2, <1>3, <1>4
    <2> QED
      BY <1>1, <1>4, <2>1 DEF NotAfter
  <1>5. ASSUME NEW a \in Ids PROVE NotAfter(s, a, v)
    <2> SUFFICES ASSUME NEW j \in 1 .. Len(s), NEW k \in 1 .. Len(s), s[k] = v
                 PROVE  j <= k
      BY DEF NotAfter
    <2>1. k = Len(arrived) + 1
      BY <1>1, <1>2, <1>3
    <2> QED
      BY <1>t, <1>1, <2>1
  <1> QED
    BY <1>4, <1>5 DEF s

\* The messages that are still to be received after a step bear commands that
\* were to be received before it, in the same order; a newcomer is last, and a
\* snapshot bears what todo holds.
LEMMA MessagesMove ==
    ASSUME Base, [Next]_vars
    PROVE  \/ /\ UNCHANGED arrived /\ srv'.todo \in {srv.todo, Null}
              /\ \E n \in {0, 1} :
                   /\ \A k \in 1 .. Len(toDoor') : \A t \in Ids :
                        Bears(toDoor'[k], t) => k + n \in 1 .. Len(toDoor) /\ Bears(toDoor[k + n], t)
                   /\ n = 0 => UNCHANGED done
              /\ \/ UNCHANGED done
                 \/ /\ toDoor # <<>>
                    /\ \E t \in Ids : done' = Append(done, t) /\ Bears(toDoor[1], t)
           \/ /\ UNCHANGED <<arrived, done, srv>> /\ toDoor' = <<Snapshot(srv)>>
           \/ \E v \in Ids :
                /\ arrived' = Append(arrived, v) /\ fate[v] = "sent" /\ srv'.todo = v
                /\ UNCHANGED done
                /\ \/ UNCHANGED toDoor
                   \/ /\ toDoor' = Append(toDoor, Update("todo", v))
                      /\ Update("todo", v) \in Messages
  <1>t. /\ TypeOK /\ toDoor \in Seq(Messages) /\ Len(toDoor) \in Nat
    BY DEF Base, TypeOK, DoorOK
  <1>1. ASSUME UNCHANGED <<arrived, toDoor, done>>, srv'.todo = srv.todo
        PROVE  /\ UNCHANGED arrived /\ srv'.todo \in {srv.todo, Null}
               /\ \E n \in {0, 1} :
                    /\ \A k \in 1 .. Len(toDoor') : \A t \in Ids :
                         Bears(toDoor'[k], t) => k + n \in 1 .. Len(toDoor) /\ Bears(toDoor[k + n], t)
                    /\ n = 0 => UNCHANGED done
    <2>1. \A k \in 1 .. Len(toDoor') : k + 0 = k /\ k \in 1 .. Len(toDoor)
      BY <1>1
    <2> QED
      BY <1>1, <2>1
  <1>2. ASSUME NEW m \in Messages, toDoor' = Append(toDoor, m), \A t \in Ids : ~Bears(m, t)
        PROVE  \A k \in 1 .. Len(toDoor') : \A t \in Ids :
                 Bears(toDoor'[k], t) => k + 0 \in 1 .. Len(toDoor) /\ Bears(toDoor[k + 0], t)
    <2>1. /\ Len(toDoor') = Len(toDoor) + 1 /\ toDoor'[Len(toDoor) + 1] = m
          /\ \A k \in 1 .. Len(toDoor) : toDoor'[k] = toDoor[k]
      BY <1>t, <1>2, AppendAt
    <2>2. \A k \in 1 .. Len(toDoor') : k \in Nat /\ (k \in 1 .. Len(toDoor) \/ k = Len(toDoor) + 1)
      BY <1>t, <2>1
    <2>3. \A k \in 1 .. Len(toDoor') : k + 0 = k
      BY <2>2
    <2> QED
      BY <1>2, <2>1, <2>2, <2>3
  <1>3. ASSUME NEW u \in Users, ServePage(u), up[u][1].key # "todo"
        PROVE  /\ UNCHANGED <<arrived, done>> /\ srv'.todo = srv.todo
               /\ \A k \in 1 .. Len(toDoor') : \A t \in Ids :
                    Bears(toDoor'[k], t) => k + 0 \in 1 .. Len(toDoor) /\ Bears(toDoor[k + 0], t)
    <2>1. /\ up[u] # <<>> /\ UNCHANGED <<arrived, done>> /\ srv'.todo = srv.todo
          /\ toDoor' = IF link = "up"
                       THEN Append(toDoor, Update(up[u][1].key, up[u][1].val)) ELSE toDoor
      BY <1>t, <1>3, ServePageType DEF ServePage
    <2>2. Update(up[u][1].key, up[u][1].val) \in Messages
      BY <1>t, <2>1, PageHead DEF TypeOK
    <2>3. \A t \in Ids : ~Bears(Update(up[u][1].key, up[u][1].val), t)
      BY <1>3, BearsWhat
    <2>4. CASE link = "up"
      BY <1>2, <2>1, <2>2, <2>3, <2>4
    <2>5. CASE link # "up"
      <3>1. \A k \in 1 .. Len(toDoor') : k + 0 = k /\ k \in 1 .. Len(toDoor) /\ toDoor' = toDoor
        BY <2>1, <2>5
      <3> QED
        BY <2>1, <2>5, <3>1
    <2> QED
      BY <2>1, <2>4, <2>5
  <1>4. CASE ServeDoor
    <2>1. /\ Ack(puts[applied + 1]) \in Messages /\ UNCHANGED <<arrived, done>>
          /\ toDoor' = Append(toDoor, Ack(puts[applied + 1]))
          /\ srv'.todo \in {srv.todo, Null} /\ puts[applied + 1] \in Puts
      BY <1>t, <1>4, ServeDoorType DEF ServeDoor
    <2>2. \A t \in Ids : ~Bears(Ack(puts[applied + 1]), t)
      BY <2>1, BearsWhat DEF Puts, Null, Ids
    <2> QED
      BY <1>2, <2>1, <2>2
  <1>5. CASE Receive
    <2>1. /\ toDoor # <<>> /\ toDoor' = Tail(toDoor) /\ UNCHANGED <<arrived, srv>>
          /\ AckTaken \/ Learnt
      BY <1>5, ReceiveShape
    <2>2. /\ Len(toDoor') = Len(toDoor) - 1
          /\ \A k \in 1 .. Len(toDoor) - 1 : toDoor'[k] = toDoor[k + 1] /\ k + 1 \in 1 .. Len(toDoor)
      BY <1>t, <2>1, HeadTail
    <2>3. \A k \in 1 .. Len(toDoor') : \A t \in Ids :
            Bears(toDoor'[k], t) => k + 1 \in 1 .. Len(toDoor) /\ Bears(toDoor[k + 1], t)
      BY <2>2
    <2>4. UNCHANGED done \/ (\E t \in Ids : done' = Append(done, t) /\ Bears(toDoor[1], t))
      <3>1. CASE AckTaken \/ Idles(puts)
        BY <3>1 DEF AckTaken, Idles
      <3>2. CASE Learnt /\ Handles(cache'.todo, puts) /\ cache'.todo # Null /\ Bears(toDoor[1], cache'.todo)
        <4>1. PICK t \in Ids : t = cache'.todo
          BY <3>2 DEF Learnt
        <4>2. done' = Append(done, t) /\ Bears(toDoor[1], t)
          BY <3>2, <4>1 DEF Handles
        <4> QED
          BY <4>2
      <3> QED
        BY <2>1, <3>1, <3>2 DEF Learnt
    <2>5. 1 \in {0, 1} /\ 1 # 0
      OBVIOUS
    <2> QED
      BY <2>1, <2>3, <2>4, <2>5
  <1>6. CASE Drop \/ Crash
    <2>1. toDoor' = <<>> /\ UNCHANGED <<arrived, done, srv>>
      BY <1>6 DEF Drop, Crash, history
    <2>2. \A k \in 1 .. Len(toDoor') : FALSE
      BY <2>1
    <2> QED
      BY <2>1, <2>2
  <1>7. CASE Connect
    BY <1>7 DEF Connect, history
  <1>8. CASE Heartbeat
    BY <1>1, <1>8, HeartbeatShape DEF Idles
  <1>9. CASE Restart \/ UNCHANGED vars
    BY <1>1, <1>9 DEF Restart, vars, client, history
  <1>10. ASSUME NEW u \in Users, Writecom(u) \/ CloseTab(u)
         PROVE  UNCHANGED <<arrived, toDoor, done, srv>>
    BY <1>10 DEF Writecom, CloseTab, client, history
  <1>11. ASSUME NEW u \in Users, ServePage(u), up[u][1].key = "todo"
         PROVE  \E v \in Ids :
                  /\ arrived' = Append(arrived, v) /\ fate[v] = "sent" /\ srv'.todo = v
                  /\ UNCHANGED done
                  /\ \/ UNCHANGED toDoor
                     \/ /\ toDoor' = Append(toDoor, Update("todo", v))
                        /\ Update("todo", v) \in Messages
    <2>1. ~UNCHANGED arrived
      <3>1. /\ up[u] # <<>> /\ arrived' = Append(arrived, up[u][1].val)
        BY <1>t, <1>11, ServePageType DEF ServePage
      <3>2. PICK v \in Ids : v = up[u][1].val
        BY <1>t, <1>11, <3>1, PageHead DEF TypeOK
      <3>3. arrived \in Seq(Ids)
        BY <1>t DEF TypeOK, HistoryOK
      <3>4. Len(arrived') = Len(arrived) + 1 /\ Len(arrived) \in Nat
        BY <3>1, <3>2, <3>3, AppendAt
      <3> QED
        BY <3>4
    <2> QED
      BY <2>1, ArrivedGrows
  <1> QED
    BY <1>1, <1>3, <1>4, <1>5, <1>6, <1>7, <1>8, <1>9, <1>10, <1>11 DEF Next

\* A command is in turn with itself.
LEMMA OwnTurn ==
    ASSUME Arrivals, NEW a \in Ids
    PROVE  NotAfter(arrived, a, a)
  <1> SUFFICES ASSUME NEW j \in 1 .. Len(arrived), NEW k \in 1 .. Len(arrived),
                      arrived[j] = a, arrived[k] = a
               PROVE  j <= k
    BY DEF NotAfter
  <1>1. j = k
    BY DEF Arrivals
  <1> QED
    BY <1>1

\* Commands stay in the order of arrival.
LEMMA NextInTurn ==
    ASSUME Base, Arrivals, InTurn, [Next]_vars
    PROVE  InTurn'
  <1>t. /\ toDoor \in Seq(Messages) /\ Len(toDoor) \in Nat /\ done \in Seq(Ids) /\ Len(done) \in Nat
        /\ srv.todo \in Ids \cup {Null} /\ Null \notin Ids
    BY DEF Base, TypeOK, ServerOK, DoorOK, HistoryOK, Null, Ids
  <1>d. \A n \in 1 .. Len(done) : done[n] \in Ids /\ HasArrived(done[n])
    BY <1>t, ElementOf DEF Base, Heard
  <1>1. ASSUME UNCHANGED arrived, srv'.todo \in {srv.todo, Null}, NEW n \in {0, 1},
               \A k \in 1 .. Len(toDoor') : \A t \in Ids :
                 Bears(toDoor'[k], t) => k + n \in 1 .. Len(toDoor) /\ Bears(toDoor[k + n], t),
               n = 0 => UNCHANGED done,
               \/ UNCHANGED done
               \/ /\ toDoor # <<>>
                  /\ \E t \in Ids : done' = Append(done, t) /\ Bears(toDoor[1], t)
        PROVE  InTurn'
    <2>1. ASSUME NEW k \in 1 .. Len(toDoor'), NEW s \in Ids, Bears(toDoor'[k], s)
          PROVE  /\ srv'.todo # Null => NotAfter(arrived, s, srv'.todo)
                 /\ \A j \in k + 1 .. Len(toDoor') : \A t \in Ids :
                      Bears(toDoor'[j], t) => NotAfter(arrived, s, t)
      <3>1. k + n \in 1 .. Len(toDoor) /\ Bears(toDoor[k + n], s)
        BY <1>1, <2>1
      <3>2. ASSUME NEW j \in k + 1 .. Len(toDoor'), NEW t \in Ids, Bears(toDoor'[j], t)
            PROVE  NotAfter(arrived, s, t)
        <4>1. j \in 1 .. Len(toDoor')
          OBVIOUS
        <4>2. j + n \in 1 .. Len(toDoor) /\ Bears(toDoor[j + n], t)
          BY <1>1, <3>2, <4>1
        <4>3. j + n \in (k + n) + 1 .. Len(toDoor)
          BY <4>2, <3>1, <1>t
        <4> QED
          BY <3>1, <4>2, <4>3 DEF InTurn
      <3> QED
        BY <1>1, <3>1, <3>2 DEF InTurn
    <2>2. ASSUME NEW i \in 1 .. Len(done)
          PROVE  /\ srv'.todo # Null => NotAfter(arrived, done[i], srv'.todo)
                 /\ \A k \in 1 .. Len(toDoor') : \A t \in Ids :
                      Bears(toDoor'[k], t) => NotAfter(arrived, done[i], t)
      BY <1>1 DEF InTurn
    <2>3. CASE UNCHANGED done
      BY <1>1, <2>1, <2>2, <2>3 DEF InTurn
    <2>4. CASE /\ toDoor # <<>> /\ n = 1
               /\ \E t \in Ids : done' = Append(done, t) /\ Bears(toDoor[1], t)
      <3>1. PICK x \in Ids : done' = Append(done, x) /\ Bears(toDoor[1], x)
        BY <2>4
      <3>2. 1 \in 1 .. Len(toDoor)
        BY <1>t, <2>4, HeadTail
      <3>3. /\ srv'.todo # Null => NotAfter(arrived, x, srv'.todo)
            /\ \A k \in 1 .. Len(toDoor') : \A t \in Ids :
                 Bears(toDoor'[k], t) => NotAfter(arrived, x, t)
        <4>1. srv'.todo # Null => NotAfter(arrived, x, srv'.todo)
          BY <1>1, <3>1, <3>2 DEF InTurn
        <4>2. ASSUME NEW k \in 1 .. Len(toDoor'), NEW t \in Ids, Bears(toDoor'[k], t)
              PROVE  NotAfter(arrived, x, t)
          <5>1. k + 1 \in 1 .. Len(toDoor) /\ Bears(toDoor[k + 1], t)
            BY <1>1, <2>4, <4>2
          <5>2. k + 1 \in 1 + 1 .. Len(toDoor)
            BY <5>1
          <5> QED
            BY <3>1, <3>2, <5>1, <5>2 DEF InTurn
        <4> QED
          BY <4>1, <4>2
      <3>4. /\ Len(done') = Len(done) + 1 /\ done'[Len(done) + 1] = x
            /\ \A i \in 1 .. Len(done) : done'[i] = done[i]
        BY <1>t, <3>1, AppendAt
      <3>5. \A i \in 1 .. Len(done') : i \in 1 .. Len(done) \/ i = Len(done) + 1
        BY <1>t, <3>4
      <3>6. ASSUME NEW i \in 1 .. Len(done')
            PROVE  /\ srv'.todo # Null => NotAfter(arrived, done'[i], srv'.todo)
                   /\ \A k \in 1 .. Len(toDoor') : \A t \in Ids :
                        Bears(toDoor'[k], t) => NotAfter(arrived, done'[i], t)
        <4>1. CASE i \in 1 .. Len(done)
          BY <2>2, <3>4, <4>1
        <4>2. CASE i = Len(done) + 1
          BY <3>3, <3>4, <4>2
        <4> QED
          BY <3>5, <4>1, <4>2
      <3> QED
        BY <1>1, <2>1, <3>6 DEF InTurn
    <2> QED
      BY <1>1, <2>3, <2>4
  <1>2. ASSUME UNCHANGED <<arrived, done, srv>>, toDoor' = <<Snapshot(srv)>>
        PROVE  InTurn'
    <2>1. Len(toDoor') = 1 /\ toDoor'[1] = Snapshot(srv)
      BY <1>2
    <2>2. \A k \in 1 .. Len(toDoor') : k = 1
      BY <2>1
    <2>3. \A t \in Ids : Bears(toDoor'[1], t) => srv.todo = t
      BY <2>1, BearsWhat
    <2>4. \A t \in Ids : NotAfter(arrived, t, t)
      BY OwnTurn
    <2>5. \A k \in 1 .. Len(toDoor') : \A j \in k + 1 .. Len(toDoor') : FALSE
      BY <2>1
    <2> QED
      BY <1>2, <1>t, <2>2, <2>3, <2>4, <2>5 DEF InTurn
  <1>3. ASSUME NEW v \in Ids, arrived' = Append(arrived, v), fate[v] = "sent", srv'.todo = v,
               UNCHANGED done,
               \/ UNCHANGED toDoor
               \/ toDoor' = Append(toDoor, Update("todo", v)) /\ Update("todo", v) \in Messages
        PROVE  InTurn'
    <2>1. /\ \A a, b \in Ids : HasArrived(a) /\ HasArrived(b) /\ NotAfter(arrived, a, b)
                                 => NotAfter(arrived', a, b)
          /\ \A a \in Ids : NotAfter(arrived', a, v)
      BY <1>3, OrderStays
    <2>2. \A k \in 1 .. Len(toDoor') : \A t \in Ids :
            Bears(toDoor'[k], t) => t = v \/ (k \in 1 .. Len(toDoor) /\ Bears(toDoor[k], t))
      <3>1. CASE UNCHANGED toDoor
        BY <3>1
      <3>2. CASE toDoor' = Append(toDoor, Update("todo", v)) /\ Update("todo", v) \in Messages
        <4>1. /\ Len(toDoor') = Len(toDoor) + 1 /\ toDoor'[Len(toDoor) + 1] = Update("todo", v)
              /\ \A k \in 1 .. Len(toDoor) : toDoor'[k] = toDoor[k]
          BY <1>t, <3>2, AppendAt
        <4>2. \A k \in 1 .. Len(toDoor') : k \in 1 .. Len(toDoor) \/ k = Len(toDoor) + 1
          BY <1>t, <4>1
        <4> QED
          BY <4>1, <4>2, BearsWhat
      <3> QED
        BY <1>3, <3>1, <3>2
    <2>3. \A k \in 1 .. Len(toDoor) : \A t \in Ids : Bears(toDoor[k], t) => HasArrived(t)
      BY DEF Base, Heard
    <2>4. ASSUME NEW i \in 1 .. Len(done')
          PROVE  /\ NotAfter(arrived', done'[i], srv'.todo)
                 /\ \A k \in 1 .. Len(toDoor') : \A t \in Ids :
                      Bears(toDoor'[k], t) => NotAfter(arrived', done'[i], t)
      <3>1. done'[i] = done[i] /\ i \in 1 .. Len(done) /\ done[i] \in Ids /\ HasArrived(done[i])
        BY <1>3, <1>d
      <3>2. ASSUME NEW k \in 1 .. Len(toDoor'), NEW t \in Ids, Bears(toDoor'[k], t)
            PROVE  NotAfter(arrived', done[i], t)
        <4>1. CASE t = v
          BY <2>1, <3>1, <4>1
        <4>2. CASE t # v
          <5>1. k \in 1 .. Len(toDoor) /\ Bears(toDoor[k], t)
            BY <2>2, <3>2, <4>2
          <5>2. NotAfter(arrived, done[i], t)
            BY <3>1, <5>1 DEF InTurn
          <5> QED
            BY <2>1, <2>3, <3>1, <5>1, <5>2
        <4> QED
          BY <4>1, <4>2
      <3> QED
        BY <1>3, <2>1, <3>1, <3>2
    <2>5. ASSUME NEW k \in 1 .. Len(toDoor'), NEW s \in Ids, Bears(toDoor'[k], s)
          PROVE  /\ NotAfter(arrived', s, srv'.todo)
                 /\ \A j \in k + 1 .. Len(toDoor') : \A t \in Ids :
                      Bears(toDoor'[j], t) => NotAfter(arrived', s, t)
      <3>1. ASSUME NEW j \in k + 1 .. Len(toDoor'), NEW t \in Ids, Bears(toDoor'[j], t)
            PROVE  NotAfter(arrived', s, t)
        <4>1. j \in 1 .. Len(toDoor')
          OBVIOUS
        <4>2. CASE t = v
          BY <2>1, <4>2
        <4>3. CASE t # v
          <5>1. j \in 1 .. Len(toDoor) /\ Bears(toDoor[j], t)
            BY <2>2, <3>1, <4>1, <4>3
          <5>2. k \in 1 .. Len(toDoor) /\ j \in k + 1 .. Len(toDoor)
            BY <1>t, <5>1
          <5>3. Bears(toDoor[k], s)
            <6>1. toDoor'[k] = toDoor[k]
              BY <1>t, <1>3, <5>2, AppendAt
            <6> QED
              BY <2>5, <6>1
          <5>4. NotAfter(arrived, s, t)
            BY <5>1, <5>2, <5>3 DEF InTurn
          <5> QED
            BY <2>1, <2>3, <5>1, <5>2, <5>3, <5>4
        <4> QED
          BY <4>2, <4>3
      <3> QED
        BY <1>3, <2>1, <3>1
    <2> QED
      BY <2>4, <2>5 DEF InTurn
  <1> QED
    BY <1>1, <1>2, <1>3, MessagesMove

\* A command is not told again once its clear is acknowledged.
LEMMA NextNotAgain ==
    ASSUME Base, NotAgain, [Next]_vars
    PROVE  NotAgain'
  <1>t. /\ TypeOK /\ toDoor \in Seq(Messages) /\ Len(toDoor) \in Nat /\ puts \in Seq(Puts)
        /\ applied \in 0 .. Len(puts) /\ done \in Seq(Ids) /\ Len(done) \in Nat
        /\ srv.todo \in Ids \cup {Null} /\ Null \notin Ids /\ crashes \in Nat
    BY MailboxAssumption DEF Base, TypeOK, ServerOK, DoorOK, HistoryOK, Null, Ids
  <1>d. \A n \in 1 .. Len(done) : done[n] \in Ids /\ HasArrived(done[n])
    BY <1>t, ElementOf DEF Base, Heard
  <1>1. ASSUME UNCHANGED done, crashes' = 0 => crashes = 0,
               srv'.todo \in {srv.todo, Null}, Clearing(puts) => Clearing(puts'), UNCHANGED toDoor
        PROVE  NotAgain'
    BY <1>t, <1>d, <1>1 DEF NotAgain
  <1>2. ASSUME NEW m \in Messages, toDoor' = Append(toDoor, m), UNCHANGED <<done, crashes, puts>>,
               \A n \in 1 .. Len(done) : ~Bears(m, done[n]),
               ClearAck(m) => srv'.todo = Null, srv'.todo = srv.todo \/ ~\E n \in 1 .. Len(done) : srv'.todo = done[n]
        PROVE  NotAgain'
    <2>1. /\ Len(toDoor') = Len(toDoor) + 1 /\ toDoor'[Len(toDoor) + 1] = m
          /\ \A k \in 1 .. Len(toDoor) : toDoor'[k] = toDoor[k]
      BY <1>t, <1>2, AppendAt
    <2>2. \A k \in 1 .. Len(toDoor') : k \in 1 .. Len(toDoor) \/ k = Len(toDoor) + 1
      BY <1>t, <2>1
    <2> SUFFICES ASSUME crashes = 0, NEW n \in 1 .. Len(done)
                 PROVE  /\ srv'.todo = done[n] =>
                             Clearing(puts) /\ \A j \in 1 .. Len(toDoor') : ~ClearAck(toDoor'[j])
                        /\ \A k \in 1 .. Len(toDoor') :
                             Bears(toDoor'[k], done[n]) =>
                               Clearing(puts) /\ \A j \in 1 .. k : ~ClearAck(toDoor'[j])
      BY <1>2 DEF NotAgain
    <2>3. ASSUME srv'.todo = done[n]
          PROVE  Clearing(puts) /\ \A j \in 1 .. Len(toDoor') : ~ClearAck(toDoor'[j])
      <3>1. srv.todo = done[n] /\ ~ClearAck(m)
        BY <1>2, <1>d, <1>t, <2>3
      <3>2. Clearing(puts) /\ \A j \in 1 .. Len(toDoor) : ~ClearAck(toDoor[j])
        BY <3>1 DEF NotAgain
      <3> QED
        BY <2>1, <2>2, <3>1, <3>2
    <2>4. ASSUME NEW k \in 1 .. Len(toDoor'), Bears(toDoor'[k], done[n])
          PROVE  Clearing(puts) /\ \A j \in 1 .. k : ~ClearAck(toDoor'[j])
      <3>1. k \in 1 .. Len(toDoor) /\ Bears(toDoor[k], done[n])
        BY <1>2, <2>1, <2>2, <2>4
      <3>2. Clearing(puts) /\ \A j \in 1 .. k : ~ClearAck(toDoor[j])
        BY <3>1 DEF NotAgain
      <3>3. \A j \in 1 .. k : j \in 1 .. Len(toDoor)
        BY <1>t, <3>1
      <3> QED
        BY <2>1, <3>2, <3>3
    <2> QED
      BY <2>3, <2>4
  <1>3. ASSUME NEW u \in Users, ServePage(u) PROVE NotAgain'
    <2>1. /\ up[u] # <<>> /\ UNCHANGED <<done, crashes, puts>>
          /\ toDoor' = IF link = "up"
                       THEN Append(toDoor, Update(up[u][1].key, up[u][1].val)) ELSE toDoor
          /\ up[u][1].key # "todo" => srv'.todo = srv.todo
          /\ up[u][1].key = "todo" => srv'.todo = up[u][1].val
      BY <1>t, <1>3, ServePageType DEF ServePage, client, bounds
    <2>2. /\ Update(up[u][1].key, up[u][1].val) \in Messages /\ 1 \in 1 .. Len(up[u])
      BY <1>t, <2>1, PageHead DEF TypeOK
    <2>3. up[u][1].key = "todo" => \A n \in 1 .. Len(done) : up[u][1].val # done[n]
      BY <1>d, <2>2 DEF Base, InFlight, HasArrived, ArrivedIn
    <2>4. ~ClearAck(Update(up[u][1].key, up[u][1].val))
      BY DEF ClearAck, Update
    <2>5. \A n \in 1 .. Len(done) : ~Bears(Update(up[u][1].key, up[u][1].val), done[n])
      BY <2>3, BearsWhat
    <2>6. srv'.todo = srv.todo \/ ~\E n \in 1 .. Len(done) : srv'.todo = done[n]
      BY <2>1, <2>3
    <2>7. CASE link = "up"
      <3>1. toDoor' = Append(toDoor, Update(up[u][1].key, up[u][1].val))
        BY <2>1, <2>7
      <3> QED
        BY <1>2, <2>1, <2>2, <2>4, <2>5, <2>6, <3>1
    <2>8. CASE link # "up"
      <3>1. UNCHANGED toDoor
        BY <2>1, <2>8
      <3> QED
        BY <2>1, <2>6, <3>1 DEF NotAgain
    <2> QED
      BY <2>7, <2>8
  <1>4. CASE ServeDoor
    <2>1. /\ Ack(puts[applied + 1]) \in Messages /\ UNCHANGED <<done, crashes, puts>>
          /\ toDoor' = Append(toDoor, Ack(puts[applied + 1]))
          /\ srv'.todo = IF puts[applied + 1].key = "todo" THEN Null ELSE srv.todo
          /\ puts[applied + 1] \in Puts
      BY <1>t, <1>4, ServeDoorType DEF ServeDoor, bounds
    <2>2. \A n \in 1 .. Len(done) : ~Bears(Ack(puts[applied + 1]), done[n])
      BY <1>t, <1>d, <2>1, BearsWhat DEF Puts
    <2>3. ClearAck(Ack(puts[applied + 1])) => puts[applied + 1].key = "todo"
      BY DEF ClearAck, Ack
    <2>4. srv'.todo = srv.todo \/ ~\E n \in 1 .. Len(done) : srv'.todo = done[n]
      BY <1>t, <1>d, <2>1
    <2> QED
      BY <1>2, <2>1, <2>2, <2>3, <2>4
  <1>5. CASE Receive
    <2>1. /\ toDoor # <<>> /\ toDoor' = Tail(toDoor) /\ UNCHANGED <<srv, crashes>>
          /\ AckTaken \/ Learnt
      BY <1>5, ReceiveShape
    <2>2. /\ Len(toDoor') = Len(toDoor) - 1 /\ 1 \in 1 .. Len(toDoor)
          /\ \A k \in 1 .. Len(toDoor) - 1 : toDoor'[k] = toDoor[k + 1] /\ k + 1 \in 1 .. Len(toDoor)
      BY <1>t, <2>1, HeadTail
    <2>3. CASE UNCHANGED done /\ (Clearing(puts) /\ ~ClearAck(toDoor[1]) => Clearing(puts'))
      <3> SUFFICES ASSUME crashes = 0, NEW n \in 1 .. Len(done)
                   PROVE  /\ srv.todo = done[n] =>
                               Clearing(puts') /\ \A j \in 1 .. Len(toDoor') : ~ClearAck(toDoor'[j])
                          /\ \A k \in 1 .. Len(toDoor') :
                               Bears(toDoor'[k], done[n]) =>
                                 Clearing(puts') /\ \A j \in 1 .. k : ~ClearAck(toDoor'[j])
        BY <2>1, <2>3 DEF NotAgain
      <3>1. ASSUME srv.todo = done[n]
            PROVE  Clearing(puts') /\ \A j \in 1 .. Len(toDoor') : ~ClearAck(toDoor'[j])
        <4>1. Clearing(puts) /\ \A j \in 1 .. Len(toDoor) : ~ClearAck(toDoor[j])
          BY <3>1 DEF NotAgain
        <4> QED
          BY <2>2, <2>3, <4>1
      <3>2. ASSUME NEW k \in 1 .. Len(toDoor'), Bears(toDoor'[k], done[n])
            PROVE  Clearing(puts') /\ \A j \in 1 .. k : ~ClearAck(toDoor'[j])
        <4>1. k + 1 \in 1 .. Len(toDoor) /\ Bears(toDoor[k + 1], done[n])
          BY <2>2, <3>2
        <4>2. Clearing(puts) /\ \A j \in 1 .. k + 1 : ~ClearAck(toDoor[j])
          BY <4>1 DEF NotAgain
        <4>3. 1 \in 1 .. k + 1
          BY <4>1, <1>t
        <4>4. \A j \in 1 .. k : j + 1 \in 1 .. k + 1 /\ toDoor'[j] = toDoor[j + 1]
          <5>1. \A j \in 1 .. k : j + 1 \in 1 .. k + 1 /\ j \in 1 .. Len(toDoor) - 1
            BY <2>2, <1>t
          <5> QED
            BY <2>2, <5>1
        <4> QED
          BY <2>3, <4>2, <4>3, <4>4
      <3> QED
        BY <3>1, <3>2
    <2>4. CASE AckTaken
      <3>1. puts[1].key = "todo" => ClearAck(toDoor[1])
        BY <2>4 DEF AckTaken, ClearAck, Ack
      <3>2. Clearing(puts) /\ ~ClearAck(toDoor[1]) => Clearing(puts')
        <4>1. ~Crash
          BY <1>5 DEF Crash, Receive
        <4> QED
          BY <3>1, <4>1, ClearingStays
      <3> QED
        BY <2>3, <2>4, <3>2 DEF AckTaken
    <2>5. CASE Idles(puts)
      BY <2>3, <2>5 DEF Idles
    <2>6. CASE Learnt /\ Handles(cache'.todo, puts) /\ cache'.todo # Null /\ ~Clearing(puts)
      <3>1. PICK x \in Ids : x = cache'.todo
        BY <2>6 DEF Learnt
      <3>2. /\ puts'[Len(puts) + 1].key = "todo" /\ Len(puts') > Len(puts)
            /\ Len(puts') \in Nat /\ Len(puts) \in Nat
        BY <2>6, <3>1, HandlesPuts DEF Base, TypeOK
      <3>3. Len(puts) + 1 \in 1 .. Len(puts')
        BY <3>2
      <3>4. Clearing(puts')
        BY <3>2, <3>3 DEF Clearing
      <3>5. \A j \in 1 .. Len(toDoor) : ~ClearAck(toDoor[j])
        BY <1>t, <2>6, AckedClears DEF ClearAck, Base, Acked
      <3>6. \A j \in 1 .. Len(toDoor') : ~ClearAck(toDoor'[j])
        BY <2>2, <3>5
      <3>7. \A k \in 1 .. Len(toDoor') : \A j \in 1 .. k : j \in 1 .. Len(toDoor')
        BY <2>2, <1>t
      <3> QED
        BY <3>4, <3>6, <3>7 DEF NotAgain
    <2> QED
      BY <2>1, <2>4, <2>5, <2>6 DEF Learnt
  <1>6. CASE Heartbeat
    <2>1. UNCHANGED <<done, crashes, srv, toDoor>> /\ ~Crash /\ ~Receive
      BY <1>6, HeartbeatShape DEF Idles, Heartbeat, Crash, Receive
    <2>2. Clearing(puts) => Clearing(puts')
      BY <2>1, ClearingStays
    <2> QED
      BY <1>1, <2>1, <2>2
  <1>7. CASE Crash
    <2>1. crashes' # 0
      BY <1>t, <1>7 DEF Crash
    <2> QED
      BY <2>1 DEF NotAgain
  <1>8. CASE Drop
    <2>1. toDoor' = <<>> /\ UNCHANGED <<done, crashes, srv, puts>>
      BY <1>8 DEF Drop, history
    <2>2. 1 .. Len(toDoor') = {}
      BY <2>1
    <2> QED
      BY <2>1, <2>2 DEF NotAgain
  <1>9. CASE Connect
    <2>1. toDoor' = <<Snapshot(srv)>> /\ UNCHANGED <<done, crashes, srv, puts>>
      BY <1>9 DEF Connect, history, bounds
    <2>2. Len(toDoor') = 1 /\ toDoor'[1] = Snapshot(srv)
      BY <2>1
    <2>3. \A j \in 1 .. Len(toDoor') : ~ClearAck(toDoor'[j])
      BY <2>2 DEF ClearAck, Snapshot
    <2>4. \A k \in 1 .. Len(toDoor') : \A t \in Ids : Bears(toDoor'[k], t) => srv.todo = t
      BY <2>2, BearsWhat
    <2>5. \A k \in 1 .. Len(toDoor') : \A j \in 1 .. k : j \in 1 .. Len(toDoor')
      BY <2>2
    <2> QED
      BY <1>d, <2>1, <2>3, <2>4, <2>5 DEF NotAgain
  <1>10. CASE Restart \/ UNCHANGED vars
    <2>1. UNCHANGED <<done, crashes, srv, puts, toDoor>>
      BY <1>10 DEF Restart, vars, client, history, bounds
    <2> QED
      BY <1>1, <2>1
  <1>11. ASSUME NEW u \in Users, Writecom(u) \/ CloseTab(u) PROVE NotAgain'
    <2>1. UNCHANGED <<done, crashes, srv, puts, toDoor>>
      BY <1>11 DEF Writecom, CloseTab, client, history, bounds
    <2> QED
      BY <1>1, <2>1
  <1> QED
    BY <1>3, <1>4, <1>5, <1>6, <1>7, <1>8, <1>9, <1>10, <1>11 DEF Next

\* A command is carried out after those that arrived before it, and again only
\* after a death.
LEMMA NextOrdered ==
    ASSUME Base, Arrivals, InTurn, NotAgain, Ordered, [Next]_vars
    PROVE  Ordered'
  <1>t. /\ toDoor \in Seq(Messages) /\ done \in Seq(Ids) /\ Len(done) \in Nat
        /\ crashes \in Nat
    BY MailboxAssumption DEF Base, TypeOK, DoorOK, HistoryOK
  <1>d. \A n \in 1 .. Len(done) : done[n] \in Ids /\ HasArrived(done[n])
    BY <1>t, ElementOf DEF Base, Heard
  <1>c. crashes > 0 => crashes' > 0
    <2>1. crashes' \in {crashes, crashes + 1}
      BY ReceiveShape, HeartbeatShape DEF Next, Writecom, CloseTab, ServePage, ServeDoor, Drop, Connect, Crash, Restart, vars, bounds
    <2> QED
      BY <1>t, <2>1
  <1>1. CASE UNCHANGED done
    <2>1. \A j, k \in 1 .. Len(done) : j < k => NotAfter(arrived', done[j], done[k])
      <3>1. CASE UNCHANGED arrived
        BY <3>1 DEF Ordered
      <3>2. ASSUME NEW v \in Ids, arrived' = Append(arrived, v), fate[v] = "sent"
            PROVE  \A j, k \in 1 .. Len(done) : j < k => NotAfter(arrived', done[j], done[k])
        BY <1>d, <3>2, OrderStays DEF Ordered
      <3> QED
        BY <3>1, <3>2, ArrivedGrows
    <2> QED
      BY <1>1, <1>c, <2>1 DEF Ordered
  <1>2. CASE done' # done
    <2>1. Receive
      BY <1>2, HeartbeatShape DEF Next, Writecom, CloseTab, ServePage, ServeDoor, Drop, Connect, Crash, Restart, vars, history, Idles
    <2>2. toDoor # <<>> /\ Learnt /\ UNCHANGED <<arrived, crashes>>
      BY <1>2, <2>1, ReceiveShape DEF AckTaken
    <2>3. /\ Handles(cache'.todo, puts) /\ ~Clearing(puts)
          /\ cache'.todo # Null /\ Bears(toDoor[1], cache'.todo)
      BY <1>2, <2>2 DEF Learnt, Idles
    <2>4. PICK x \in Ids : x = cache'.todo
      BY <2>2, <2>3 DEF Learnt
    <2>5. /\ Len(done') = Len(done) + 1 /\ done'[Len(done) + 1] = x
          /\ \A k \in 1 .. Len(done) : done'[k] = done[k]
      BY <2>3, <2>4, HandlesPuts DEF Base, TypeOK
    <2>6. 1 \in 1 .. Len(toDoor)
      BY <1>t, <2>2, HeadTail
    <2>7. \A n \in 1 .. Len(done) : NotAfter(arrived, done[n], x)
      BY <2>3, <2>4, <2>6 DEF InTurn
    <2>8. \A n \in 1 .. Len(done) : done[n] = x => crashes > 0
      <3> SUFFICES ASSUME NEW n \in 1 .. Len(done), done[n] = x, crashes = 0
                   PROVE  FALSE
        BY <1>t
      <3>1. Clearing(puts)
        BY <2>3, <2>4, <2>6 DEF NotAgain
      <3> QED
        BY <2>3, <3>1
    <2>9. ASSUME NEW j \in 1 .. Len(done'), NEW k \in 1 .. Len(done'), j < k
          PROVE  NotAfter(arrived, done'[j], done'[k]) /\ (done'[j] = done'[k] => crashes > 0)
      <3>1. j \in 1 .. Len(done) /\ (k \in 1 .. Len(done) \/ k = Len(done) + 1)
        BY <1>t, <2>5, <2>9
      <3>2. CASE k \in 1 .. Len(done)
        BY <2>5, <2>9, <3>1, <3>2 DEF Ordered
      <3>3. CASE k = Len(done) + 1
        BY <2>5, <2>7, <2>8, <3>1, <3>3
      <3> QED
        BY <3>1, <3>2, <3>3
    <2> QED
      BY <2>2, <2>9 DEF Ordered
  <1> QED
    BY <1>1, <1>2

\* Commands are carried out in the order of their arrival, each once, but for
\* the one that online.js repeats after a death.
THEOREM CarriedOutInOrder == Spec => []DoneInOrder
  <1>1. Init => Arrivals /\ InTurn /\ NotAgain /\ Ordered
    <2> SUFFICES ASSUME Init PROVE Arrivals /\ InTurn /\ NotAgain /\ Ordered
      OBVIOUS
    <2>1. /\ arrived = <<>> /\ done = <<>> /\ toDoor = <<>>
          /\ \A t \in Ids : fate[t] = "none"
      BY DEF Init
    <2>2. 1 .. Len(arrived) = {} /\ 1 .. Len(done) = {} /\ 1 .. Len(toDoor) = {}
      BY <2>1
    <2> QED
      BY <2>1, <2>2 DEF Arrivals, InTurn, NotAgain, Ordered, HasArrived, ArrivedIn
  <1>2. Base /\ Arrivals /\ InTurn /\ NotAgain /\ Ordered /\ [Next]_vars
          => Arrivals' /\ InTurn' /\ NotAgain' /\ Ordered'
    BY NextArrivals, NextInTurn, NextNotAgain, NextOrdered
  <1>3. Base /\ Arrivals /\ Ordered => DoneInOrder
    <2> SUFFICES ASSUME Base, Arrivals, Ordered,
                        NEW j \in 1 .. Len(done), NEW k \in 1 .. Len(done), j < k
                 PROVE  \/ Rank(done[j]) < Rank(done[k])
                        \/ crashes > 0 /\ done[j] = done[k]
      BY DEF DoneInOrder
    <2>1. done \in Seq(Ids) /\ arrived \in Seq(Ids) /\ Len(arrived) \in Nat
      BY DEF Base, TypeOK, HistoryOK
    <2>2. \A n \in 1 .. Len(done) : done[n] \in Ids /\ HasArrived(done[n])
      BY <2>1, ElementOf DEF Base, Heard
    <2>3. \A n \in 1 .. Len(done) : Rank(done[n]) \in 1 .. Len(arrived) /\ arrived[Rank(done[n])] = done[n]
      BY <2>2 DEF Rank, Arrivals
    <2>4. NotAfter(arrived, done[j], done[k]) /\ (done[j] = done[k] => crashes > 0)
      BY DEF Ordered
    <2>5. Rank(done[j]) <= Rank(done[k])
      BY <2>3, <2>4 DEF NotAfter
    <2>6. CASE done[j] = done[k]
      BY <2>4, <2>6
    <2>7. CASE done[j] # done[k]
      <3>1. Rank(done[j]) # Rank(done[k])
        BY <2>3, <2>7
      <3> QED
        BY <2>1, <2>3, <2>5, <3>1
    <2> QED
      BY <2>6, <2>7
  <1> QED
    BY Consistent, <1>1, <1>2, <1>3, PTL DEF Spec

-----------------------------------------------------------------------------
(* What the last write, and the last call, leave behind. *)

\* The last write to key among the first n of p, if there is one, is of v.
LastIs(p, n, key, v) ==
    \A k \in 1 .. n :
        p[k].key = key /\ (\A j \in k + 1 .. n : p[j].key # key) => p[k].val = v

\* Of the writes p the server has applied n, and has the value now; once it has
\* applied them all it has v.
Settles(p, n, key, now, v) ==
    /\ LastIs(p, Len(p), key, v)
    /\ (\A k \in 1 .. Len(p) : p[k].key # key) => now = v
    /\ LastIs(p, n, key, now)

\* The server applies one more.
LEMMA SettlesApplied ==
    ASSUME NEW P, NEW p \in Seq(P), NEW n \in Nat, n + 1 \in 1 .. Len(p), NEW key, NEW now, NEW v,
           Settles(p, n, key, now, v)
    PROVE  Settles(p, n + 1, key, IF p[n + 1].key = key THEN p[n + 1].val ELSE now, v)
  <1> DEFINE then == IF p[n + 1].key = key THEN p[n + 1].val ELSE now
  <1>1. (\A k \in 1 .. Len(p) : p[k].key # key) => then = v
    BY DEF Settles
  <1>2. ASSUME NEW k \in 1 .. n + 1, p[k].key = key, \A j \in k + 1 .. n + 1 : p[j].key # key
        PROVE  p[k].val = then
    <2>1. CASE k = n + 1
      BY <1>2, <2>1
    <2>2. CASE k # n + 1
      <3>1. k \in 1 .. n /\ n + 1 \in k + 1 .. n + 1 /\ \A j \in k + 1 .. n : j \in k + 1 .. n + 1
        BY <2>2
      <3> QED
        BY <1>2, <3>1 DEF Settles, LastIs
    <2> QED
      BY <2>1, <2>2
  <1> QED
    BY <1>1, <1>2 DEF Settles, LastIs

\* The first of the applied writes is acknowledged.
LEMMA SettlesAcked ==
    ASSUME NEW P, NEW p \in Seq(P), p # <<>>, NEW n \in 1 .. Len(p), NEW key, NEW now, NEW v,
           Settles(p, n, key, now, v)
    PROVE  Settles(Tail(p), n - 1, key, now, v)
  <1> DEFINE q == Tail(p)
  <1>1. /\ Len(p) \in Nat \ {0} /\ Len(q) = Len(p) - 1
        /\ \A k \in 1 .. Len(p) - 1 : q[k] = p[k + 1]
    BY HeadTail
  <1> HIDE DEF q
  <1>2. ASSUME NEW m \in 1 .. Len(p), NEW x, LastIs(p, m, key, x)
        PROVE  LastIs(q, m - 1, key, x)
    <2> SUFFICES ASSUME NEW k \in 1 .. m - 1, q[k].key = key, \A j \in k + 1 .. m - 1 : q[j].key # key
                 PROVE  q[k].val = x
      BY DEF LastIs
    <2>1. k + 1 \in 1 .. m /\ q[k] = p[k + 1]
      BY <1>1
    <2>2. ASSUME NEW j \in k + 2 .. m PROVE p[j].key # key
      <3>1. j - 1 \in k + 1 .. m - 1 /\ j - 1 \in 1 .. Len(p) - 1 /\ (j - 1) + 1 = j
        BY <1>1
      <3>2. q[j - 1] = p[j]
        BY <1>1, <3>1
      <3> QED
        BY <3>1, <3>2
    <2>3. \A j \in (k + 1) + 1 .. m : p[j].key # key
      BY <2>2
    <2> QED
      BY <1>2, <2>1, <2>3 DEF LastIs
  <1>3. ASSUME \A k \in 1 .. Len(q) : q[k].key # key
        PROVE  now = v
    <2>1. ASSUME NEW j \in 2 .. Len(p) PROVE p[j].key # key
      <3>1. j - 1 \in 1 .. Len(p) - 1 /\ (j - 1) + 1 = j
        BY <1>1
      <3>2. q[j - 1] = p[j] /\ j - 1 \in 1 .. Len(q)
        BY <1>1, <3>1
      <3> QED
        BY <1>3, <3>2
    <2>2. CASE p[1].key # key
      <3>1. \A k \in 1 .. Len(p) : k = 1 \/ k \in 2 .. Len(p)
        BY <1>1
      <3> QED
        BY <2>1, <2>2, <3>1 DEF Settles
    <2>3. CASE p[1].key = key
      <3>1. 1 \in 1 .. n /\ 1 \in 1 .. Len(p) /\ 1 + 1 = 2 /\ \A j \in 2 .. n : j \in 2 .. Len(p)
        BY <1>1
      <3>2. p[1].val = v /\ p[1].val = now
        BY <2>1, <2>3, <3>1 DEF Settles, LastIs
      <3> QED
        BY <3>2
    <2> QED
      BY <2>2, <2>3
  <1>4. LastIs(q, Len(q), key, v) /\ LastIs(q, n - 1, key, now)
    BY <1>1, <1>2 DEF Settles
  <1> QED
    BY <1>3, <1>4 DEF Settles, q

\* More is written, but not to key,
LEMMA SettlesOther ==
    ASSUME NEW P, NEW p \in Seq(P), NEW q \in Seq(P), Len(p) <= Len(q),
           \A k \in 1 .. Len(p) : q[k] = p[k],
           NEW n \in 0 .. Len(p), NEW key, NEW now, NEW v, Settles(p, n, key, now, v),
           \A k \in Len(p) + 1 .. Len(q) : q[k].key # key
    PROVE  Settles(q, n, key, now, v)
  <1>1. Len(p) \in Nat /\ Len(q) \in Nat
    OBVIOUS
  <1>2. ASSUME NEW k \in 1 .. Len(q), q[k].key = key, \A j \in k + 1 .. Len(q) : q[j].key # key
        PROVE  q[k].val = v
    <2>1. k \in 1 .. Len(p)
      BY <1>1, <1>2
    <2>2. \A j \in k + 1 .. Len(p) : j \in k + 1 .. Len(q) /\ j \in 1 .. Len(p)
      BY <1>1, <2>1
    <2>3. p[k].key = key /\ \A j \in k + 1 .. Len(p) : p[j].key # key
      BY <1>2, <2>1, <2>2
    <2>4. p[k].val = v
      BY <2>1, <2>3 DEF Settles, LastIs
    <2> QED
      BY <2>1, <2>4
  <1>3. ASSUME \A k \in 1 .. Len(q) : q[k].key # key
        PROVE  now = v
    <2>1. \A k \in 1 .. Len(p) : k \in 1 .. Len(q) /\ q[k] = p[k]
      BY <1>1
    <2> QED
      BY <1>3, <2>1 DEF Settles
  <1>4. ASSUME NEW k \in 1 .. n, q[k].key = key, \A j \in k + 1 .. n : q[j].key # key
        PROVE  q[k].val = now
    <2>1. k \in 1 .. Len(p) /\ \A j \in k + 1 .. n : j \in 1 .. Len(p)
      BY <1>1
    <2> QED
      BY <1>4, <2>1 DEF Settles, LastIs
  <1> QED
    BY <1>2, <1>3, <1>4 DEF Settles, LastIs

\* or v is written to it.
LEMMA SettlesWritten ==
    ASSUME NEW P, NEW p \in Seq(P), NEW q \in Seq(P), Len(p) <= Len(q),
           \A k \in 1 .. Len(p) : q[k] = p[k],
           NEW n \in 0 .. Len(p), NEW key, NEW now, NEW old, NEW v, Settles(p, n, key, now, old),
           NEW m \in Len(p) + 1 .. Len(q), q[m].key = key,
           \A k \in Len(p) + 1 .. Len(q) : q[k].key = key => q[k].val = v
    PROVE  Settles(q, n, key, now, v)
  <1>1. Len(p) \in Nat /\ Len(q) \in Nat /\ m \in 1 .. Len(q)
    OBVIOUS
  <1>2. ASSUME NEW k \in 1 .. Len(q), q[k].key = key, \A j \in k + 1 .. Len(q) : q[j].key # key
        PROVE  q[k].val = v
    <2>1. ~(m \in k + 1 .. Len(q))
      BY <1>2
    <2>2. k \in Len(p) + 1 .. Len(q)
      BY <1>1, <2>1
    <2> QED
      BY <1>2, <2>2
  <1>3. ~ \A k \in 1 .. Len(q) : q[k].key # key
    BY <1>1
  <1>4. ASSUME NEW k \in 1 .. n, q[k].key = key, \A j \in k + 1 .. n : q[j].key # key
        PROVE  q[k].val = now
    <2>1. k \in 1 .. Len(p) /\ \A j \in k + 1 .. n : j \in 1 .. Len(p)
      BY <1>1
    <2> QED
      BY <1>4, <2>1 DEF Settles, LastIs
  <1> QED
    BY <1>2, <1>3, <1>4 DEF Settles, LastIs

\* The last call of the siren, if there is one, was with mode.
SirenIs(s, mode) ==
    \A k \in 1 .. Len(s) :
        s[k].service = "Alarm" /\ (\A j \in k + 1 .. Len(s) : s[j].service # "Alarm")
          => s[k].mode = mode

\* Calls w of other services leave it,
LEMMA SirenOther ==
    ASSUME NEW C, NEW s \in Seq(C), NEW w \in Seq(C), NEW mode, SirenIs(s, mode),
           \A k \in 1 .. Len(w) : w[k].service # "Alarm"
    PROVE  SirenIs(s \o w, mode)
  <1> DEFINE q == s \o w
  <1>1. /\ Len(q) = Len(s) + Len(w) /\ Len(s) \in Nat /\ Len(w) \in Nat
        /\ \A k \in 1 .. Len(s) : q[k] = s[k]
        /\ \A k \in Len(s) + 1 .. Len(s) + Len(w) : q[k] = w[k - Len(s)]
    BY ConcatAt
  <1> HIDE DEF q
  <1> SUFFICES ASSUME NEW k \in 1 .. Len(q), q[k].service = "Alarm",
                      \A j \in k + 1 .. Len(q) : q[j].service # "Alarm"
               PROVE  q[k].mode = mode
    BY DEF SirenIs, q
  <1>2. ~(k \in Len(s) + 1 .. Len(s) + Len(w))
    <2> SUFFICES ASSUME k \in Len(s) + 1 .. Len(s) + Len(w) PROVE FALSE
      OBVIOUS
    <2>1. k - Len(s) \in 1 .. Len(w) /\ q[k] = w[k - Len(s)]
      BY <1>1
    <2> QED
      BY <2>1
  <1>3. k \in 1 .. Len(s) /\ \A j \in k + 1 .. Len(s) : j \in k + 1 .. Len(q) /\ q[j] = s[j]
    BY <1>1, <1>2
  <1>4. q[k] = s[k] /\ \A j \in k + 1 .. Len(s) : s[j].service # "Alarm"
    BY <1>1, <1>3
  <1> QED
    BY <1>3, <1>4 DEF SirenIs

\* and calls of the siren among them set it.
LEMMA SirenCalled ==
    ASSUME NEW C, NEW s \in Seq(C), NEW w \in Seq(C), NEW mode,
           NEW m \in 1 .. Len(w), w[m].service = "Alarm",
           \A k \in 1 .. Len(w) : w[k].service = "Alarm" => w[k].mode = mode
    PROVE  SirenIs(s \o w, mode)
  <1> DEFINE q == s \o w
  <1>1. /\ Len(q) = Len(s) + Len(w) /\ Len(s) \in Nat /\ Len(w) \in Nat
        /\ \A k \in Len(s) + 1 .. Len(s) + Len(w) : q[k] = w[k - Len(s)]
    BY ConcatAt
  <1> HIDE DEF q
  <1> SUFFICES ASSUME NEW k \in 1 .. Len(q), q[k].service = "Alarm",
                      \A j \in k + 1 .. Len(q) : q[j].service # "Alarm"
               PROVE  q[k].mode = mode
    BY DEF SirenIs, q
  <1>2. Len(s) + m \in Len(s) + 1 .. Len(s) + Len(w) /\ (Len(s) + m) - Len(s) = m
    BY <1>1
  <1>3. q[Len(s) + m] = w[m]
    BY <1>1, <1>2
  <1>4. ~(Len(s) + m \in k + 1 .. Len(q))
    BY <1>3
  <1>5. k \in Len(s) + 1 .. Len(s) + Len(w) /\ k - Len(s) \in 1 .. Len(w)
    BY <1>1, <1>2, <1>4
  <1>6. q[k] = w[k - Len(s)]
    BY <1>1, <1>5
  <1> QED
    BY <1>5, <1>6

-----------------------------------------------------------------------------
(* What the commands about the alarm write and call. *)

IsAlarm(t) == issued[t].todo \in {"Emergency", "AlarmOff"}
FlagOf(on) == IF on THEN "On" ELSE "Off"

\* A command that was given is one of these.
LEMMA TodoTyped ==
    ASSUME PagesOK, NEW t \in Ids, t <= Len(issued)
    PROVE  issued[t].todo \in {"Lock", "Unlock", "AlarmOff", "Emergency"}
  <1>1. t \in 1 .. Len(issued) /\ issued \in Seq([user : Users, todo : Todos])
    BY MailboxAssumption DEF PagesOK, Ids
  <1>2. issued[t] \in [user : Users, todo : Todos]
    BY <1>1, ElementOf
  <1> QED
    BY <1>2, MailboxAssumption

\* What is concatenated holds what its parts hold.
Holds(s, x) == \E k \in 1 .. Len(s) : s[k] = x

LEMMA Within ==
    ASSUME NEW S, NEW a \in Seq(S), NEW b \in Seq(S), NEW x, Holds(a, x) \/ Holds(b, x)
    PROVE  Holds(a \o b, x)
  <1> DEFINE c == a \o b
  <1>1. /\ Len(c) = Len(a) + Len(b) /\ Len(a) \in Nat /\ Len(b) \in Nat
        /\ \A k \in 1 .. Len(a) : c[k] = a[k]
        /\ \A k \in Len(a) + 1 .. Len(a) + Len(b) : c[k] = b[k - Len(a)]
    BY ConcatAt
  <1> HIDE DEF c
  <1>2. CASE Holds(a, x)
    <2>1. PICK m \in 1 .. Len(a) : a[m] = x
      BY <1>2 DEF Holds
    <2>2. m \in 1 .. Len(c) /\ c[m] = x
      BY <1>1, <2>1
    <2> QED
      BY <2>2 DEF Holds, c
  <1>3. CASE Holds(b, x)
    <2>1. PICK m \in 1 .. Len(b) : b[m] = x
      BY <1>3 DEF Holds
    <2>2. /\ Len(a) + m \in Len(a) + 1 .. Len(a) + Len(b) /\ Len(a) + m \in 1 .. Len(c)
          /\ (Len(a) + m) - Len(a) = m
      BY <1>1
    <2>3. c[Len(a) + m] = x
      BY <1>1, <2>1, <2>2
    <2> QED
      BY <2>2, <2>3 DEF Holds, c
  <1> QED
    BY <1>2, <1>3

\* What a command about the alarm writes to its two fields, and that no other
\* command writes to them.
LEMMA WritesEffect ==
    ASSUME PagesOK, NEW t \in Ids, t <= Len(issued), NEW name
    PROVE  LET w == WritesOf(t, name)
               on == issued[t].todo = "Emergency"
           IN  /\ IsAlarm(t) =>
                    /\ \E m \in 1 .. Len(w) : w[m].key = "Emergency"
                    /\ \E m \in 1 .. Len(w) : w[m].key = "popup"
               /\ \A k \in 1 .. Len(w) :
                    /\ w[k].key = "Emergency" => IsAlarm(t) /\ w[k].val = FlagOf(on)
                    /\ w[k].key = "popup" => IsAlarm(t) /\ w[k].val = on
  <1> DEFINE w == WritesOf(t, name)
             on == issued[t].todo = "Emergency"
             first == Put("todo", Null)
             log == Put("log", [id |-> t, name |-> name])
             flag == Put("Emergency", FlagOf(on))
             popup == Put("popup", on)
             G == {first, log, flag, popup}
  <1>1. /\ first.key = "todo" /\ log.key = "log" /\ flag.key = "Emergency" /\ popup.key = "popup"
        /\ flag.val = FlagOf(on) /\ popup.val = on
    BY DEF Put
  <1>2. CASE issued[t].todo \in {"Lock", "Unlock"}
    <2>1. w = <<first>> \o <<log>> /\ ~IsAlarm(t)
      BY <1>2 DEF WritesOf, Log, IsAlarm
    <2>2. <<first>> \in Seq({first, log}) /\ <<log>> \in Seq({first, log})
      OBVIOUS
    <2> HIDE DEF first, log, w, on
    <2>3. w \in Seq({first, log})
      BY <2>1, <2>2, ConcatAt
    <2>4. \A k \in 1 .. Len(w) : w[k] \in {first, log}
      BY <2>3, ElementOf
    <2>5. \A k \in 1 .. Len(w) : w[k].key \notin {"Emergency", "popup"}
      BY <1>1, <2>4
    <2> QED
      BY <2>1, <2>5 DEF w
  <1>3. CASE IsAlarm(t)
    <2>1. PICK s \in Seq(G) : w = <<first>> \o (s \o <<flag, popup>>)
      <3>1. CASE issued[t].todo = "AlarmOff"
        <4>1. w = <<first>> \o <<flag, popup>>
          BY <3>1 DEF WritesOf, Alert, FlagOf
        <4>2. <<>> \o <<flag, popup>> = <<flag, popup>> /\ <<>> \in Seq(G)
          OBVIOUS
        <4> QED
          BY <4>1, <4>2
      <3>2. CASE issued[t].todo = "Emergency"
        <4>1. w = <<first>> \o (<<log>> \o <<flag, popup>>)
          BY <3>2 DEF WritesOf, Alert, FlagOf, Log
        <4>2. <<log>> \in Seq(G)
          OBVIOUS
        <4> QED
          BY <4>1, <4>2
      <3> QED
        BY <1>3, <3>1, <3>2 DEF IsAlarm
    <2> DEFINE tail == <<flag, popup>>
    <2>2. /\ <<first>> \in Seq(G) /\ tail \in Seq(G) /\ Len(tail) = 2
          /\ tail[1] = flag /\ tail[2] = popup /\ w = <<first>> \o (s \o tail)
      BY <2>1
    <2> HIDE DEF first, log, flag, popup, G, w, on, tail
    <2>3. s \o tail \in Seq(G) /\ w \in Seq(G)
      <3>1. s \o tail \in Seq(G)
        BY <2>2, ConcatAt
      <3> QED
        BY <2>2, <3>1, ConcatAt
    <2>4. Holds(w, flag) /\ Holds(w, popup)
      <3>1. Holds(tail, flag) /\ Holds(tail, popup)
        BY <2>2 DEF Holds
      <3>2. Holds(s \o tail, flag) /\ Holds(s \o tail, popup)
        BY <2>2, <3>1, Within
      <3> QED
        BY <2>2, <2>3, <3>2, Within
    <2>5. \A k \in 1 .. Len(w) : w[k] \in {first, log, flag, popup}
      BY <2>3, ElementOf DEF G
    <2>6. \A k \in 1 .. Len(w) : /\ w[k].key = "Emergency" => w[k].val = FlagOf(on)
                                 /\ w[k].key = "popup" => w[k].val = on
      BY <1>1, <2>5
    <2> QED
      BY <1>1, <1>3, <2>4, <2>6 DEF w, on, Holds
  <1> QED
    BY <1>2, <1>3, TodoTyped DEF IsAlarm

\* What it asks the siren for, if there is one.
LEMMA CallsEffect ==
    ASSUME PagesOK, NEW t \in Ids, t <= Len(issued)
    PROVE  LET w == CallsOf(t)
           IN  /\ IsAlarm(t) /\ "Alarm" \in Services => \E m \in 1 .. Len(w) : w[m].service = "Alarm"
               /\ \A k \in 1 .. Len(w) :
                    w[k].service = "Alarm" =>
                      IsAlarm(t) /\ w[k].mode = FlagOf(issued[t].todo = "Emergency")
  <1> USE DEF CallsOf, Call, Called, IsAlarm, FlagOf
  <1>1. CASE issued[t].todo = "Lock" \/ issued[t].todo = "Unlock"
    <2>1. ASSUME NEW k \in 1 .. Len(CallsOf(t)) PROVE CallsOf(t)[k].service = "Motor"
      BY <1>1
    <2> QED
      BY <1>1, <2>1
  <1>2. CASE issued[t].todo = "AlarmOff"
    BY <1>2
  <1>3. CASE issued[t].todo = "Emergency"
    <2> DEFINE M == Called(Call("Motor", "Open", TRUE))
               A == Called(Call("Alarm", "On", TRUE))
               N == Called(Call("Notification", "Emergency!!!", FALSE))
               C == {Call("Motor", "Open", TRUE), Call("Alarm", "On", TRUE),
                     Call("Notification", "Emergency!!!", FALSE)}
    <2>1. CallsOf(t) = (M \o A) \o N
      BY <1>3
    <2>2. /\ \A c \in C : c.service = "Alarm" => c.mode = "On"
          /\ Call("Motor", "Open", TRUE) \in C /\ Call("Alarm", "On", TRUE) \in C
          /\ Call("Notification", "Emergency!!!", FALSE) \in C
          /\ Call("Alarm", "On", TRUE).service = "Alarm"
      OBVIOUS
    <2>3. ASSUME NEW c \in C PROVE Called(c) \in Seq(C) /\ (c.service \in Services => Holds(Called(c), c))
      <3> HIDE DEF C
      <3>1. <<c>> \in Seq(C) /\ Len(<<c>>) = 1 /\ <<c>>[1] = c /\ <<>> \in Seq(C)
        OBVIOUS
      <3>2. CASE c.service \in Services
        <4>1. Called(c) = <<c>> /\ 1 \in 1 .. 1
          BY <3>2
        <4> QED
          BY <3>1, <4>1 DEF Holds
      <3>3. CASE c.service \notin Services
        BY <3>1, <3>3
      <3> QED
        BY <3>2, <3>3
    <2>4. M \in Seq(C) /\ A \in Seq(C) /\ N \in Seq(C)
      <3> HIDE DEF C, Call, Called
      <3> QED
        BY <2>2, <2>3
    <2>5. "Alarm" \in Services => Holds(A, Call("Alarm", "On", TRUE))
      <3> HIDE DEF C, Call, Called
      <3> QED
        BY <2>2, <2>3
    <2> HIDE DEF M, A, N, C, CallsOf
    <2>6. M \o A \in Seq(C) /\ CallsOf(t) \in Seq(C)
      <3>1. M \o A \in Seq(C)
        BY <2>4, ConcatAt
      <3> QED
        BY <2>1, <2>4, <3>1, ConcatAt
    <2>7. ASSUME "Alarm" \in Services
          PROVE  \E m \in 1 .. Len(CallsOf(t)) : CallsOf(t)[m].service = "Alarm"
      <3> DEFINE a == Call("Alarm", "On", TRUE)
      <3> HIDE DEF a
      <3>1. Holds(A, a)
        BY <2>5, <2>7 DEF a
      <3>2. Holds(M \o A, a)
        BY <2>4, <3>1, Within
      <3>3. Holds(CallsOf(t), a)
        BY <2>1, <2>4, <2>6, <3>2, Within
      <3>4. a.service = "Alarm"
        BY DEF a
      <3> QED
        BY <3>3, <3>4 DEF Holds
    <2>8. \A k \in 1 .. Len(CallsOf(t)) : CallsOf(t)[k].service = "Alarm" => CallsOf(t)[k].mode = "On"
      BY <2>2, <2>6, ElementOf
    <2> QED
      BY <1>3, <2>7, <2>8
  <1> QED
    BY <1>1, <1>2, <1>3, TodoTyped

\* What was carried out had been given.
LEMMA DoneGiven ==
    ASSUME Base
    PROVE  /\ done \in Seq(Ids) /\ Len(done) \in Nat
           /\ \A k \in 1 .. Len(done) : done[k] \in Ids /\ done[k] <= Len(issued)
  <1>1. done \in Seq(Ids) /\ Len(done) \in Nat
    BY DEF Base, TypeOK, HistoryOK
  <1>2. ASSUME NEW k \in 1 .. Len(done) PROVE done[k] \in Ids /\ done[k] <= Len(issued)
    <2>1. done[k] \in Ids
      BY <1>1, ElementOf
    <2> QED
      BY <2>1 DEF Base, Heard, InFlight, HasArrived, ArrivedIn
  <1> QED
    BY <1>1, <1>2

\* The alarm is as the last command about it left it, while none is carried out,
LEMMA AlarmingStays ==
    ASSUME UNCHANGED done, \A k \in 1 .. Len(done) : issued'[done[k]] = issued[done[k]]
    PROVE  Alarming' = Alarming
  BY DEF Alarming

\* and as the next one leaves it.
LEMMA AlarmingNext ==
    ASSUME Base, UNCHANGED issued, NEW t \in Ids, done' = Append(done, t)
    PROVE  /\ IsAlarm(t) => Alarming' = (issued[t].todo = "Emergency")
           /\ ~IsAlarm(t) => Alarming' = Alarming
  <1> DEFINE n == Len(done)
             alarms == {k \in 1 .. n : issued[done[k]].todo \in {"Emergency", "AlarmOff"}}
             then == {k \in 1 .. n + 1 : issued[done'[k]].todo \in {"Emergency", "AlarmOff"}}
  <1>1. /\ n \in Nat /\ Len(done') = n + 1 /\ done'[n + 1] = t
        /\ \A k \in 1 .. n : done'[k] = done[k]
    BY DoneGiven, AppendAt
  <1>2. /\ Alarming <=> \E k \in alarms : (\A j \in alarms : j <= k) /\ issued[done[k]].todo = "Emergency"
        /\ Alarming' <=> \E k \in then : (\A j \in then : j <= k) /\ issued[done'[k]].todo = "Emergency"
    BY <1>1 DEF Alarming
  <1> HIDE DEF n
  <1>3. CASE IsAlarm(t)
    <2>1. n + 1 \in then /\ \A j \in then : j <= n + 1
      BY <1>1, <1>3 DEF IsAlarm
    <2>2. \A k \in then : (\A j \in then : j <= k) => k = n + 1
      BY <1>1, <2>1
    <2>3. Alarming' <=> issued[t].todo = "Emergency"
      BY <1>1, <1>2, <2>1, <2>2
    <2> QED
      BY <1>3, <2>3 DEF Alarming
  <1>4. CASE ~IsAlarm(t)
    <2>1. then = alarms /\ \A k \in alarms : done'[k] = done[k]
      BY <1>1, <1>4 DEF IsAlarm
    <2>2. Alarming' <=> Alarming
      BY <1>2, <2>1
    <2> QED
      BY <1>4, <2>2 DEF Alarming
  <1> QED
    BY <1>3, <1>4

-----------------------------------------------------------------------------
(* Flag, popup and siren. *)

\* Once everything is applied, flag, popup and siren are as the last command
\* left them.
EffectsFollow ==
    crashes = 0 =>
        /\ Settles(puts, applied, "Emergency", srv.emergency, FlagOf(Alarming))
        /\ Settles(puts, applied, "popup", srv.popup, Alarming)
        /\ SirenIs(calls, FlagOf(Alarming))

\* It stays so when the listener carries a command out,
LEMMA RunFollows ==
    ASSUME Base, EffectsFollow, crashes = 0, UNCHANGED <<srv, applied, issued, crashes>>,
           NEW t \in Ids, t <= Len(issued), NEW name \in Users \cup {NoUser},
           puts' = puts \o WritesOf(t, name), calls' = calls \o CallsOf(t), done' = Append(done, t)
    PROVE  EffectsFollow'
  <1> DEFINE w == WritesOf(t, name)
             c == CallsOf(t)
             on == issued[t].todo = "Emergency"
             a == Alarming
             b == Alarming'
  <1>t. /\ puts \in Seq(Puts) /\ applied \in 0 .. Len(puts) /\ calls \in Seq(Calls) /\ PagesOK
        /\ w \in Seq(Puts) /\ c \in Seq(Calls)
    BY WritesTyped, CallsTyped DEF Base, TypeOK, DoorOK
  <1>f. /\ Settles(puts, applied, "Emergency", srv.emergency, FlagOf(a))
        /\ Settles(puts, applied, "popup", srv.popup, a)
        /\ SirenIs(calls, FlagOf(a))
    BY DEF EffectsFollow
  <1>a. /\ IsAlarm(t) => b = on
        /\ ~IsAlarm(t) => b = a
    BY AlarmingNext
  <1>w. /\ IsAlarm(t) => /\ \E m \in 1 .. Len(w) : w[m].key = "Emergency"
                         /\ \E m \in 1 .. Len(w) : w[m].key = "popup"
        /\ \A k \in 1 .. Len(w) :
             /\ w[k].key = "Emergency" => IsAlarm(t) /\ w[k].val = FlagOf(on)
             /\ w[k].key = "popup" => IsAlarm(t) /\ w[k].val = on
    BY <1>t, WritesEffect
  <1>c. /\ IsAlarm(t) /\ "Alarm" \in Services => \E m \in 1 .. Len(c) : c[m].service = "Alarm"
        /\ \A k \in 1 .. Len(c) :
             c[k].service = "Alarm" => IsAlarm(t) /\ c[k].mode = FlagOf(on)
    BY <1>t, CallsEffect
  <1>p. /\ puts' \in Seq(Puts) /\ Len(puts') = Len(puts) + Len(w)
        /\ Len(puts) \in Nat /\ Len(w) \in Nat /\ Len(puts) <= Len(puts')
        /\ \A k \in 1 .. Len(puts) : puts'[k] = puts[k]
        /\ \A k \in Len(puts) + 1 .. Len(puts') : puts'[k] = w[k - Len(puts)]
    <2>1. puts' = puts \o w
      OBVIOUS
    <2> HIDE DEF w
    <2>2. /\ puts' \in Seq(Puts) /\ Len(puts') = Len(puts) + Len(w)
          /\ Len(puts) \in Nat /\ Len(w) \in Nat
          /\ \A k \in 1 .. Len(puts) : puts'[k] = puts[k]
          /\ \A k \in Len(puts) + 1 .. Len(puts) + Len(w) : puts'[k] = w[k - Len(puts)]
      BY <1>t, <2>1, ConcatAt
    <2> QED
      BY <2>2
  <1>s. /\ srv' = srv /\ applied' = applied /\ calls' = calls \o c
    OBVIOUS
  <1> HIDE DEF w, c, on, a, b
  <1>n. \A k \in Len(puts) + 1 .. Len(puts') : k - Len(puts) \in 1 .. Len(w)
    BY <1>p
  <1>1. CASE ~IsAlarm(t)
    <2>1. \A k \in Len(puts) + 1 .. Len(puts') : puts'[k].key \notin {"Emergency", "popup"}
      BY <1>p, <1>n, <1>w, <1>1
    <2>2. /\ Settles(puts', applied, "Emergency", srv.emergency, FlagOf(a))
          /\ Settles(puts', applied, "popup", srv.popup, a)
      BY <1>t, <1>p, <1>f, <2>1, SettlesOther
    <2>3. SirenIs(calls \o c, FlagOf(a))
      BY <1>t, <1>f, <1>c, <1>1, SirenOther
    <2> QED
      BY <1>a, <1>s, <1>1, <2>2, <2>3 DEF EffectsFollow, b, FlagOf
  <1>2. CASE IsAlarm(t)
    <2>1. ASSUME NEW k \in Len(puts) + 1 .. Len(puts')
          PROVE  /\ puts'[k].key = "Emergency" => puts'[k].val = FlagOf(on)
                 /\ puts'[k].key = "popup" => puts'[k].val = on
      <3>1. puts'[k] = w[k - Len(puts)] /\ k - Len(puts) \in 1 .. Len(w)
        BY <1>p, <1>n
      <3> QED
        BY <1>w, <3>1
    <2>2. ASSUME NEW m \in 1 .. Len(w)
          PROVE  /\ Len(puts) + m \in Len(puts) + 1 .. Len(puts')
                 /\ puts'[Len(puts) + m] = w[m]
      <3>1. Len(puts) + m \in Len(puts) + 1 .. Len(puts') /\ (Len(puts) + m) - Len(puts) = m
        BY <1>p
      <3> QED
        BY <1>p, <3>1
    <2>3. Settles(puts', applied, "Emergency", srv.emergency, FlagOf(on))
      <3>1. PICK m \in Len(puts) + 1 .. Len(puts') : puts'[m].key = "Emergency"
        BY <1>w, <1>2, <2>2
      <3> QED
        BY <1>t, <1>p, <1>f, <2>1, <3>1, SettlesWritten
    <2>4. Settles(puts', applied, "popup", srv.popup, on)
      <3>1. PICK m \in Len(puts) + 1 .. Len(puts') : puts'[m].key = "popup"
        BY <1>w, <1>2, <2>2
      <3> QED
        BY <1>t, <1>p, <1>f, <2>1, <3>1, SettlesWritten
    <2>5. SirenIs(calls', FlagOf(on))
      <3>1. CASE "Alarm" \in Services
        BY <1>t, <1>c, <1>s, <1>2, <3>1, SirenCalled
      <3>2. CASE "Alarm" \notin Services
        <4>1. calls' \in Seq(Calls)
          BY <1>t, <1>s, ConcatAt
        <4>2. ASSUME NEW k \in 1 .. Len(calls') PROVE calls'[k].service # "Alarm"
          <5>1. calls'[k] \in Calls
            BY <4>1, ElementOf
          <5> QED
            BY <3>2, <5>1 DEF Calls
        <4> QED
          BY <4>2 DEF SirenIs
      <3> QED
        BY <3>1, <3>2
    <2> QED
      BY <1>a, <1>s, <1>2, <2>3, <2>4, <2>5 DEF EffectsFollow, b, FlagOf
  <1> QED
    BY <1>1, <1>2

\* when online.js receives something,
LEMMA ReceiveFollows ==
    ASSUME Base, EffectsFollow, Receive
    PROVE  EffectsFollow'
  <1> SUFFICES ASSUME crashes' = 0 PROVE EffectsFollow'
    BY DEF EffectsFollow
  <1>1. /\ toDoor # <<>> /\ (AckTaken \/ Learnt) /\ toDoor[1] \in Messages
        /\ UNCHANGED <<issued, srv, crashes>> /\ crashes = 0
    BY ReceiveShape
  <1>t. /\ puts \in Seq(Puts) /\ Len(puts) \in Nat /\ applied \in 0 .. Len(puts) /\ toDoor \in Seq(Messages)
    BY DEF Base, TypeOK, DoorOK
  <1>f. /\ Settles(puts, applied, "Emergency", srv.emergency, FlagOf(Alarming))
        /\ Settles(puts, applied, "popup", srv.popup, Alarming)
        /\ SirenIs(calls, FlagOf(Alarming))
    BY <1>1 DEF EffectsFollow
  <1>s. UNCHANGED done => Alarming' = Alarming
    BY <1>1, AlarmingStays
  <1>2. CASE AckTaken
    <2>1. /\ puts # <<>> /\ applied \in 1 .. Len(puts) /\ puts' = Tail(puts) /\ applied' = applied - 1
          /\ UNCHANGED <<calls, done>>
      BY <1>t, <1>2 DEF AckTaken
    <2>2. /\ Settles(Tail(puts), applied - 1, "Emergency", srv.emergency, FlagOf(Alarming))
          /\ Settles(Tail(puts), applied - 1, "popup", srv.popup, Alarming)
      BY <1>t, <1>f, <2>1, SettlesAcked
    <2> QED
      BY <1>1, <1>f, <1>s, <2>1, <2>2 DEF EffectsFollow, FlagOf
  <1>3. CASE Learnt
    <2>1. /\ toDoor[1].kind # "ack" /\ applied' = applied
          /\ cache'.todo \in Ids \cup {Null} /\ cache'.name \in Users \cup {NoUser}
          /\ cache'.todo = cache.todo \/ Bears(toDoor[1], cache'.todo)
      BY <1>3 DEF Learnt
    <2>2. OnValue(cache', puts)
      <3>1. Head(toDoor) = toDoor[1]
        BY <1>1, <1>t, HeadTail
      <3> QED
        BY <2>1, <3>1 DEF Receive
    <2>3. cache'.todo # Null => cache'.todo <= Len(issued)
      <3>1. 1 \in 1 .. Len(toDoor)
        BY <1>1, <1>t, HeadTail
      <3>2. cache'.todo # Null => cache'.todo \in Ids /\ HasArrived(cache'.todo)
        BY <2>1, <3>1 DEF Base, Heard
      <3> QED
        BY <3>2 DEF Base, InFlight, HasArrived, ArrivedIn
    <2>4. CASE puts' = puts /\ UNCHANGED <<calls, done, fate>>
      BY <1>1, <1>f, <1>s, <2>1, <2>4 DEF EffectsFollow, FlagOf
    <2>5. CASE ~(puts' = puts /\ UNCHANGED <<calls, done, fate>>)
      <3>1. /\ Seen(cache', puts) # Null
            /\ puts' = puts \o WritesOf(Seen(cache', puts), cache'.name)
            /\ calls' = calls \o CallsOf(Seen(cache', puts))
            /\ done' = Append(done, Seen(cache', puts))
        BY <2>2, <2>5 DEF OnValue
      <3>2. Seen(cache', puts) = cache'.todo
        BY <3>1 DEF Seen
      <3>3. cache'.todo \in Ids /\ cache'.todo <= Len(issued)
        BY <2>1, <2>3, <3>1, <3>2
      <3> QED
        BY <1>1, <2>1, <3>1, <3>2, <3>3, RunFollows
    <2> QED
      BY <2>4, <2>5
  <1> QED
    BY <1>1, <1>2, <1>3

\* when the server applies one of its writes,
LEMMA ServeDoorFollows ==
    ASSUME Base, EffectsFollow, ServeDoor
    PROVE  EffectsFollow'
  <1> SUFFICES ASSUME crashes' = 0 PROVE EffectsFollow'
    BY DEF EffectsFollow
  <1> DEFINE put == puts[applied + 1]
  <1>1. /\ applied + 1 \in 1 .. Len(puts) /\ put \in Puts /\ applied \in Nat /\ applied' = applied + 1
        /\ puts \in Seq(Puts)
    BY ServeDoorType DEF Base, TypeOK, DoorOK
  <1>2. /\ UNCHANGED <<issued, puts, calls, done, crashes>>
        /\ srv' = CASE put.key = "todo" -> [srv EXCEPT !.todo = put.val]
                    [] put.key = "log" -> [srv EXCEPT !.log = @ \cup {put.val}]
                    [] put.key = "Emergency" -> [srv EXCEPT !.emergency = put.val]
                    [] put.key = "popup" -> [srv EXCEPT !.popup = put.val]
                    [] put.key = "time" -> srv
    BY DEF ServeDoor, bounds
  <1> HIDE DEF put
  <1>3. put.key \in {"todo", "time", "log", "Emergency", "popup"}
    BY <1>1 DEF Puts
  <1>4. /\ srv'.emergency = IF put.key = "Emergency" THEN put.val ELSE srv.emergency
        /\ srv'.popup = IF put.key = "popup" THEN put.val ELSE srv.popup
    <2>1. ServerOK
      BY DEF Base, TypeOK
    <2> QED
      BY <1>2, <1>3, <2>1 DEF ServerOK
  <1>5. Alarming' = Alarming /\ crashes = 0
    BY <1>2, AlarmingStays
  <1>6. /\ Settles(puts, applied, "Emergency", srv.emergency, FlagOf(Alarming))
        /\ Settles(puts, applied, "popup", srv.popup, Alarming)
        /\ SirenIs(calls, FlagOf(Alarming))
    BY <1>5 DEF EffectsFollow
  <1>7. /\ Settles(puts, applied + 1, "Emergency", srv'.emergency, FlagOf(Alarming))
        /\ Settles(puts, applied + 1, "popup", srv'.popup, Alarming)
    <2>1. /\ Settles(puts, applied + 1, "Emergency",
                     IF puts[applied + 1].key = "Emergency" THEN puts[applied + 1].val ELSE srv.emergency,
                     FlagOf(Alarming))
          /\ Settles(puts, applied + 1, "popup",
                     IF puts[applied + 1].key = "popup" THEN puts[applied + 1].val ELSE srv.popup,
                     Alarming)
      BY <1>1, <1>6, SettlesApplied
    <2> QED
      BY <1>4, <2>1 DEF put
  <1> QED
    BY <1>1, <1>2, <1>5, <1>6, <1>7 DEF EffectsFollow, FlagOf

\* and in every other step.
LEMMA NextFollows ==
    ASSUME Base, EffectsFollow, [Next]_vars
    PROVE  EffectsFollow'
  <1>t. /\ puts \in Seq(Puts) /\ Len(puts) \in Nat /\ applied \in 0 .. Len(puts) /\ PagesOK
        /\ ServerOK /\ crashes \in Nat
    BY MailboxAssumption DEF Base, TypeOK, DoorOK, HistoryOK
  <1>0. ASSUME UNCHANGED <<puts, applied, calls, done, crashes>>,
               srv'.emergency = srv.emergency, srv'.popup = srv.popup,
               \A k \in 1 .. Len(done) : issued'[done[k]] = issued[done[k]]
        PROVE  EffectsFollow'
    <2>1. Alarming' = Alarming
      BY <1>0, AlarmingStays
    <2> QED
      BY <1>0, <2>1 DEF EffectsFollow, FlagOf
  <1>1. ASSUME NEW u \in Users, Writecom(u) PROVE EffectsFollow'
    <2>1. /\ UNCHANGED <<srv, puts, applied, calls, done, crashes>>
      BY <1>1 DEF Writecom, client, bounds
    <2>2. PICK x \in [user : Users, todo : Todos] : issued' = Append(issued, x)
      BY <1>1 DEF Writecom
    <2>3. ASSUME NEW k \in 1 .. Len(done) PROVE issued'[done[k]] = issued[done[k]]
      <3>1. done[k] \in 1 .. Len(issued)
        BY DoneGiven DEF Ids
      <3>2. issued \in Seq([user : Users, todo : Todos])
        BY <1>t DEF PagesOK
      <3> QED
        BY <2>2, <3>1, <3>2, AppendAt
    <2> QED
      BY <1>0, <2>1, <2>3
  <1>2. ASSUME NEW u \in Users, CloseTab(u) PROVE EffectsFollow'
    BY <1>0, <1>2 DEF CloseTab, client, history, bounds
  <1>3. ASSUME NEW u \in Users, ServePage(u) PROVE EffectsFollow'
    <2>1. UNCHANGED <<issued, puts, applied, calls, done, crashes>>
      BY <1>3 DEF ServePage, client, bounds
    <2>2. Head(up[u]).key \in {"todo", "name"}
      BY <1>t, <1>3, PageHead DEF ServePage
    <2>3. srv' = [srv EXCEPT ![Head(up[u]).key] = Head(up[u]).val]
      BY <1>3 DEF ServePage
    <2>4. srv'.emergency = srv.emergency /\ srv'.popup = srv.popup
      BY <1>t, <2>2, <2>3 DEF ServerOK
    <2> QED
      BY <1>0, <2>1, <2>4
  <1>4. CASE Heartbeat
    <2>1. /\ puts' \in Seq(Puts) /\ Len(puts') = Len(puts) + 1 /\ puts'[Len(puts) + 1].key = "time"
          /\ \A k \in 1 .. Len(puts) : puts'[k] = puts[k]
      BY <1>4, HeartbeatType DEF TypeOK, DoorOK
    <2>2. UNCHANGED <<issued, srv, applied, calls, done, crashes>>
      BY <1>4, HeartbeatShape DEF Idles
    <2>3. Alarming' = Alarming
      BY <2>2, AlarmingStays
    <2>4. Len(puts) <= Len(puts') /\ \A k \in Len(puts) + 1 .. Len(puts') : k = Len(puts) + 1
      BY <1>t, <2>1
    <2>5. \A k \in Len(puts) + 1 .. Len(puts') : puts'[k].key \notin {"Emergency", "popup"}
      BY <2>1, <2>4
    <2>6. ASSUME crashes = 0
          PROVE  /\ Settles(puts', applied, "Emergency", srv.emergency, FlagOf(Alarming))
                 /\ Settles(puts', applied, "popup", srv.popup, Alarming)
      BY <1>t, <2>1, <2>4, <2>5, <2>6, SettlesOther DEF EffectsFollow
    <2> QED
      BY <2>2, <2>3, <2>6 DEF EffectsFollow, FlagOf
  <1>5. CASE Drop
    <2>1. /\ UNCHANGED <<issued, srv, puts, calls, done, crashes>> /\ applied' = 0
      BY <1>5 DEF Drop, history
    <2>2. Alarming' = Alarming
      BY <2>1, AlarmingStays
    <2>3. \A key, now, v : Settles(puts, applied, key, now, v) => Settles(puts, 0, key, now, v)
      BY DEF Settles, LastIs
    <2> QED
      BY <2>1, <2>2, <2>3 DEF EffectsFollow, FlagOf
  <1>6. CASE Crash
    BY <1>t, <1>6 DEF Crash, EffectsFollow
  <1>7. CASE Connect \/ Restart \/ UNCHANGED vars
    BY <1>0, <1>7 DEF Connect, Restart, vars, client, history, bounds
  <1> QED
    BY <1>1, <1>2, <1>3, <1>4, <1>5, <1>6, <1>7, ReceiveFollows, ServeDoorFollows DEF Next

\* The emergency flag, the popup and the siren end up as the last emergency
\* command that was carried out asks, for every number of people, commands,
\* heartbeats and lost connections.
THEOREM EffectsAlwaysMatch == Spec => []EffectsMatch
  <1>1. Init => EffectsFollow
    <2> SUFFICES ASSUME Init PROVE EffectsFollow
      OBVIOUS
    <2>1. ~Alarming /\ FlagOf(Alarming) = "Off" /\ Alarming = FALSE
      BY DEF Init, Alarming, FlagOf
    <2>2. /\ puts = <<>> /\ calls = <<>> /\ applied = 0 /\ Len(puts) = 0 /\ Len(calls) = 0
          /\ srv.emergency = "Off" /\ srv.popup = FALSE
      BY DEF Init
    <2>3. \A key, now : Settles(puts, applied, key, now, now)
      BY <2>2 DEF Settles, LastIs
    <2>4. SirenIs(calls, FlagOf(Alarming))
      BY <2>2 DEF SirenIs
    <2> QED
      BY <2>1, <2>2, <2>3, <2>4 DEF EffectsFollow
  <1>2. Base /\ EffectsFollow /\ [Next]_vars => EffectsFollow'
    BY NextFollows
  <1>3. Base /\ EffectsFollow => EffectsMatch
    <2> SUFFICES ASSUME Base, EffectsFollow, puts = <<>>, crashes = 0 PROVE EffectsMatch
      BY DEF EffectsMatch
    <2>1. srv.emergency = FlagOf(Alarming) /\ srv.popup = Alarming /\ SirenIs(calls, FlagOf(Alarming))
      BY DEF EffectsFollow, Settles
    <2>2. ASSUME NEW k \in 1 .. Len(calls), calls[k].service = "Alarm",
                 \A j \in {i \in 1 .. Len(calls) : calls[i].service = "Alarm"} : j <= k
          PROVE  calls[k].mode = FlagOf(Alarming)
      <3>1. \A j \in k + 1 .. Len(calls) : j \in 1 .. Len(calls) /\ ~(j <= k)
        BY DEF Base, TypeOK, DoorOK
      <3>2. \A j \in k + 1 .. Len(calls) : calls[j].service # "Alarm"
        BY <2>2, <3>1
      <3> QED
        BY <2>1, <2>2, <3>2 DEF SirenIs
    <2> QED
      BY <2>1, <2>2 DEF EffectsMatch, FlagOf
  <1> QED
    BY Consistent, <1>1, <1>2, <1>3, PTL DEF Spec
=============================================================================
