---------------------------- MODULE MgmtService ----------------------------
(***************************************************************************)
(* What the management client promises to the programs that use it, with   *)
(* the socket, the writer and the callbacks left out: every command it is  *)
(* given is waiting, then outstanding at the kernel, then over, and never  *)
(* comes back.  Commands of one kind go out in the order they were given,  *)
(* and an ordinary one goes out only when nothing is outstanding and no    *)
(* reply to the kernel is waiting: replies overtake, and "nowait" commands *)
(* do not wait at all.                                                     *)
(***************************************************************************)
EXTENDS Integers

CONSTANT Ids

VARIABLES phase, kind

Kinds == {"request", "reply", "nowait"}

Init == phase = [r \in Ids |-> "new"] /\ kind = [r \in Ids |-> "request"]

With(p) == {r \in Ids : phase[r] = p}

Give(r) ==
    /\ r \in With("new") /\ \A q \in With("new") : r <= q
    /\ \E k \in Kinds, p \in {"waiting", "sent", "over"} :
          /\ (p = "waiting") <=> (k # "nowait")
          /\ kind' = [kind EXCEPT ![r] = k] /\ phase' = [phase EXCEPT ![r] = p]

Transmit(r) ==
    /\ r \in With("waiting")
    /\ \A q \in With("waiting") : kind[q] = kind[r] => r <= q
    /\ kind[r] = "request" =>
          With("sent") = {} /\ \A q \in With("waiting") : kind[q] # "reply"
    /\ \E p \in {"sent", "over"} : phase' = [phase EXCEPT ![r] = p]
    /\ UNCHANGED kind

\* An answer, a cancellation or the end of the client.
Finish(S) ==
    /\ phase' = [r \in Ids |-> IF r \in S THEN "over" ELSE phase[r]]
    /\ UNCHANGED kind

Next ==
    \/ \E r \in Ids : Give(r) \/ Transmit(r)
    \/ \E S \in SUBSET (With("waiting") \cup With("sent")) : Finish(S)

Spec == Init /\ [][Next]_<<phase, kind>>

=============================================================================
