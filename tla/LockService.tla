---------------------------- MODULE LockService ----------------------------
(***************************************************************************)
(* What the motor service promises to its clients and to the break-in      *)
(* detector, with the motor left out: a request is answered in one step,   *)
(* and the step that answers a command with a status is the one that makes *)
(* that status the state the lock needs to be in.  doorneedtobe changes in *)
(* no other way, unless the service dies, which may also take back what it *)
(* had not yet published.                                                  *)
(***************************************************************************)
CONSTANTS Conns, Statuses

VARIABLES conn, need

Commands == {"Open", "Close", "Bad"}
NoReply == <<"none">>
Refused == {<<"Error, bad command">>, <<"Error, already working">>}

Free == [st |-> "free", cmd |-> "Bad", reply |-> NoReply]

Init == conn = [c \in Conns |-> Free] /\ need \in Statuses

Ask(c) ==
    /\ conn[c] = Free
    /\ \E cmd \in Commands :
          conn' = [conn EXCEPT ![c] = [st |-> "sent", cmd |-> cmd, reply |-> NoReply]]
    /\ UNCHANGED need

Refuse(c) ==
    /\ conn[c].st = "sent"
    /\ \E r \in Refused : conn' = [conn EXCEPT ![c].st = "replied", ![c].reply = r]
    /\ UNCHANGED need

Serve(c) ==
    /\ conn[c].st = "sent" /\ conn[c].cmd # "Bad"
    /\ \E s \in Statuses :
          /\ conn' = [conn EXCEPT ![c].st = "replied", ![c].reply = <<"Door", s>>]
          /\ need' = s

Leave(c) ==
    /\ conn[c].st = "replied"
    /\ conn' = [conn EXCEPT ![c] = Free]
    /\ UNCHANGED need

Die == conn' = [c \in Conns |-> Free] /\ need' \in Statuses

Next == (\E c \in Conns : Ask(c) \/ Refuse(c) \/ Serve(c) \/ Leave(c)) \/ Die

Spec == Init /\ [][Next]_<<conn, need>>

=============================================================================
