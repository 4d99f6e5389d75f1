---------------------------- MODULE Notification ----------------------------
(***************************************************************************)
(* The field `notification' of the door, a slot that four scripts write    *)
(* without looking at what is in it: the knock detector, the recorder, the *)
(* break-in detector and online.js.  A web page pops it up as long as it   *)
(* says so and its time is recent.                                         *)
(***************************************************************************)
EXTENDS Integers

VARIABLES
    notification,   \* the slot
    notices         \* notifications written with a time, which number them

Titles == {"Knock Knock", "Someone recorded a message", "Thief Alert", "Emergency!!!", ""}

Untimed == 0

Notices == [title : Titles, popup : {"true", "false"}, stime : Nat]

Notice(title, popup, stime) == [title |-> title, popup |-> popup, stime |-> stime]

NotificationInit == notification = Notice("", "false", Untimed) /\ notices = 0

\* A notification with the time of now.
Publish(title) ==
    /\ notices' = notices + 1
    /\ notification' = Notice(title, "true", notices')

\* One without a time.
PublishUntimed(title, popup) ==
    /\ notification' = Notice(title, popup, Untimed)
    /\ UNCHANGED notices

NotificationOK ==
    /\ notices \in Nat
    /\ notification \in Notices

=============================================================================
