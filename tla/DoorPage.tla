------------------------------ MODULE DoorPage ------------------------------
(***************************************************************************)
(* The web page of a door, src/WebInterface/src/main.js: twenty times a    *)
(* second it derives its button, its smoke label and its one dialog from   *)
(* the fields of the door and from what it derived the time before.  The   *)
(* dialog shows the notification, or the memos when somebody moves in      *)
(* front of the door, and is touched only when one of the two changes.     *)
(*                                                                         *)
(* A notification is recent for fifteen seconds after its time, by the     *)
(* page's clock; whatever that clock says, older ones age first, and those *)
(* without a time are never recent.                                        *)
(***************************************************************************)
EXTENDS Notification

VARIABLES
    status,         \* the page's copy of the fields
    page,           \* this.state
    aged,           \* notifications numbered up to aged are old
    watched,        \* somebody has the page open
    viewsLeft       \* bound: times the user closes the dialog or loads the page

viewing == <<status, page, aged, watched, viewsLeft>>

DontForget == "Dont Forget!"

\* A page that has just been mounted.
Mounted ==
    [popup |-> "undefined", move |-> "false", showModal |-> FALSE, modaltitle |-> "",
     doorbutton |-> "Open", doorbuttondisabled |-> FALSE, smokedetect |-> "Clean"]

Fields(n, m, d, s, k) ==
    [notification |-> n, move |-> m, doorcurrentstatus |-> d, doorstatus |-> s, smokedetect |-> k]

\* What it polls until the first value arrives.
Unknown == Fields(Notice("", "false", Untimed), "false", "", "", "")

Progress == {"Locking", "Unlocking"}

PageInit == status = Unknown /\ page = Mounted /\ aged = 0

\* The value listener; fields is what the server has.
Receive(fields) ==
    /\ watched /\ status # fields /\ status' = fields
    /\ UNCHANGED <<page, aged, watched, viewsLeft>>

Recent(n) == n.stime > aged

PopupOf(n) == IF Recent(n) THEN n.popup ELSE "false"

\* Mutants: a popup that ends is no change; only a movement is one.
TouchedByPopup(popup) == (page.move # status.move /\ popup = "false") \/ popup = "true"
TouchedByMoveOnly(popup) == page.move # status.move

Touched(popup) == (page.move # status.move /\ popup = "false") \/ page.popup # popup

Title(popup) == IF popup = "true" THEN status.notification.title ELSE DontForget

Button ==
    IF status.doorstatus \in Progress THEN status.doorstatus
    ELSE IF status.doorcurrentstatus = "Close" THEN "Unlock" ELSE "Lock"

Poll ==
    LET popup == PopupOf(status.notification)
    IN  /\ watched
        /\ page' =
             [popup |-> popup, move |-> status.move,
              showModal |-> IF Touched(popup) THEN "true" \in {status.move, popup} ELSE page.showModal,
              modaltitle |-> IF Touched(popup) THEN Title(popup) ELSE page.modaltitle,
              doorbutton |-> Button,
              doorbuttondisabled |-> status.doorstatus \in Progress,
              smokedetect |-> IF status.smokedetect = "Detected" THEN "Detected" ELSE "Clean"]
        /\ UNCHANGED <<status, aged, watched, viewsLeft>>

\* Fifteen seconds of the oldest recent notification are over.
Age ==
    /\ aged < notices /\ aged' = aged + 1
    /\ UNCHANGED <<status, page, watched, viewsLeft>>

Close ==
    /\ page.showModal /\ viewsLeft > 0 /\ viewsLeft' = viewsLeft - 1
    /\ page' = [page EXCEPT !.showModal = FALSE]
    /\ UNCHANGED <<status, aged, watched>>

\* A page is opened, or loaded anew.
Load ==
    /\ viewsLeft > 0 /\ viewsLeft' = viewsLeft - 1
    /\ watched' = TRUE /\ page' = Mounted /\ status' = Unknown
    /\ UNCHANGED aged

Pages ==
    [popup : {"undefined", "true", "false"}, move : {"true", "false"},
     showModal : BOOLEAN, modaltitle : Titles \cup {DontForget},
     doorbutton : {"Open", "Lock", "Unlock"} \cup Progress, doorbuttondisabled : BOOLEAN,
     smokedetect : {"Clean", "Detected"}]

PageOK ==
    /\ page \in Pages /\ aged \in 0 .. notices /\ watched \in BOOLEAN /\ viewsLeft \in Nat
    /\ status.notification \in Notices /\ status.move \in {"true", "false"}

=============================================================================
