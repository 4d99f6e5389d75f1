---------------------------- MODULE BreakDetect ----------------------------
(***************************************************************************)
(* The break-in detector, src/smartdoor/scripts/BreakDetect.js.  Every     *)
(* three seconds it adds one more listener to doorneedtobe; each listener  *)
(* compares the lock with the value it is given and counts disagreements   *)
(* while the lock should be closed.  From the second one on it publishes   *)
(* a notification, which it takes back ten seconds later, and then blocks  *)
(* its process for another minute.                                         *)
(*                                                                         *)
(* Listeners are never removed: a new value runs all of them, one after    *)
(* the other, each with a reading of its own.                              *)
(*                                                                         *)
(* Outside src/, modelled from its use: the database client, which raises  *)
(* a new listener's first event from its cache when it has the value, and  *)
(* otherwise when the server's answer arrives (`inbox`).                   *)
(***************************************************************************)
EXTENDS MotorStatus, Sequences

CONSTANTS
    MaxListeners        \* bound: listeners counted apart, more are equal

ASSUME ListenersAssumption == MaxListeners \in Nat \ {0}

VARIABLES
    listeners,      \* listeners on doorneedtobe
    inbox,          \* values of doorneedtobe on their way to the process
    snap,           \* the value the client has, or NoValue
    turn,           \* listeners that still have to run in this event
    AlretCount,     \* disagreements in a row, 2 standing for more
    alert,          \* position in the alert's busy-waits
    popup           \* the published notification asks for a popup

guard == <<listeners, inbox, snap, turn, AlretCount, alert, popup>>

NoValue == "none"

GuardInit ==
    /\ listeners = 0 /\ inbox = <<>> /\ snap = NoValue /\ turn = 0
    /\ AlretCount = 0 /\ alert = "none" /\ popup = FALSE

\* Mutants: a new listener waits for the next value; the detector uses the
\* strict reading; the popup is not taken back.
FirstRunLater == 0
SeesStrictly(r) == StatusOf(r, 0)

TakeBackNothing ==
    /\ alert = "shown"
    /\ alert' = "quiet"
    /\ UNCHANGED <<listeners, inbox, snap, turn, AlretCount, popup>>

\* A listener added while the client has a value runs at once.
FirstRun == IF snap = NoValue THEN 0 ELSE 1

\* How a listener classifies the lock.
Sees(r) == StatusOf(r, 1)

\* The timer adds a listener.  The first one asks the server, who answers with
\* the value need; a later one runs at once if the client has a value.
AddListener(need) ==
    /\ turn = 0
    /\ listeners' = IF listeners < MaxListeners THEN listeners + 1 ELSE MaxListeners
    /\ inbox' = IF listeners = 0 THEN Append(inbox, need) ELSE inbox
    /\ turn' = FirstRun
    /\ UNCHANGED <<snap, AlretCount, alert, popup>>

\* A value arrives; if it is a new one, every listener runs.
Value ==
    /\ turn = 0 /\ inbox # <<>>
    /\ snap' = Head(inbox)
    /\ turn' = IF snap' # snap THEN listeners ELSE 0
    /\ inbox' = Tail(inbox)
    /\ UNCHANGED <<listeners, AlretCount, alert, popup>>

\* One listener, which finds the lock at the reading r.
Agree(r) ==
    /\ turn > 0 /\ alert = "none" /\ Sees(r) = snap
    /\ AlretCount' = 0
    /\ turn' = turn - 1
    /\ UNCHANGED <<listeners, inbox, snap, alert, popup>>

Disagree(r) ==
    /\ turn > 0 /\ alert = "none" /\ Sees(r) # snap
    /\ \/ /\ snap # "Close"
          /\ turn' = turn - 1
          /\ UNCHANGED <<AlretCount, alert, popup>>
       \/ /\ snap = "Close" /\ AlretCount + 1 < 2
          /\ AlretCount' = AlretCount + 1
          /\ turn' = turn - 1
          /\ UNCHANGED <<alert, popup>>
       \/ /\ snap = "Close" /\ AlretCount + 1 >= 2
          /\ AlretCount' = 2
          /\ alert' = "shown" /\ popup' = TRUE
          /\ UNCHANGED turn
    /\ UNCHANGED <<listeners, inbox, snap>>

\* After ten seconds the popup goes, after a minute the listener returns.
TakeBack ==
    /\ alert = "shown"
    /\ alert' = "quiet" /\ popup' = FALSE
    /\ UNCHANGED <<listeners, inbox, snap, turn, AlretCount>>

Return ==
    /\ alert = "quiet"
    /\ alert' = "none" /\ turn' = turn - 1
    /\ UNCHANGED <<listeners, inbox, snap, AlretCount, popup>>

GuardStep(need, r) ==
    AddListener(need) \/ Value \/ Agree(r) \/ Disagree(r) \/ TakeBack \/ Return

GuardTypeOK ==
    /\ listeners \in 0 .. MaxListeners /\ turn \in 0 .. MaxListeners
    /\ inbox \in Seq(Statuses) /\ snap \in Statuses \cup {NoValue}
    /\ AlretCount \in 0 .. 2 /\ alert \in {"none", "shown", "quiet"}
    /\ popup \in BOOLEAN

=============================================================================
