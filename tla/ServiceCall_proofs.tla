------------------------- MODULE ServiceCall_proofs -------------------------
(***************************************************************************)
(* Proofs about the service calls of the door controller, for any number   *)
(* of calls, emergencies and deaths of the service.                        *)
(*                                                                         *)
(* EverydayOnce is not inductive: a word that is not yet written, or is    *)
(* being executed, will be added to the sum.  OnlyOneWord counts it at     *)
(* every stage of its way, and adds that an everyday call is never made    *)
(* again.  NeverGivesUp needs that an open socket has written its word.    *)
(***************************************************************************)
EXTENDS ServiceCall, TLAPS

\* The words of a call: not yet asked for, waiting for 'connect', on the wire,
\* being executed, executed.
Words(c) ==
    (IF phase[c] = "new" THEN 1 ELSE 0) + listeners[c] + wire[c]
    + (IF c \in working THEN 1 ELSE 0) + executed[c]

OnlyOneWord == \A c \in Calls \ Emergencies : Words(c) <= 1 /\ phase[c] # "waiting"

OpenHasWritten == \A c \in Emergencies : phase[c] \in {"open", "closed"} => c \in written

\* AtMost caps a count.
LEMMA AtMostBounds ==
    ASSUME NEW n \in 0 .. MaxWords
    PROVE  AtMost(n + 1) \in 0 .. MaxWords /\ AtMost(n + 1) <= n + 1
  BY CallsAssumption DEF AtMost

\* The 'error' handler closes the socket of an everyday call and only that:
\* nothing counts attempts.
LEMMA ErrorHandled ==
    ASSUME emergencycount = 0, NEW c
    PROVE  AfterError(c) = (IF c \in Emergencies THEN "waiting" ELSE "closed")
  BY DEF AfterError

\* Types are kept by every step.
LEMMA TypeStep == TypeOK /\ [Next]_vars => TypeOK'
  <1> SUFFICES ASSUME TypeOK, [Next]_vars PROVE TypeOK'
    OBVIOUS
  <1> USE DEF TypeOK, Phases, caller, service
  <1>1. ASSUME NEW c \in Calls, ApplyService(c) PROVE TypeOK'
    BY <1>1, CallsAssumption DEF ApplyService
  <1>2. ASSUME NEW c \in Calls, Connected(c) PROVE TypeOK'
    BY <1>2, CallsAssumption DEF Connected
  <1>3. ASSUME NEW c \in Calls, Refused(c) PROVE TypeOK'
    BY <1>3, ErrorHandled DEF Refused
  <1>4. ASSUME NEW c \in Calls, Timeout(c) PROVE TypeOK'
    BY <1>4, AtMostBounds DEF Timeout
  <1>5. ASSUME NEW c \in Calls, Response(c) PROVE TypeOK'
    BY <1>5 DEF Response, None
  <1>6. ASSUME NEW c \in Calls, Read(c) PROVE TypeOK'
    BY <1>6, CallsAssumption DEF Read
  <1>7. ASSUME NEW c \in Calls, Execute(c) PROVE TypeOK'
    BY <1>7, AtMostBounds DEF Execute
  <1>8. ASSUME NEW c \in Calls, Reset(c) PROVE TypeOK'
    BY <1>8, CallsAssumption DEF Reset
  <1>9. ASSUME Die PROVE TypeOK'
    <2>1. \A c \in Calls : AfterError(c) \in {"waiting", "closed"}
      BY ErrorHandled
    <2>2. phase' \in [Calls -> Phases]
      BY <1>9, <2>1 DEF Die
    <2>3. deaths' \in 0 .. MaxDeaths
      BY <1>9, CallsAssumption DEF Die
    <2>4. wire' \in [Calls -> 0 .. MaxWords]
      BY <1>9, CallsAssumption DEF Die
    <2> QED
      BY <1>9, <2>2, <2>3, <2>4 DEF Die
  <1>10. ASSUME Come PROVE TypeOK'
    BY <1>10 DEF Come
  <1>11. CASE UNCHANGED vars
    BY <1>11 DEF vars
  <1> QED
    BY <1>1, <1>2, <1>3, <1>4, <1>5, <1>6, <1>7, <1>8, <1>9, <1>10, <1>11 DEF Next

\* A word is passed on from stage to stage and never copied.
LEMMA WordsStep == TypeOK /\ OnlyOneWord /\ [Next]_vars => OnlyOneWord'
  <1> SUFFICES ASSUME TypeOK, OnlyOneWord, [Next]_vars,
                      NEW d \in Calls \ Emergencies
               PROVE  (Words(d) <= 1 /\ phase[d] # "waiting")'
    BY DEF OnlyOneWord
  <1>0. Words(d) <= 1 /\ phase[d] # "waiting"
    BY DEF OnlyOneWord
  <1>t. /\ d \in Calls /\ listeners[d] \in 0 .. MaxWords /\ wire[d] \in 0 .. MaxWords
        /\ executed[d] \in 0 .. MaxWords
    BY DEF TypeOK
  <1> USE <1>0, <1>t, CallsAssumption DEF TypeOK, Words, caller, service
  <1>1. ASSUME NEW c \in Calls, ApplyService(c) PROVE (Words(d) <= 1 /\ phase[d] # "waiting")'
    BY <1>1 DEF ApplyService
  <1>2. ASSUME NEW c \in Calls, Connected(c) PROVE (Words(d) <= 1 /\ phase[d] # "waiting")'
    BY <1>2 DEF Connected
  <1>3. ASSUME NEW c \in Calls, Refused(c) PROVE (Words(d) <= 1 /\ phase[d] # "waiting")'
    BY <1>3, ErrorHandled DEF Refused
  <1>4. ASSUME NEW c \in Calls, Timeout(c) PROVE (Words(d) <= 1 /\ phase[d] # "waiting")'
    BY <1>4 DEF Timeout
  <1>5. ASSUME NEW c \in Calls, Response(c) PROVE (Words(d) <= 1 /\ phase[d] # "waiting")'
    BY <1>5 DEF Response
  <1>6. ASSUME NEW c \in Calls, Read(c) PROVE (Words(d) <= 1 /\ phase[d] # "waiting")'
    BY <1>6 DEF Read
  <1>7. ASSUME NEW c \in Calls, Execute(c) PROVE (Words(d) <= 1 /\ phase[d] # "waiting")'
    BY <1>7, AtMostBounds DEF Execute
  <1>8. ASSUME NEW c \in Calls, Reset(c) PROVE (Words(d) <= 1 /\ phase[d] # "waiting")'
    BY <1>8 DEF Reset
  <1>9. ASSUME Die PROVE (Words(d) <= 1 /\ phase[d] # "waiting")'
    BY <1>9, ErrorHandled DEF Die
  <1>10. ASSUME Come PROVE (Words(d) <= 1 /\ phase[d] # "waiting")'
    BY <1>10 DEF Come
  <1>11. CASE UNCHANGED vars
    BY <1>11 DEF vars
  <1> QED
    BY <1>1, <1>2, <1>3, <1>4, <1>5, <1>6, <1>7, <1>8, <1>9, <1>10, <1>11 DEF Next

\* A socket opens by writing, and only the open ones of emergencies close.
LEMMA WrittenStep == TypeOK /\ OpenHasWritten /\ [Next]_vars => OpenHasWritten'
  <1> SUFFICES ASSUME TypeOK, OpenHasWritten, [Next]_vars,
                      NEW d \in Emergencies, phase'[d] \in {"open", "closed"}
               PROVE  d \in written'
    BY DEF OpenHasWritten
  <1>0. d \in Calls /\ (phase[d] \in {"open", "closed"} => d \in written)
    BY CallsAssumption DEF OpenHasWritten
  <1> USE <1>0 DEF TypeOK, caller, service
  <1>1. ASSUME NEW c \in Calls, ApplyService(c) PROVE d \in written'
    BY <1>1 DEF ApplyService
  <1>2. ASSUME NEW c \in Calls, Connected(c) PROVE d \in written'
    BY <1>2 DEF Connected
  <1>3. ASSUME NEW c \in Calls, Refused(c) PROVE d \in written'
    BY <1>3, ErrorHandled DEF Refused
  <1>4. ASSUME NEW c \in Calls, Timeout(c) PROVE d \in written'
    BY <1>4 DEF Timeout
  <1>5. ASSUME NEW c \in Calls, Response(c) PROVE d \in written'
    BY <1>5 DEF Response
  <1>6. ASSUME NEW c \in Calls, Read(c) \/ Execute(c) \/ Reset(c) PROVE d \in written'
    BY <1>6 DEF Read, Execute, Reset
  <1>7. ASSUME Die PROVE d \in written'
    BY <1>7, ErrorHandled DEF Die
  <1>8. ASSUME Come PROVE d \in written'
    BY <1>8 DEF Come
  <1>9. CASE UNCHANGED vars
    BY <1>9 DEF vars
  <1> QED
    BY <1>1, <1>2, <1>3, <1>4, <1>5, <1>6, <1>7, <1>8, <1>9 DEF Next

\* Every variable keeps its type; in particular emergencycount stays 0.
THEOREM TypeCorrect == Spec => []TypeOK
  <1>1. Init => TypeOK
    BY CallsAssumption DEF Init, TypeOK, Phases, None
  <1> QED
    BY <1>1, TypeStep, PTL DEF Spec

\* An everyday call is executed at most once, whatever fails.
THEOREM EverydayCallsOnce == Spec => []EverydayOnce
  <1>1. Init => OnlyOneWord
    <2> SUFFICES ASSUME Init, NEW c \in Calls \ Emergencies
                 PROVE  Words(c) <= 1 /\ phase[c] # "waiting"
      BY DEF OnlyOneWord
    <2>1. /\ phase[c] = "new" /\ listeners[c] = 0 /\ wire[c] = 0 /\ executed[c] = 0
          /\ c \notin working
      BY DEF Init
    <2> QED
      BY <2>1 DEF Words
  <1>2. TypeOK /\ OnlyOneWord => EverydayOnce
    <2> SUFFICES ASSUME TypeOK, OnlyOneWord, NEW c \in Calls \ Emergencies
                 PROVE  executed[c] + wire[c] <= 1
      BY DEF EverydayOnce
    <2>1. Words(c) <= 1 /\ listeners[c] \in Nat /\ wire[c] \in Nat /\ executed[c] \in Nat
      BY CallsAssumption DEF TypeOK, OnlyOneWord
    <2> QED
      BY <2>1 DEF Words
  <1> QED
    BY <1>1, <1>2, TypeCorrect, WordsStep, PTL DEF Spec

\* The emergency calls give up only after their word was written.
THEOREM EmergenciesNeverGiveUp == Spec => []NeverGivesUp
  <1>1. Init => OpenHasWritten
    BY CallsAssumption DEF Init, OpenHasWritten
  <1>2. OpenHasWritten => NeverGivesUp
    BY DEF OpenHasWritten, NeverGivesUp
  <1> QED
    BY <1>1, <1>2, TypeCorrect, WrittenStep, PTL DEF Spec

=============================================================================
