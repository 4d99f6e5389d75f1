---------------------------- MODULE MCMgmtClient ----------------------------
(***************************************************************************)
(* MgmtClient with two indexes and one opcode, in scenarios that spend the *)
(* bounds on requests, on listeners, or on a little of both.               *)
(***************************************************************************)
EXTENDS MgmtClient

MCCommands == {[opcode |-> 1, index |-> i] : i \in {0, 1}}
MCEvents == {[event |-> 1, index |-> i] : i \in {0, 1}}
MCFilters == {[event |-> 1, index |-> i] : i \in {0, NoIndex}}
Bound(i, n, e, f, d) == [ids |-> i, notifies |-> n, events |-> e, failures |-> f, faults |-> d]
MCScenarios ==
    {Bound(3, 0, 0, 0, 0), Bound(2, 0, 0, 1, 1), Bound(0, 3, 2, 0, 0), Bound(1, 2, 1, 1, 0)}
=============================================================================
