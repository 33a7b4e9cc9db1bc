---------------------------- MODULE SingleHolder ----------------------------
(* What the worker-loop lock promises (docs/DECISIONS.md: "prevent concurrent *)
(* loop instances"): of all the processes started, at most one at a time is   *)
(* between a successful acquire and the end of its loop.  Abstract: it says   *)
(* nothing of files, clocks or staleness.                                     *)
CONSTANT Procs

VARIABLE holders

Init == holders = {}

Enter(p) == holders = {} /\ holders' = {p}

Leave(p) == holders = {p} /\ holders' = {}

Next == \E p \in Procs : Enter(p) \/ Leave(p)

Spec == Init /\ [][Next]_holders
=============================================================================
