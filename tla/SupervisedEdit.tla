--------------------------- MODULE SupervisedEdit ---------------------------
(***************************************************************************)
(* What supervision promises about destructive edits, free of queues and   *)
(* of the registry that keeps the approvals: an edit waits until a person  *)
(* decides, it runs once if the decision comes in time and grants it, and  *)
(* it never runs after it was rejected, after its time is over or twice.   *)
(***************************************************************************)
EXTENDS Naturals

CONSTANT Approval

VARIABLES
    stage,  \* how far each edit has come
    runs    \* how often it was run

vars == <<stage, runs>>

Init ==
    /\ stage = [a \in Approval |-> "unasked"]
    /\ runs = [a \in Approval |-> 0]

Move(a, from, to) ==
    /\ stage[a] = from
    /\ stage' = [stage EXCEPT ![a] = to]

Ask(a) == Move(a, "unasked", "open") /\ UNCHANGED runs

\* Rejected, or nobody decided in time.
Close(a) == Move(a, "open", "closed") /\ UNCHANGED runs

Grant(a) ==
    /\ Move(a, "open", "running")
    /\ runs' = [runs EXCEPT ![a] = @ + 1]

Settle(a) == Move(a, "running", "closed") /\ UNCHANGED runs

Next == \E a \in Approval : Ask(a) \/ Close(a) \/ Grant(a) \/ Settle(a)

Spec == Init /\ [][Next]_vars
=============================================================================
