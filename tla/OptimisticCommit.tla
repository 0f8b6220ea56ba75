-------------------------- MODULE OptimisticCommit --------------------------
(***************************************************************************)
(* What the coherence layer of the kernel promises about workspace         *)
(* revisions, free of tokens, anchors, threads and queues: a task cites a  *)
(* revision that the workspace has had, and its mutation is either dropped *)
(* or committed while that revision is still the current one.  Of several  *)
(* tasks that cite the same revision, only the first one to commit wins.   *)
(***************************************************************************)
EXTENDS Naturals

CONSTANT Task

VARIABLES
    version,  \* the workspace revision
    claim     \* the revision each task's mutation in flight cites, 0 for none

vars == <<version, claim>>

Init ==
    /\ version = 1
    /\ claim = [t \in Task |-> 0]

Cite(t) ==
    /\ claim[t] = 0
    /\ \E v \in 1..version : claim' = [claim EXCEPT ![t] = v]
    /\ UNCHANGED version

Drop(t) ==
    /\ claim[t] # 0
    /\ claim' = [claim EXCEPT ![t] = 0]
    /\ UNCHANGED version

Commit(t) ==
    /\ claim[t] = version
    /\ version' = version + 1
    /\ claim' = [claim EXCEPT ![t] = 0]

\* A mutation that no task cites a revision for.
CommitUncited ==
    /\ version' = version + 1
    /\ UNCHANGED claim

Next ==
    \/ \E t \in Task : Cite(t) \/ Drop(t) \/ Commit(t)
    \/ CommitUncited

Spec == Init /\ [][Next]_vars
=============================================================================
