------------------------------ MODULE OneEdit -------------------------------
(***************************************************************************)
(* What recover_and_apply_patch promises the agent that calls it, free of  *)
(* tokens, hashes, drift and approvals: the edit is written at most once,  *)
(* "applied" means that it was, and a refusal that it was not and will not *)
(* be.  An exception, or an approval that was taken out of the agent's     *)
(* hands, says nothing.                                                    *)
(***************************************************************************)
EXTENDS Naturals

VARIABLES
    result,  \* what the agent was told, "none" so far
    writes   \* how often the edit was written

Certain == {"refused", "operator", "drift"}
Unsure == {"raised", "unresolved"}

Init == result = "none" /\ writes = 0

Write ==
    /\ result \notin Certain \cup {"applied"}
    /\ writes = 0
    /\ writes' = 1
    /\ UNCHANGED result

Tell(what) ==
    /\ result = "none"
    /\ what = "applied" => writes = 1
    /\ what \in Certain => writes = 0
    /\ result' = what
    /\ UNCHANGED writes

\* An answer that arrives with the write itself.
WriteAndTell ==
    /\ result = "none" /\ writes = 0
    /\ result' \in {"applied"} \cup Unsure
    /\ writes' = 1

Next == Write \/ WriteAndTell \/ \E what \in Certain \cup Unsure \cup {"applied"} : Tell(what)

Spec == Init /\ [][Next]_<<result, writes>>
=============================================================================
