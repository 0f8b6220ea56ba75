---------------------------- MODULE CallContract ----------------------------
(***************************************************************************)
(* What a client of the control socket may believe about its calls, free   *)
(* of sockets, kernels, tokens and ids: the kernel runs a call at most as  *)
(* often as the client may send it, an answer means that the call was run, *)
(* a refusal of a call that is sent only once means that it never will be, *)
(* and a failure means nothing: the call may still be run afterwards.  Of  *)
(* a call that has become confused with another it may believe nothing.    *)
(***************************************************************************)
EXTENDS Naturals

CONSTANTS Call, MaxRuns

VARIABLES
    stage,  \* how far each call has come
    limit,  \* how often each call may be run
    runs    \* how often it was run

vars == <<stage, limit, runs>>

Init ==
    /\ stage = [c \in Call |-> "new"]
    /\ limit = [c \in Call |-> 0]
    /\ runs = [c \in Call |-> 0]

Open(c) ==
    /\ stage[c] = "new"
    /\ stage' = [stage EXCEPT ![c] = "open"]
    /\ \E n \in 1..MaxRuns : limit' = [limit EXCEPT ![c] = n]
    /\ UNCHANGED runs

Confuse(c) ==
    /\ stage[c] = "open"
    /\ stage' = [stage EXCEPT ![c] = "confused"]
    /\ UNCHANGED <<limit, runs>>

Run(c) ==
    /\ stage[c] # "new"
    /\ limit[c] = 1 => stage[c] # "refused"
    /\ runs[c] < limit[c] \/ stage[c] = "confused"
    /\ runs' = [runs EXCEPT ![c] = @ + 1]
    /\ UNCHANGED <<stage, limit>>

Close(c, how) ==
    /\ stage[c] = "open"
    /\ how = "answered" => runs[c] > 0
    /\ how = "refused" /\ limit[c] = 1 => runs[c] = 0
    /\ stage' = [stage EXCEPT ![c] = how]
    /\ UNCHANGED <<limit, runs>>

Next ==
    \E c \in Call :
        \/ Open(c)
        \/ Confuse(c)
        \/ Run(c)
        \/ \E how \in {"answered", "refused", "failed"} : Close(c, how)

Spec == Init /\ [][Next]_vars
=============================================================================
