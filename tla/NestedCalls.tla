---------------------------- MODULE NestedCalls -----------------------------
(***************************************************************************)
(* The dispatch queues of DietCodeControlServer and the combos that call   *)
(* back into them.  The execution queue and the main queue are serial: the *)
(* head of each is the block that is running.  A request that touches the  *)
(* editor runs on the main queue while its block on the execution queue    *)
(* waits, without a timeout.  A step of a combo does the same, and the     *)
(* main queue then calls executeNestedMethod, which posts a block to the   *)
(* execution queue and waits for it, with a timeout.                       *)
(*                                                                         *)
(* A combo takes the mutation locks, checkpoints the files it will patch,  *)
(* runs its steps, and when one of them fails puts the files back.         *)
(***************************************************************************)
EXTENDS Naturals, Sequences, SequencesExt

CONSTANTS
    Request,  \* requests the execution queue receives
    Call,     \* what they may ask for
    Path,     \* files of the workspace
    Content,  \* what a file may hold, up to equality of its hash
    Shared,   \* files that people and other programs edit too
    NoRequest,
    NoText

Chip == {"read", "verify", "patch", "write"}
Step == [chip : Chip, path : Path]

\* A call that was approved is run by approval.resolve.
ASSUME CallAssumption ==
    Call \subseteq [method : {"patch", "combo", "cancel", "rollback"},
                    approved : BOOLEAN, plan : Seq(Step)]
ASSUME SharedAssumption == Shared \subseteq Path
ASSUME NullAssumption == NoRequest \notin Request /\ NoText \notin Content

VARIABLES
    disk,        \* content of every file
    queue,       \* the blocks of the two serial queues
    call,        \* what each request asks for
    stage,       \* how far the request has come
    combo,       \* the run of each combo, and its manifest
    pathLock,    \* _pathLocks
    globalLock   \* _globalMutationLock

vars == <<disk, queue, call, stage, combo, pathLock, globalLock>>

-----------------------------------------------------------------------------
Queue == {"exec", "main"}

\* A request on the execution queue, its method on the main queue, a step of
\* its combo on the main queue, and what that step calls.
Block == [job : {"request", "method", "step", "nested"}, req : Request]
BlockOf(job, r) == [job |-> job, req |-> r]

IsRunning(q, job, r) ==
    /\ queue[q] # <<>>
    /\ Head(queue[q]) = BlockOf(job, r)

Enqueue(q, job, r) == queue' = [queue EXCEPT ![q] = Append(@, BlockOf(job, r))]
Dequeue(q) == queue' = [queue EXCEPT ![q] = Tail(@)]

Stages == {"unsent", "queued", "dispatched", "executed", "answered"}
Statuses == {"none", "running", "complete", "failed", "expired", "cancelled"}

NoManifest == [p \in Path |-> NoText]
IdleCombo ==
    [pc |-> "idle", status |-> "none", step |-> 0,
     pre |-> NoManifest, post |-> NoManifest]

Combos ==
    [pc : {"idle", "steps", "posted", "nested", "record", "check", "restore",
           "done"},
     status : Statuses,
     step : Nat,
     pre : [Path -> Content \cup {NoText}],    \* the backed up preimages
     post : [Path -> Content \cup {NoText}]]   \* expectedPostimageHash

Plan(r) == call[r].plan
CurrentStep(r) == Plan(r)[combo[r].step]
UIBound(s) == s.chip \in {"patch", "write"}

\* mutationPathsForChip: a file.write chip declares none.
Mutations(r) ==
    {s \in ToSet(Plan(r)) : call[r].method = "combo" /\ s.chip = "patch"}
MutationPaths(r) == {s.path : s \in Mutations(r)}
ContainsMutation(r) == Mutations(r) # {}
Manifest(c) == {p \in Path : c.pre[p] # NoText}

\* Where executeMethod runs for request r.
Home(r) ==
    IF call[r].method = "patch" \/ call[r].approved THEN "main" ELSE "exec"

Executes(r, method) ==
    /\ stage[r] = "dispatched"
    /\ call[r].method = method
    /\ IF Home(r) = "main" THEN IsRunning("main", "method", r)
       ELSE IsRunning("exec", "request", r)

\* executeMethod returns to the block that called it.
Returns(r) ==
    /\ stage' = [stage EXCEPT ![r] = "executed"]
    /\ IF Home(r) = "main" THEN Dequeue("main") ELSE UNCHANGED queue

ReleaseLocks(r) ==
    /\ pathLock' = [p \in Path |-> IF pathLock[p] = r THEN NoRequest
                                   ELSE pathLock[p]]
    /\ globalLock' = (globalLock /\ ~ContainsMutation(r))

Init ==
    /\ disk \in [Path -> Content]
    /\ queue = [q \in Queue |-> <<>>]
    /\ call \in [Request -> Call]
    /\ stage = [r \in Request |-> "unsent"]
    /\ combo = [r \in Request |-> IdleCombo]
    /\ pathLock = [p \in Path |-> NoRequest]
    /\ globalLock = FALSE

-----------------------------------------------------------------------------
(* processRequest.                                                          *)

\* A connection hands its request to the execution queue.
Send(r) ==
    /\ stage[r] = "unsent"
    /\ stage' = [stage EXCEPT ![r] = "queued"]
    /\ Enqueue("exec", "request", r)
    /\ UNCHANGED <<disk, call, combo, pathLock, globalLock>>

\* A gate, or the validation of the parameters, turns it down.
Refuse(r) ==
    /\ IsRunning("exec", "request", r)
    /\ stage[r] = "queued"
    /\ stage' = [stage EXCEPT ![r] = "answered"]
    /\ Dequeue("exec")
    /\ UNCHANGED <<disk, call, combo, pathLock, globalLock>>

\* A background method runs in place, any other on the main queue.
Dispatch(r) ==
    /\ IsRunning("exec", "request", r)
    /\ stage[r] = "queued"
    /\ stage' = [stage EXCEPT ![r] = "dispatched"]
    /\ IF Home(r) = "main" THEN Enqueue("main", "method", r)
       ELSE UNCHANGED queue
    /\ UNCHANGED <<disk, call, combo, pathLock, globalLock>>

Answer(r) ==
    /\ IsRunning("exec", "request", r)
    /\ stage[r] = "executed"
    /\ stage' = [stage EXCEPT ![r] = "answered"]
    /\ Dequeue("exec")
    /\ UNCHANGED <<disk, call, combo, pathLock, globalLock>>

\* patch.apply, which may also fail.
ApplyPatch(r) ==
    /\ Executes(r, "patch")
    /\ \E s \in ToSet(Plan(r)), c \in Content :
         disk' = [disk EXCEPT ![s.path] = c]
    /\ Returns(r)
    /\ UNCHANGED <<call, combo, pathLock, globalLock>>

-----------------------------------------------------------------------------
(* runComboWithPlan and executeComboStep.                                   *)

\* Mutated: a checkpoint that cannot be written keeps the global lock.
ComboBeginLeaks(r) ==
    /\ Executes(r, "combo")
    /\ combo[r].pc = "idle"
    /\ combo' = [combo EXCEPT ![r] =
                   [IdleCombo EXCEPT !.pc = "done", !.status = "failed"]]
    /\ globalLock' = (globalLock \/ ContainsMutation(r))
    /\ Returns(r)
    /\ UNCHANGED <<disk, call, pathLock>>

\* The locks are only taken when all of them are free; a checkpoint that
\* cannot be written gives them back.
ComboBegin(r) ==
    /\ Executes(r, "combo")
    /\ combo[r].pc = "idle"
    /\ LET paths == MutationPaths(r)
           locked == (ContainsMutation(r) /\ globalLock)
                       \/ \E p \in paths : pathLock[p] \notin {NoRequest, r}
           image == [p \in Path |-> IF p \in paths THEN disk[p] ELSE NoText]
       IN  \/ /\ combo' = [combo EXCEPT ![r] =
                             [IdleCombo EXCEPT !.pc = "done", !.status = "failed"]]
              /\ Returns(r)
              /\ UNCHANGED <<pathLock, globalLock>>
           \/ /\ ~locked
              /\ pathLock' = [p \in Path |-> IF p \in paths THEN r
                                             ELSE pathLock[p]]
              /\ globalLock' = (globalLock \/ ContainsMutation(r))
              /\ combo' = [combo EXCEPT ![r] =
                             [pc |-> "steps", status |-> "running", step |-> 0,
                              pre |-> image, post |-> image]]
              /\ UNCHANGED <<queue, stage>>
    /\ UNCHANGED <<disk, call>>

\* A combo that did not succeed is rolled back.
Fails(c, status) ==
    [c EXCEPT !.pc = "check",
              !.status = IF @ = "cancelled" THEN @ ELSE status]

\* A step ends: "record" when it succeeded, "check" when it did not.
StepEnds(c, pc) == IF pc = "check" THEN Fails(c, "failed") ELSE [c EXCEPT !.pc = pc]

HasNextStep(r) ==
    /\ combo[r].pc = "steps"
    /\ combo[r].status = "running"
    /\ combo[r].step < Len(Plan(r))
NextStep(r) == Plan(r)[combo[r].step + 1]
WithNextStep(r) == [combo[r] EXCEPT !.step = @ + 1]

\* The time or another budget of the combo is spent, or it was cancelled.
ComboAborts(r) ==
    /\ Executes(r, "combo")
    /\ HasNextStep(r) \/ (combo[r].pc = "steps" /\ combo[r].status = "cancelled")
    /\ \E status \in {"failed", "expired"} :
         combo' = [combo EXCEPT ![r] = Fails(@, status)]
    /\ UNCHANGED <<disk, queue, call, stage, pathLock, globalLock>>

\* A method of the read queue is called there, and verify.run in place by the
\* execution queue.
StepInPlace(r) ==
    /\ Executes(r, "combo")
    /\ HasNextStep(r)
    /\ ~UIBound(NextStep(r))
    /\ ~(NextStep(r).chip = "verify" /\ Home(r) = "main")
    /\ \E pc \in {"record", "check"} :
         combo' = [combo EXCEPT ![r] = StepEnds(WithNextStep(r), pc)]
    /\ UNCHANGED <<disk, queue, call, stage, pathLock, globalLock>>

\* On the main queue verify.run is a nested call like any other.
VerifyFromMain(r) ==
    /\ Executes(r, "combo")
    /\ HasNextStep(r)
    /\ NextStep(r).chip = "verify" /\ Home(r) = "main"
    /\ combo' = [combo EXCEPT ![r] = [WithNextStep(r) EXCEPT !.pc = "nested"]]
    /\ Enqueue("exec", "nested", r)
    /\ UNCHANGED <<disk, call, stage, pathLock, globalLock>>

\* Any other step is posted to the main queue, and the combo waits for it.
PostStep(r) ==
    /\ Executes(r, "combo")
    /\ HasNextStep(r)
    /\ UIBound(NextStep(r))
    /\ combo' = [combo EXCEPT ![r] = [WithNextStep(r) EXCEPT !.pc = "posted"]]
    /\ Enqueue("main", "step", r)
    /\ UNCHANGED <<disk, call, stage, pathLock, globalLock>>

\* executeNestedMethod, on the main queue.
CallNested(r) ==
    /\ IsRunning("main", "step", r)
    /\ combo[r].pc = "posted"
    /\ combo' = [combo EXCEPT ![r].pc = "nested"]
    /\ Enqueue("exec", "nested", r)
    /\ UNCHANGED <<disk, call, stage, pathLock, globalLock>>

\* Mutated: the nested block does not wait for its turn on the queue.
RunNestedAtOnce(r) ==
    /\ BlockOf("nested", r) \in ToSet(queue["exec"])
    /\ IF UIBound(CurrentStep(r))
       THEN \E c \in Content :
              disk' = [disk EXCEPT ![CurrentStep(r).path] = c]
       ELSE UNCHANGED disk
    /\ queue' = [queue EXCEPT !["exec"] = Remove(@, BlockOf("nested", r))]
    /\ UNCHANGED <<call, stage, combo, pathLock, globalLock>>

\* The nested block runs, whether or not its caller still waits.
RunNested(r) ==
    /\ IsRunning("exec", "nested", r)
    /\ IF UIBound(CurrentStep(r))
       THEN \E c \in Content :
              disk' = [disk EXCEPT ![CurrentStep(r).path] = c]
       ELSE UNCHANGED disk
    /\ Dequeue("exec")
    /\ UNCHANGED <<call, stage, combo, pathLock, globalLock>>

\* Mutated: the wait has no timeout.
NestedWaitEndsWhenServed(r) ==
    /\ combo[r].pc = "nested"
    /\ BlockOf("nested", r) \notin ToSet(queue["exec"])
    /\ \E pc \in {"record", "check"} :
         combo' = [combo EXCEPT ![r] = StepEnds(@, pc)]
    /\ IF IsRunning("main", "step", r) THEN Dequeue("main") ELSE UNCHANGED queue
    /\ UNCHANGED <<disk, call, stage, pathLock, globalLock>>

\* The semaphore is signalled, or kMaxNestedCallWaitSeconds pass.
NestedWaitEnds(r) ==
    /\ combo[r].pc = "nested"
    /\ LET served == BlockOf("nested", r) \notin ToSet(queue["exec"])
       IN  \E pc \in IF served THEN {"record", "check"} ELSE {"check"} :
             combo' = [combo EXCEPT ![r] = StepEnds(@, pc)]
    /\ IF IsRunning("main", "step", r) THEN Dequeue("main") ELSE UNCHANGED queue
    /\ UNCHANGED <<disk, call, stage, pathLock, globalLock>>

\* Mutated: the loop moves to the next step twice.
RecordPostimagesTwice(r) ==
    /\ Executes(r, "combo")
    /\ combo[r].pc = "record"
    /\ combo' = [combo EXCEPT ![r] = [@ EXCEPT !.pc = "steps", !.step = @ + 1]]
    /\ UNCHANGED <<disk, queue, call, stage, pathLock, globalLock>>

\* After a step the files of the manifest are read again.
RecordPostimages(r) ==
    /\ Executes(r, "combo")
    /\ combo[r].pc = "record"
    /\ combo' = [combo EXCEPT ![r] =
                   [@ EXCEPT !.pc = "steps",
                             !.post = [p \in Path |->
                                IF p \in Manifest(combo[r]) THEN disk[p]
                                ELSE NoText]]]
    /\ UNCHANGED <<disk, queue, call, stage, pathLock, globalLock>>

ComboCompletes(r) ==
    /\ Executes(r, "combo")
    /\ combo[r].pc = "steps"
    /\ combo[r].status = "running"
    /\ combo[r].step = Len(Plan(r))
    /\ combo' = [combo EXCEPT ![r] =
                   [@ EXCEPT !.pc = "done", !.status = "complete"]]
    /\ ReleaseLocks(r)
    /\ Returns(r)
    /\ UNCHANGED <<disk, call>>

\* restorePatchFromManifest: every file must still hold its postimage.
RollbackCheck(r) ==
    /\ Executes(r, "combo") \/ Executes(r, "rollback")
    /\ combo[r].pc = "check"
    /\ IF \A p \in Manifest(combo[r]) : disk[p] = combo[r].post[p]
       THEN /\ combo' = [combo EXCEPT ![r].pc = "restore"]
            /\ UNCHANGED <<queue, stage, pathLock, globalLock>>
       ELSE /\ combo' = [combo EXCEPT ![r].pc = "done"]
            /\ ReleaseLocks(r)
            /\ Returns(r)
    /\ UNCHANGED <<disk, call>>

Restore(r) ==
    /\ Executes(r, "combo") \/ Executes(r, "rollback")
    /\ combo[r].pc = "restore"
    /\ disk' = [p \in Path |-> IF p \in Manifest(combo[r]) THEN combo[r].pre[p]
                               ELSE disk[p]]
    /\ combo' = [combo EXCEPT ![r].pc = "done"]
    /\ ReleaseLocks(r)
    /\ Returns(r)
    /\ UNCHANGED call

-----------------------------------------------------------------------------
(* The other combo methods, and the rest of the world.                      *)

Begun(c) == call[c].method = "combo" /\ combo[c].pc # "idle"
Terminal == {"complete", "cancelled", "failed"}

\* combo.cancel.  An expired combo counts as one that has not ended.
Cancel(r) ==
    /\ Executes(r, "cancel")
    /\ \E c \in Request :
         IF Begun(c) /\ combo[c].status \notin Terminal
         THEN /\ combo' = [combo EXCEPT ![c].status = "cancelled"]
              /\ IF combo[c].status = "running"
                 THEN UNCHANGED <<pathLock, globalLock>> ELSE ReleaseLocks(c)
         ELSE UNCHANGED <<combo, pathLock, globalLock>>
    /\ Returns(r)
    /\ UNCHANGED <<disk, call>>

\* combo.rollback works from the manifest of an earlier combo; with no such
\* manifest there is nothing to restore and the request fails.
RollbackCommand(r) ==
    /\ Executes(r, "rollback")
    /\ combo[r].pc = "idle"
    /\ \E c \in {c \in Request : Begun(c)} \cup {r} :
         combo' = [combo EXCEPT ![r] =
                     [IdleCombo EXCEPT !.pc = "check",
                                       !.pre = combo[c].pre,
                                       !.post = combo[c].post]]
    /\ UNCHANGED <<disk, queue, call, stage, pathLock, globalLock>>

\* A person or another program edits a file.
ExternalEdit(p) ==
    /\ \E c \in Content \ {disk[p]} : disk' = [disk EXCEPT ![p] = c]
    /\ UNCHANGED <<queue, call, stage, combo, pathLock, globalLock>>

\* What the two serial queues do for request r.
Run(r) ==
    \/ Refuse(r) \/ Dispatch(r) \/ Answer(r) \/ ApplyPatch(r)
    \/ ComboBegin(r) \/ ComboAborts(r) \/ ComboCompletes(r)
    \/ StepInPlace(r) \/ VerifyFromMain(r) \/ PostStep(r) \/ CallNested(r)
    \/ RecordPostimages(r) \/ RollbackCheck(r) \/ Restore(r)
    \/ Cancel(r) \/ RollbackCommand(r)

Next ==
    \/ \E r \in Request : Send(r) \/ Run(r) \/ RunNested(r) \/ NestedWaitEnds(r)
    \/ \E p \in Shared : ExternalEdit(p)

\* A queue runs its head when it can, and a wait with a timeout ends.
Fairness ==
    \A r \in Request :
        /\ WF_vars(Run(r))
        /\ WF_vars(RunNested(r))
        /\ WF_vars(NestedWaitEnds(r))

Spec == Init /\ [][Next]_vars /\ Fairness
-----------------------------------------------------------------------------
(* Properties.                                                              *)

\* Every variable has its type, and no combo runs past the end of its plan.
TypeOK ==
    /\ disk \in [Path -> Content]
    /\ queue \in [Queue -> Seq(Block)]
    /\ call \in [Request -> Call]
    /\ stage \in [Request -> Stages]
    /\ combo \in [Request -> Combos]
    /\ \A r \in Request : combo[r].step <= Len(Plan(r))
    /\ pathLock \in [Path -> Request \cup {NoRequest}]
    /\ globalLock \in BOOLEAN

\* The mutation locks are held exactly while the combo that needs them is
\* between its checkpoint and its last step or rollback: no way out of
\* runComboWithPlan leaks a lock, and no cancel or rollback frees the lock
\* of a combo that is still running.
Active(r) == call[r].method = "combo" /\ combo[r].pc \notin {"idle", "done"}
LocksFollowCombos ==
    /\ globalLock <=> \E r \in Request : Active(r) /\ ContainsMutation(r)
    /\ \A p \in Path, r \in Request :
         pathLock[p] = r <=> Active(r) /\ p \in MutationPaths(r)

\* patch.apply, the nested step of an old combo and a rollback all write
\* without a look at _pathLocks: only the order of the queues keeps them away
\* from the files that a running combo has checkpointed.
LockedFilesAreLeftAlone ==
    [][\A r \in Request :
         ApplyPatch(r) \/ RunNested(r) \/ Restore(r) =>
           \A p \in Path : disk'[p] = disk[p] \/ pathLock[p] \in {NoRequest, r}]_vars

\* Every request is answered: the two queues wait for each other, and a wait
\* that nothing can end would stop every later request as well.
EveryRequestIsAnswered ==
    \A r \in Request : stage[r] = "queued" ~> stage[r] = "answered"

\* What a step of a combo patches, it patches while the combo holds the lock
\* of the file, so that the rollback of the combo covers it.
StepsRunUnderTheirLock ==
    [][\A r \in Request :
         RunNested(r) /\ CurrentStep(r).chip = "patch" =>
           pathLock[CurrentStep(r).path] = r]_vars
=============================================================================
