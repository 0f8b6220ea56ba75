------------------------- MODULE NestedCallsProofs --------------------------
(***************************************************************************)
(* Proofs about NestedCalls, for any requests, plans, files and contents:  *)
(* the types, the balance of the mutation locks, that nobody writes a file *)
(* that another combo has locked, who waits for whom on the two queues,    *)
(* and how many steps a request takes.                                     *)
(*                                                                         *)
(* They rest on one fact about the execution queue: a request whose method *)
(* has been dispatched stays at its head (Turn), so no two requests, and   *)
(* no late nested block and a combo, are ever at work together.            *)
(***************************************************************************)
EXTENDS NestedCalls, SequenceTheorems, TLAPS

OnTurn == {"dispatched", "executed"}

\* What has been dispatched is the head of the execution queue.
Turn == \A r \in Request : stage[r] \in OnTurn => IsRunning("exec", "request", r)

\* A combo is active only while its request is dispatched.
Busy == \A r \in Request : Active(r) => stage[r] = "dispatched"

SerialInv == TypeOK /\ Turn /\ Busy

IInv == SerialInv /\ LocksFollowCombos

QueuesTyped == queue \in [Queue -> Seq(Block)]

\* The step leaves the head of the execution queue in place.
HeadStays ==
    queue["exec"] # <<>> =>
        queue'["exec"] # <<>> /\ Head(queue'["exec"]) = Head(queue["exec"])

-----------------------------------------------------------------------------
(* The queues.                                                              *)

LEMMA AppendKeepsHead ==
    ASSUME NEW S, NEW s \in Seq(S), NEW e \in S
    PROVE  /\ Append(s, e) \in Seq(S)
           /\ s # <<>> => Append(s, e) # <<>> /\ Head(Append(s, e)) = Head(s)
  OBVIOUS

LEMMA EnqueueKeepsHead ==
    ASSUME QueuesTyped, NEW q \in Queue, NEW r \in Request,
           NEW job \in {"request", "method", "step", "nested"}, Enqueue(q, job, r)
    PROVE  QueuesTyped' /\ HeadStays
  <1>1. BlockOf(job, r) \in Block
    BY DEF BlockOf, Block
  <1>2. queue[q] \in Seq(Block) /\ queue["exec"] \in Seq(Block)
    BY DEF QueuesTyped, Queue
  <1> DEFINE new == Append(queue[q], BlockOf(job, r))
  <1>3. /\ new \in Seq(Block)
        /\ queue[q] # <<>> => new # <<>> /\ Head(new) = Head(queue[q])
    BY <1>1, <1>2, AppendKeepsHead
  <1>4. queue' = [queue EXCEPT ![q] = new]
    BY DEF Enqueue
  <1> HIDE DEF new
  <1>5. QueuesTyped'
    BY <1>3, <1>4 DEF QueuesTyped
  <1>6. CASE q = "exec"
    BY <1>3, <1>4, <1>5, <1>6 DEF HeadStays, QueuesTyped, Queue
  <1>7. CASE q # "exec"
    <2>1. queue'["exec"] = queue["exec"]
      BY <1>4, <1>7 DEF QueuesTyped, Queue
    <2> QED BY <2>1, <1>5 DEF HeadStays
  <1> QED BY <1>6, <1>7

LEMMA DequeueTyped ==
    ASSUME QueuesTyped, NEW q \in Queue, queue[q] # <<>>, Dequeue(q)
    PROVE  QueuesTyped' /\ (q = "main" => HeadStays)
  <1>1. queue[q] \in Seq(Block)
    BY DEF QueuesTyped
  <1>2. Tail(queue[q]) \in Seq(Block)
    BY <1>1
  <1>3. QueuesTyped'
    BY <1>2 DEF Dequeue, QueuesTyped
  <1>4. q = "main" => queue'["exec"] = queue["exec"]
    BY DEF Dequeue, QueuesTyped, Queue
  <1> QED BY <1>3, <1>4 DEF HeadStays

LEMMA SameQueue ==
    ASSUME QueuesTyped, UNCHANGED queue PROVE QueuesTyped' /\ HeadStays
  BY DEF QueuesTyped, HeadStays

\* A method that returns leaves the execution queue to its request.
LEMMA ReturnKeepsHead ==
    ASSUME QueuesTyped, NEW r \in Request, NEW method, Executes(r, method), Returns(r)
    PROVE  QueuesTyped' /\ HeadStays
  <1>1. CASE Home(r) = "main"
    <2>1. queue["main"] # <<>> /\ Dequeue("main")
      BY <1>1 DEF Executes, Returns, IsRunning
    <2> QED BY <2>1, DequeueTyped DEF Queue
  <1>2. CASE Home(r) # "main"
    BY <1>2, SameQueue DEF Returns
  <1> QED BY <1>1, <1>2

\* The wait of a nested call ends.
LEMMA WaitKeepsHead ==
    ASSUME QueuesTyped, NEW r \in Request,
           IF IsRunning("main", "step", r) THEN Dequeue("main") ELSE UNCHANGED queue
    PROVE  QueuesTyped' /\ HeadStays
  <1>1. CASE IsRunning("main", "step", r)
    <2>1. queue["main"] # <<>> /\ Dequeue("main")
      BY <1>1 DEF IsRunning
    <2> QED BY <2>1, DequeueTyped DEF Queue
  <1>2. CASE ~IsRunning("main", "step", r)
    BY <1>2, SameQueue
  <1> QED BY <1>1, <1>2

-----------------------------------------------------------------------------
(* The turn of a request.                                                   *)

\* Two requests are never dispatched together.
LEMMA OneAtATime ==
    ASSUME Turn, NEW a \in Request, NEW b \in Request,
           stage[a] \in OnTurn, stage[b] \in OnTurn
    PROVE  a = b
  <1>1. IsRunning("exec", "request", a) /\ IsRunning("exec", "request", b)
    BY DEF Turn
  <1>2. BlockOf("request", a) = BlockOf("request", b)
    BY <1>1 DEF IsRunning
  <1> QED BY <1>2 DEF BlockOf

LEMMA OnlyItself ==
    ASSUME Turn, Busy, NEW r \in Request, stage[r] \in OnTurn,
           NEW a \in Request, Active(a)
    PROVE  a = r
  BY OneAtATime DEF Busy, OnTurn

\* While a nested block runs, no combo is active.
LEMMA NestedRunsAlone ==
    ASSUME Turn, Busy, NEW r \in Request, IsRunning("exec", "nested", r),
           NEW a \in Request
    PROVE  stage[a] \notin OnTurn /\ ~Active(a)
  <1>1. ~IsRunning("exec", "request", a)
    BY DEF IsRunning, BlockOf
  <1> QED BY <1>1 DEF Turn, Busy, OnTurn

LEMMA TurnKept ==
    ASSUME Turn, HeadStays,
           \A a \in Request : stage'[a] \in OnTurn => stage[a] \in OnTurn
    PROVE  Turn'
  <1>1. SUFFICES ASSUME NEW a \in Request, stage'[a] \in OnTurn
                 PROVE  IsRunning("exec", "request", a)'
    BY DEF Turn
  <1>2. IsRunning("exec", "request", a)
    BY <1>1 DEF Turn
  <1> QED BY <1>2 DEF IsRunning, HeadStays, BlockOf

\* The head that leaves was nobody else's.
LEMMA TurnEnds ==
    ASSUME \A a \in Request : stage'[a] \notin OnTurn
    PROVE  Turn'
  BY DEF Turn

-----------------------------------------------------------------------------
(* The locks.                                                               *)

Rest == {"idle", "done"}

LEMMA SameCalls ==
    ASSUME UNCHANGED call, NEW a \in Request
    PROVE  /\ ContainsMutation(a)' <=> ContainsMutation(a)
           /\ MutationPaths(a)' = MutationPaths(a)
           /\ Plan(a)' = Plan(a)
  BY DEF ContainsMutation, MutationPaths, Mutations, Plan

LEMMA LocksStay ==
    ASSUME LocksFollowCombos, UNCHANGED <<call, pathLock, globalLock>>,
           \A a \in Request : Active(a)' <=> Active(a)
    PROVE  LocksFollowCombos'
  BY SameCalls DEF LocksFollowCombos

\* With no combo active the locks are free.
LEMMA LocksFree ==
    ASSUME TypeOK, LocksFollowCombos, \A a \in Request : ~Active(a)
    PROVE  ~globalLock /\ \A p \in Path : pathLock[p] = NoRequest
  BY DEF TypeOK, LocksFollowCombos

\* The locks of the only combo that may hold any are released.
LEMMA LocksFreed ==
    ASSUME TypeOK, LocksFollowCombos, NEW c \in Request, ReleaseLocks(c),
           UNCHANGED call,
           \A a \in Request : Active(a) => a = c,
           \A a \in Request : ~Active(a)'
    PROVE  LocksFollowCombos'
  <1>1. ~globalLock'
    BY DEF ReleaseLocks, LocksFollowCombos, TypeOK
  <1>2. ASSUME NEW p \in Path, NEW a \in Request
        PROVE  pathLock'[p] # a
    <2>1. CASE pathLock[p] = c
      <3>1. pathLock'[p] = NoRequest
        BY <2>1 DEF ReleaseLocks
      <3> QED BY <3>1, NullAssumption
    <2>2. CASE pathLock[p] # c
      <3>1. pathLock'[p] = pathLock[p]
        BY <2>2 DEF ReleaseLocks
      <3> QED BY <2>2, <3>1 DEF LocksFollowCombos
    <2> QED BY <2>1, <2>2
  <1> QED BY <1>1, <1>2 DEF LocksFollowCombos

LEMMA ReleaseTyped ==
    ASSUME TypeOK, NEW c \in Request, ReleaseLocks(c)
    PROVE  /\ pathLock' \in [Path -> Request \cup {NoRequest}]
           /\ globalLock' \in BOOLEAN
  BY DEF TypeOK, ReleaseLocks

-----------------------------------------------------------------------------
(* What the actions have in common.                                         *)

CombosTyped ==
    /\ combo \in [Request -> Combos]
    /\ \A r \in Request : combo[r].step <= Len(Plan(r))

LEMMA ComboMoves ==
    ASSUME CombosTyped, UNCHANGED call, NEW r \in Request, NEW v \in Combos,
           v.step <= Len(Plan(r)), combo' = [combo EXCEPT ![r] = v]
    PROVE  CombosTyped'
  <1>1. combo' \in [Request -> Combos]
    BY DEF CombosTyped
  <1>2. ASSUME NEW a \in Request PROVE combo'[a].step <= Len(Plan(a))'
    <2>1. CASE a = r
      BY <2>1, SameCalls DEF CombosTyped
    <2>2. CASE a # r
      BY <2>2, SameCalls DEF CombosTyped
    <2> QED BY <2>1, <2>2
  <1> QED BY <1>1, <1>2 DEF CombosTyped

LEMMA Parts ==
    TypeOK <=> /\ disk \in [Path -> Content]
               /\ QueuesTyped
               /\ call \in [Request -> Call]
               /\ stage \in [Request -> Stages]
               /\ CombosTyped
               /\ pathLock \in [Path -> Request \cup {NoRequest}]
               /\ globalLock \in BOOLEAN
  BY DEF TypeOK, QueuesTyped, CombosTyped

\* A combo moves on, and is neither begun nor ended by it.
LEMMA ComboStep ==
    ASSUME IInv, NEW r \in Request, NEW v \in Combos,
           v.step <= Len(Plan(r)), combo' = [combo EXCEPT ![r] = v],
           call[r].method = "combo" => (v.pc \in Rest <=> combo[r].pc \in Rest),
           QueuesTyped', HeadStays,
           UNCHANGED <<disk, call, stage, pathLock, globalLock>>
    PROVE  IInv'
  <1>0. CombosTyped'
    BY ComboMoves, Parts DEF IInv, SerialInv
  <1>1. TypeOK'
    BY <1>0 DEF IInv, SerialInv, TypeOK, QueuesTyped, CombosTyped
  <1>2. Turn'
    BY TurnKept DEF IInv, SerialInv
  <1>3. ASSUME NEW a \in Request PROVE Active(a)' <=> Active(a)
    BY DEF Active, IInv, SerialInv, TypeOK, Rest
  <1>4. Busy'
    BY <1>3 DEF Busy, IInv, SerialInv
  <1>5. LocksFollowCombos'
    BY <1>3, LocksStay DEF IInv
  <1> QED BY <1>1, <1>2, <1>4, <1>5 DEF IInv, SerialInv

\* A method returns: its combo, if it is one, is not active after it.
LEMMA MethodReturns ==
    ASSUME IInv, NEW r \in Request, NEW method, Executes(r, method), Returns(r),
           UNCHANGED call,
           \A a \in Request : a # r => (Active(a)' <=> Active(a)),
           ~Active(r)'
    PROVE  /\ QueuesTyped'
           /\ stage' \in [Request -> Stages]
           /\ Turn'
           /\ Busy'
           /\ \A a \in Request : ~Active(a)'
           /\ \A a \in Request : Active(a) => a = r
  <1>1. stage[r] = "dispatched" /\ stage' = [stage EXCEPT ![r] = "executed"]
    BY DEF Executes, Returns
  <1>2. stage \in [Request -> Stages]
    BY DEF IInv, SerialInv, TypeOK
  <1>3. stage' \in [Request -> Stages]
    BY <1>1, <1>2 DEF Stages
  <1>4. QueuesTyped' /\ HeadStays
    BY ReturnKeepsHead, Parts DEF IInv, SerialInv
  <1>5. \A a \in Request : stage'[a] \in OnTurn => stage[a] \in OnTurn
    BY <1>1, <1>2 DEF OnTurn
  <1>6. Turn'
    BY <1>4, <1>5, TurnKept DEF IInv, SerialInv
  <1>7. \A a \in Request : Active(a) => a = r
    BY <1>1, OnlyItself DEF IInv, SerialInv, OnTurn
  <1>8. \A a \in Request : ~Active(a)'
    BY <1>7
  <1> QED BY <1>3, <1>4, <1>6, <1>7, <1>8 DEF Busy

\* A combo or a rollback ends, and releases its locks.
LEMMA ComboReturns ==
    ASSUME IInv, NEW r \in Request, NEW method, Executes(r, method), Returns(r),
           NEW v \in Combos, v.pc = "done", v.step <= Len(Plan(r)),
           combo' = [combo EXCEPT ![r] = v], ReleaseLocks(r),
           disk' \in [Path -> Content], UNCHANGED call
    PROVE  IInv'
  <1>1. combo \in [Request -> Combos]
    BY DEF IInv, SerialInv, TypeOK
  <1>2. ~Active(r)' /\ \A a \in Request : a # r => (Active(a)' <=> Active(a))
    BY <1>1 DEF Active
  <1>3. /\ QueuesTyped' /\ stage' \in [Request -> Stages] /\ Turn' /\ Busy'
        /\ \A a \in Request : ~Active(a)'
        /\ \A a \in Request : Active(a) => a = r
    BY <1>2, MethodReturns
  <1>4. LocksFollowCombos'
    BY <1>3, LocksFreed DEF IInv, SerialInv
  <1>5. CombosTyped' /\ call' \in [Request -> Call]
    BY ComboMoves, Parts DEF IInv, SerialInv
  <1>6. pathLock' \in [Path -> Request \cup {NoRequest}] /\ globalLock' \in BOOLEAN
    BY ReleaseTyped DEF IInv, SerialInv
  <1>7. TypeOK'
    BY <1>3, <1>5, <1>6 DEF TypeOK, QueuesTyped, CombosTyped
  <1> QED BY <1>3, <1>4, <1>7 DEF IInv, SerialInv

\* The request itself moves; its method has not been called or has returned.
LEMMA RequestStep ==
    ASSUME IInv, NEW r \in Request, stage[r] # "dispatched", NEW s \in Stages,
           stage' = [stage EXCEPT ![r] = s], QueuesTyped', Turn',
           UNCHANGED <<disk, call, combo, pathLock, globalLock>>
    PROVE  IInv'
  <1>1. TypeOK'
    BY DEF IInv, SerialInv, TypeOK, QueuesTyped, Plan
  <1>2. \A a \in Request : Active(a)' <=> Active(a)
    BY DEF Active
  <1>3. Busy'
    BY <1>2 DEF Busy, IInv, SerialInv, TypeOK
  <1>4. LocksFollowCombos'
    BY <1>2, LocksStay DEF IInv
  <1> QED BY <1>1, <1>3, <1>4 DEF IInv, SerialInv

\* The head of the execution queue leaves it.
LEMMA HeadLeaves ==
    ASSUME IInv, NEW r \in Request, IsRunning("exec", "request", r),
           NEW s \in Stages \ OnTurn, stage' = [stage EXCEPT ![r] = s],
           Dequeue("exec")
    PROVE  QueuesTyped' /\ Turn'
  <1>1. QueuesTyped'
    BY DequeueTyped, Parts DEF IInv, SerialInv, Queue, IsRunning
  <1>2. ASSUME NEW a \in Request, stage'[a] \in OnTurn PROVE FALSE
    <2>1. a # r /\ stage[a] \in OnTurn
      BY <1>2 DEF IInv, SerialInv, TypeOK
    <2>2. IsRunning("exec", "request", a)
      BY <2>1 DEF IInv, SerialInv, Turn
    <2>3. BlockOf("request", a) = BlockOf("request", r)
      BY <2>2 DEF IsRunning
    <2> QED BY <2>1, <2>3 DEF BlockOf
  <1> QED BY <1>1, <1>2, TurnEnds

LEMMA PlanTyped ==
    ASSUME TypeOK, NEW r \in Request
    PROVE  Plan(r) \in Seq(Step) /\ Len(Plan(r)) \in Nat
  <1>1. call[r] \in Call
    BY DEF TypeOK
  <1>2. call[r].plan \in Seq(Step)
    BY <1>1, CallAssumption
  <1> QED BY <1>2 DEF Plan

-----------------------------------------------------------------------------
(* The actions.                                                             *)

LEMMA SendKeeps ==
    ASSUME IInv, NEW r \in Request, Send(r) PROVE IInv'
  <1>1. stage[r] = "unsent" /\ stage' = [stage EXCEPT ![r] = "queued"]
    BY DEF Send
  <1>2. QueuesTyped' /\ HeadStays
    BY EnqueueKeepsHead, Parts DEF Send, IInv, SerialInv, Queue
  <1>3. \A a \in Request : stage'[a] \in OnTurn => stage[a] \in OnTurn
    BY <1>1 DEF IInv, SerialInv, TypeOK, OnTurn
  <1>4. Turn'
    BY <1>2, <1>3, TurnKept DEF IInv, SerialInv
  <1> QED BY <1>1, <1>2, <1>4, RequestStep DEF Send, Stages

LEMMA RefuseKeeps ==
    ASSUME IInv, NEW r \in Request, Refuse(r) PROVE IInv'
  <1>1. QueuesTyped' /\ Turn'
    BY HeadLeaves DEF Refuse, Stages, OnTurn
  <1> QED BY <1>1, RequestStep DEF Refuse, Stages

LEMMA AnswerKeeps ==
    ASSUME IInv, NEW r \in Request, Answer(r) PROVE IInv'
  <1>1. QueuesTyped' /\ Turn'
    BY HeadLeaves DEF Answer, Stages, OnTurn
  <1> QED BY <1>1, RequestStep DEF Answer, Stages

LEMMA DispatchKeeps ==
    ASSUME IInv, NEW r \in Request, Dispatch(r) PROVE IInv'
  <1>1. /\ IsRunning("exec", "request", r) /\ stage[r] = "queued"
        /\ stage' = [stage EXCEPT ![r] = "dispatched"]
    BY DEF Dispatch
  <1>2. QueuesTyped' /\ HeadStays
    <2>1. CASE Home(r) = "main"
      BY <2>1, EnqueueKeepsHead, Parts DEF Dispatch, IInv, SerialInv, Queue
    <2>2. CASE Home(r) # "main"
      BY <2>2, SameQueue, Parts DEF Dispatch, IInv, SerialInv
    <2> QED BY <2>1, <2>2
  <1>3. ASSUME NEW a \in Request, stage'[a] \in OnTurn
        PROVE  IsRunning("exec", "request", a)'
    <2>1. IsRunning("exec", "request", a)
      <3>1. CASE a = r BY <1>1, <3>1
      <3>2. CASE a # r BY <1>1, <1>3, <3>2 DEF IInv, SerialInv, TypeOK, Turn
      <3> QED BY <3>1, <3>2
    <2> QED BY <1>2, <2>1 DEF IsRunning, HeadStays, BlockOf
  <1>4. Turn'
    BY <1>3 DEF Turn
  <1> QED BY <1>1, <1>2, <1>4, RequestStep DEF Dispatch, Stages

LEMMA ApplyPatchKeeps ==
    ASSUME IInv, NEW r \in Request, ApplyPatch(r) PROVE IInv'
  <1>1. /\ Executes(r, "patch") /\ Returns(r)
        /\ UNCHANGED <<call, combo, pathLock, globalLock>>
    BY DEF ApplyPatch
  <1>2. \A a \in Request : Active(a)' <=> Active(a)
    BY <1>1 DEF Active
  <1>3. ~Active(r)'
    BY <1>1 DEF Active, Executes
  <1>4. QueuesTyped' /\ stage' \in [Request -> Stages] /\ Turn' /\ Busy'
    BY <1>1, <1>2, <1>3, MethodReturns
  <1>5. disk' \in [Path -> Content]
    BY DEF ApplyPatch, IInv, SerialInv, TypeOK
  <1>6. TypeOK'
    BY <1>1, <1>4, <1>5 DEF IInv, SerialInv, TypeOK, QueuesTyped, Plan
  <1>7. LocksFollowCombos'
    BY <1>1, <1>2, LocksStay DEF IInv
  <1> QED BY <1>4, <1>6, <1>7 DEF IInv, SerialInv

LEMMA ExternalEditKeeps ==
    ASSUME IInv, NEW p \in Shared, ExternalEdit(p) PROVE IInv'
  <1>1. disk' \in [Path -> Content] /\ UNCHANGED <<queue, call, stage, combo, pathLock, globalLock>>
    BY DEF ExternalEdit, IInv, SerialInv, TypeOK
  <1>2. TypeOK'
    BY <1>1 DEF IInv, SerialInv, TypeOK, Plan
  <1>3. \A a \in Request : Active(a)' <=> Active(a)
    BY <1>1 DEF Active
  <1>4. Turn' /\ Busy'
    BY <1>1, <1>3 DEF Turn, Busy, IsRunning, IInv, SerialInv
  <1> QED BY <1>1, <1>2, <1>3, <1>4, LocksStay DEF IInv, SerialInv

LEMMA RunNestedKeeps ==
    ASSUME IInv, NEW r \in Request, RunNested(r) PROVE IInv'
  <1>1. /\ IsRunning("exec", "nested", r) /\ Dequeue("exec")
        /\ UNCHANGED <<call, stage, combo, pathLock, globalLock>>
    BY DEF RunNested
  <1>2. disk' \in [Path -> Content]
    BY DEF RunNested, IInv, SerialInv, TypeOK
  <1>3. QueuesTyped'
    BY <1>1, DequeueTyped, Parts DEF IInv, SerialInv, Queue, IsRunning
  <1>4. TypeOK'
    BY <1>1, <1>2, <1>3 DEF IInv, SerialInv, TypeOK, QueuesTyped, Plan
  <1>5. \A a \in Request : stage[a] \notin OnTurn /\ ~Active(a)
    BY <1>1, NestedRunsAlone DEF IInv, SerialInv
  <1>6. Turn'
    BY <1>1, <1>5, TurnEnds
  <1>7. \A a \in Request : Active(a)' <=> Active(a)
    BY <1>1 DEF Active
  <1> QED BY <1>1, <1>4, <1>5, <1>6, <1>7, LocksStay DEF IInv, SerialInv, Busy

LEMMA ComboAbortsKeeps ==
    ASSUME IInv, NEW r \in Request, ComboAborts(r) PROVE IInv'
  <1>1. PICK status \in {"failed", "expired"} :
           combo' = [combo EXCEPT ![r] = Fails(combo[r], status)]
    BY DEF ComboAborts, IInv, SerialInv, TypeOK
  <1> DEFINE v == Fails(combo[r], status)
  <1>2. combo[r] \in Combos /\ combo[r].step <= Len(Plan(r)) /\ combo[r].pc = "steps"
    BY DEF ComboAborts, HasNextStep, IInv, SerialInv, TypeOK
  <1>3. v \in Combos /\ v.step = combo[r].step /\ v.pc = "check"
    BY <1>2 DEF Fails, Combos, Statuses
  <1>4. QueuesTyped' /\ HeadStays /\ UNCHANGED <<disk, call, stage, pathLock, globalLock>>
    BY SameQueue, Parts DEF ComboAborts, IInv, SerialInv
  <1> HIDE DEF v
  <1> QED BY <1>1, <1>2, <1>3, <1>4, ComboStep DEF v, Rest

\* What a step that follows leaves of the combo.
LEMMA NextStepTyped ==
    ASSUME IInv, NEW r \in Request, HasNextStep(r)
    PROVE  /\ WithNextStep(r) \in Combos
           /\ WithNextStep(r).step <= Len(Plan(r))
           /\ combo[r].pc = "steps"
  <1>1. combo[r] \in Combos /\ Len(Plan(r)) \in Nat
    BY PlanTyped DEF IInv, SerialInv, TypeOK
  <1> QED BY <1>1 DEF HasNextStep, WithNextStep, Combos

LEMMA StepEndsTyped ==
    ASSUME NEW c \in Combos, NEW pc \in {"record", "check"}
    PROVE  /\ StepEnds(c, pc) \in Combos
           /\ StepEnds(c, pc).step = c.step
           /\ StepEnds(c, pc).pc = pc
  BY DEF StepEnds, Fails, Combos, Statuses

LEMMA StepInPlaceKeeps ==
    ASSUME IInv, NEW r \in Request, StepInPlace(r) PROVE IInv'
  <1>1. PICK pc \in {"record", "check"} :
           combo' = [combo EXCEPT ![r] = StepEnds(WithNextStep(r), pc)]
    BY DEF StepInPlace
  <1> DEFINE v == StepEnds(WithNextStep(r), pc)
  <1>2. /\ v \in Combos /\ v.step <= Len(Plan(r)) /\ v.pc = pc
        /\ combo[r].pc = "steps"
    BY NextStepTyped, StepEndsTyped DEF StepInPlace
  <1>3. QueuesTyped' /\ HeadStays /\ UNCHANGED <<disk, call, stage, pathLock, globalLock>>
    BY SameQueue, Parts DEF StepInPlace, IInv, SerialInv
  <1> HIDE DEF v
  <1> QED BY <1>1, <1>2, <1>3, ComboStep DEF v, Rest

LEMMA VerifyFromMainKeeps ==
    ASSUME IInv, NEW r \in Request, VerifyFromMain(r) PROVE IInv'
  <1> DEFINE v == [WithNextStep(r) EXCEPT !.pc = "nested"]
  <1>1. combo' = [combo EXCEPT ![r] = v]
    BY DEF VerifyFromMain
  <1>2. /\ v \in Combos /\ v.step <= Len(Plan(r)) /\ v.pc = "nested"
        /\ combo[r].pc = "steps"
    BY NextStepTyped DEF VerifyFromMain, Combos
  <1>3. QueuesTyped' /\ HeadStays
    BY EnqueueKeepsHead, Parts DEF VerifyFromMain, IInv, SerialInv, Queue
  <1> HIDE DEF v
  <1> QED BY <1>1, <1>2, <1>3, ComboStep DEF VerifyFromMain, Rest

LEMMA PostStepKeeps ==
    ASSUME IInv, NEW r \in Request, PostStep(r) PROVE IInv'
  <1> DEFINE v == [WithNextStep(r) EXCEPT !.pc = "posted"]
  <1>1. combo' = [combo EXCEPT ![r] = v]
    BY DEF PostStep
  <1>2. /\ v \in Combos /\ v.step <= Len(Plan(r)) /\ v.pc = "posted"
        /\ combo[r].pc = "steps"
    BY NextStepTyped DEF PostStep, Combos
  <1>3. QueuesTyped' /\ HeadStays
    BY EnqueueKeepsHead, Parts DEF PostStep, IInv, SerialInv, Queue
  <1> HIDE DEF v
  <1> QED BY <1>1, <1>2, <1>3, ComboStep DEF PostStep, Rest

LEMMA CallNestedKeeps ==
    ASSUME IInv, NEW r \in Request, CallNested(r) PROVE IInv'
  <1> DEFINE v == [combo[r] EXCEPT !.pc = "nested"]
  <1>1. combo' = [combo EXCEPT ![r] = v] /\ combo[r].pc = "posted"
    BY DEF CallNested
  <1>2. v \in Combos /\ v.step <= Len(Plan(r)) /\ v.pc = "nested"
    BY DEF IInv, SerialInv, TypeOK, Combos
  <1>3. QueuesTyped' /\ HeadStays
    BY EnqueueKeepsHead, Parts DEF CallNested, IInv, SerialInv, Queue
  <1> HIDE DEF v
  <1> QED BY <1>1, <1>2, <1>3, ComboStep DEF CallNested, Rest

LEMMA NestedWaitEndsKeeps ==
    ASSUME IInv, NEW r \in Request, NestedWaitEnds(r) PROVE IInv'
  <1>1. PICK pc \in {"record", "check"} :
           combo' = [combo EXCEPT ![r] = StepEnds(combo[r], pc)]
    BY DEF NestedWaitEnds, IInv, SerialInv, TypeOK
  <1> DEFINE v == StepEnds(combo[r], pc)
  <1>2. combo[r] \in Combos /\ combo[r].step <= Len(Plan(r)) /\ combo[r].pc = "nested"
    BY DEF NestedWaitEnds, IInv, SerialInv, TypeOK
  <1>3. v \in Combos /\ v.step = combo[r].step /\ v.pc = pc
    BY <1>2, StepEndsTyped
  <1>4. QueuesTyped' /\ HeadStays
    BY WaitKeepsHead, Parts DEF NestedWaitEnds, IInv, SerialInv
  <1> HIDE DEF v
  <1> QED BY <1>1, <1>2, <1>3, <1>4, ComboStep DEF v, NestedWaitEnds, Rest

LEMMA RecordPostimagesKeeps ==
    ASSUME IInv, NEW r \in Request, RecordPostimages(r) PROVE IInv'
  <1> DEFINE post == [p \in Path |-> IF p \in Manifest(combo[r]) THEN disk[p] ELSE NoText]
             v == [combo[r] EXCEPT !.pc = "steps", !.post = post]
  <1>1. combo' = [combo EXCEPT ![r] = v] /\ combo[r].pc = "record"
    BY DEF RecordPostimages, IInv, SerialInv, TypeOK
  <1>2. post \in [Path -> Content \cup {NoText}]
    BY DEF IInv, SerialInv, TypeOK
  <1>3. combo[r] \in Combos /\ combo[r].step <= Len(Plan(r))
    BY DEF IInv, SerialInv, TypeOK
  <1> HIDE DEF post
  <1>4. v \in Combos /\ v.step = combo[r].step /\ v.pc = "steps"
    BY <1>2, <1>3 DEF Combos
  <1>5. QueuesTyped' /\ HeadStays /\ UNCHANGED <<disk, call, stage, pathLock, globalLock>>
    BY SameQueue, Parts DEF RecordPostimages, IInv, SerialInv
  <1> HIDE DEF v
  <1> QED BY <1>1, <1>3, <1>4, <1>5, ComboStep DEF Rest

LEMMA RollbackCommandKeeps ==
    ASSUME IInv, NEW r \in Request, RollbackCommand(r) PROVE IInv'
  <1>1. PICK c \in Request :
           combo' = [combo EXCEPT ![r] = [IdleCombo EXCEPT !.pc = "check",
                                            !.pre = combo[c].pre, !.post = combo[c].post]]
    BY DEF RollbackCommand
  <1> DEFINE v == [IdleCombo EXCEPT !.pc = "check", !.pre = combo[c].pre,
                                    !.post = combo[c].post]
  <1>2. v \in Combos /\ v.step = 0
    BY DEF IInv, SerialInv, TypeOK, Combos, IdleCombo, Statuses
  <1>3. Len(Plan(r)) \in Nat /\ call[r].method # "combo"
    BY PlanTyped DEF IInv, SerialInv, RollbackCommand, Executes
  <1>4. QueuesTyped' /\ HeadStays /\ UNCHANGED <<disk, call, stage, pathLock, globalLock>>
    BY SameQueue, Parts DEF RollbackCommand, IInv, SerialInv
  <1> HIDE DEF v
  <1>5. v.step <= Len(Plan(r))
    BY <1>2, <1>3
  <1> QED BY <1>1, <1>2, <1>3, <1>4, <1>5, ComboStep DEF v

LEMMA ComboCompletesKeeps ==
    ASSUME IInv, NEW r \in Request, ComboCompletes(r) PROVE IInv'
  <1> DEFINE v == [combo[r] EXCEPT !.pc = "done", !.status = "complete"]
  <1>1. combo' = [combo EXCEPT ![r] = v]
    BY DEF ComboCompletes
  <1>2. v \in Combos /\ v.step <= Len(Plan(r)) /\ v.pc = "done"
    BY DEF IInv, SerialInv, TypeOK, Combos, Statuses
  <1>3. disk' \in [Path -> Content]
    BY DEF ComboCompletes, IInv, SerialInv, TypeOK
  <1> HIDE DEF v
  <1> QED BY <1>1, <1>2, <1>3, ComboReturns DEF ComboCompletes

LEMMA RollbackCheckKeeps ==
    ASSUME IInv, NEW r \in Request, RollbackCheck(r) PROVE IInv'
  <1>1. PICK method : Executes(r, method)
    BY DEF RollbackCheck
  <1>2. combo[r] \in Combos /\ combo[r].step <= Len(Plan(r)) /\ combo[r].pc = "check"
    BY DEF RollbackCheck, IInv, SerialInv, TypeOK
  <1>3. ASSUME NEW pc \in {"restore", "done"}
        PROVE  LET v == [combo[r] EXCEPT !.pc = pc]
               IN  v \in Combos /\ v.step <= Len(Plan(r)) /\ v.pc = pc
    BY <1>2 DEF Combos
  <1>4. CASE \A p \in Manifest(combo[r]) : disk[p] = combo[r].post[p]
    <2> DEFINE v == [combo[r] EXCEPT !.pc = "restore"]
    <2>1. combo' = [combo EXCEPT ![r] = v]
      BY <1>4 DEF RollbackCheck
    <2>2. v \in Combos /\ v.step <= Len(Plan(r)) /\ v.pc = "restore"
      BY <1>3
    <2>3. QueuesTyped' /\ HeadStays /\ UNCHANGED <<disk, call, stage, pathLock, globalLock>>
      BY <1>4, SameQueue, Parts DEF RollbackCheck, IInv, SerialInv
    <2> HIDE DEF v
    <2> QED BY <1>2, <2>1, <2>2, <2>3, ComboStep DEF Rest
  <1>5. CASE ~\A p \in Manifest(combo[r]) : disk[p] = combo[r].post[p]
    <2> DEFINE v == [combo[r] EXCEPT !.pc = "done"]
    <2>1. combo' = [combo EXCEPT ![r] = v]
      BY <1>5 DEF RollbackCheck
    <2>2. v \in Combos /\ v.step <= Len(Plan(r)) /\ v.pc = "done"
      BY <1>3
    <2>3. /\ ReleaseLocks(r) /\ Returns(r) /\ UNCHANGED call
          /\ disk' \in [Path -> Content]
      BY <1>5 DEF RollbackCheck, IInv, SerialInv, TypeOK
    <2> HIDE DEF v
    <2> QED BY <1>1, <2>1, <2>2, <2>3, ComboReturns
  <1> QED BY <1>4, <1>5

LEMMA RestoreKeeps ==
    ASSUME IInv, NEW r \in Request, Restore(r) PROVE IInv'
  <1>1. PICK method : Executes(r, method)
    BY DEF Restore
  <1> DEFINE v == [combo[r] EXCEPT !.pc = "done"]
  <1>2. combo' = [combo EXCEPT ![r] = v]
    BY DEF Restore
  <1>3. v \in Combos /\ v.step <= Len(Plan(r)) /\ v.pc = "done"
    BY DEF IInv, SerialInv, TypeOK, Combos
  <1>4. disk' \in [Path -> Content]
    <2>1. combo[r].pre \in [Path -> Content \cup {NoText}] /\ disk \in [Path -> Content]
      BY DEF IInv, SerialInv, TypeOK, Combos
    <2> QED BY <2>1 DEF Restore, Manifest
  <1>5. ReleaseLocks(r) /\ Returns(r) /\ UNCHANGED call
    BY DEF Restore
  <1> HIDE DEF v
  <1> QED BY <1>1, <1>2, <1>3, <1>4, <1>5, ComboReturns

LEMMA CancelKeeps ==
    ASSUME IInv, NEW r \in Request, Cancel(r) PROVE IInv'
  <1>1. Executes(r, "cancel") /\ Returns(r) /\ UNCHANGED <<disk, call>>
    BY DEF Cancel
  <1>2. PICK c \in Request :
           IF Begun(c) /\ combo[c].status \notin Terminal
           THEN /\ combo' = [combo EXCEPT ![c].status = "cancelled"]
                /\ IF combo[c].status = "running"
                   THEN UNCHANGED <<pathLock, globalLock>> ELSE ReleaseLocks(c)
           ELSE UNCHANGED <<combo, pathLock, globalLock>>
    BY DEF Cancel
  <1> DEFINE v == [combo[c] EXCEPT !.status = "cancelled"]
  <1>3. v \in Combos /\ v.step <= Len(Plan(c)) /\ v.pc = combo[c].pc
    BY DEF IInv, SerialInv, TypeOK, Combos, Statuses
  <1>4. UNCHANGED combo \/ combo' = [combo EXCEPT ![c] = v]
    BY <1>2
  <1> HIDE DEF v
  <1>5. CombosTyped'
    <2>1. CASE UNCHANGED combo
      BY <1>1, <2>1 DEF IInv, SerialInv, TypeOK, CombosTyped, Plan
    <2>2. CASE combo' = [combo EXCEPT ![c] = v]
      BY <1>1, <1>3, <2>2, ComboMoves, Parts DEF IInv, SerialInv
    <2> QED BY <1>4, <2>1, <2>2
  <1>6. ASSUME NEW a \in Request PROVE Active(a)' <=> Active(a)
    BY <1>1, <1>3, <1>4 DEF Active, IInv, SerialInv, TypeOK
  <1>7. ~Active(r)'
    BY <1>1 DEF Active, Executes
  <1>8. /\ QueuesTyped' /\ stage' \in [Request -> Stages] /\ Turn' /\ Busy'
        /\ \A a \in Request : ~Active(a)'
        /\ \A a \in Request : Active(a) => a = r
    BY <1>1, <1>6, <1>7, MethodReturns
  <1>9. UNCHANGED <<pathLock, globalLock>> \/ ReleaseLocks(c)
    BY <1>2
  <1>10. LocksFollowCombos'
    <2>1. CASE UNCHANGED <<pathLock, globalLock>>
      BY <1>1, <1>6, <2>1, LocksStay DEF IInv
    <2>2. CASE ReleaseLocks(c)
      <3>1. \A a \in Request : Active(a) => a = c
        BY <1>6, <1>8
      <3> QED BY <1>1, <1>8, <2>2, <3>1, LocksFreed DEF IInv, SerialInv
    <2> QED BY <1>9, <2>1, <2>2
  <1>11. pathLock' \in [Path -> Request \cup {NoRequest}] /\ globalLock' \in BOOLEAN
    BY <1>9, ReleaseTyped DEF IInv, SerialInv, TypeOK
  <1>12. TypeOK'
    BY <1>1, <1>5, <1>8, <1>11 DEF IInv, SerialInv, TypeOK, QueuesTyped, CombosTyped
  <1> QED BY <1>8, <1>10, <1>12 DEF IInv, SerialInv

LEMMA ComboBeginKeeps ==
    ASSUME IInv, NEW r \in Request, ComboBegin(r) PROVE IInv'
  <1> DEFINE paths == MutationPaths(r)
             image == [p \in Path |-> IF p \in paths THEN disk[p] ELSE NoText]
             fails == [IdleCombo EXCEPT !.pc = "done", !.status = "failed"]
             starts == [pc |-> "steps", status |-> "running", step |-> 0,
                        pre |-> image, post |-> image]
  <1>1. /\ Executes(r, "combo") /\ combo[r].pc = "idle" /\ UNCHANGED <<disk, call>>
        /\ stage[r] = "dispatched" /\ call[r].method = "combo"
    BY DEF ComboBegin, Executes
  <1>2. \A a \in Request : ~Active(a)
    <2>1. ~Active(r)
      BY <1>1 DEF Active
    <2> QED BY <1>1, <2>1, OnlyItself DEF IInv, SerialInv, OnTurn
  <1>3. ~globalLock /\ \A p \in Path : pathLock[p] = NoRequest
    BY <1>2, LocksFree DEF IInv, SerialInv
  <1>4. Len(Plan(r)) \in Nat /\ combo \in [Request -> Combos]
    BY PlanTyped DEF IInv, SerialInv, TypeOK
  <1>5. CASE combo' = [combo EXCEPT ![r] = fails] /\ Returns(r) /\ UNCHANGED <<pathLock, globalLock>>
    <2>1. fails \in Combos /\ fails.step <= Len(Plan(r)) /\ fails.pc = "done"
      <3>1. NoManifest \in [Path -> Content \cup {NoText}]
        BY DEF NoManifest
      <3>2. fails \in Combos /\ fails.step = 0 /\ fails.pc = "done"
        BY <3>1 DEF IdleCombo, Combos, Statuses
      <3> QED BY <1>4, <3>2
    <2> HIDE DEF fails
    <2>2. ReleaseLocks(r)
      BY <1>3, <1>5, NullAssumption DEF ReleaseLocks, IInv, SerialInv, TypeOK
    <2>3. disk' \in [Path -> Content]
      BY <1>1 DEF IInv, SerialInv, TypeOK
    <2> QED BY <1>1, <1>5, <2>1, <2>2, <2>3, ComboReturns
  <1>6. CASE /\ pathLock' = [p \in Path |-> IF p \in paths THEN r ELSE pathLock[p]]
             /\ globalLock' = (globalLock \/ ContainsMutation(r))
             /\ combo' = [combo EXCEPT ![r] = starts]
             /\ UNCHANGED <<queue, stage>>
    <2>1. starts \in Combos /\ starts.step <= Len(Plan(r)) /\ starts.pc = "steps"
      <3>1. image \in [Path -> Content \cup {NoText}]
        BY DEF IInv, SerialInv, TypeOK
      <3> HIDE DEF image
      <3> QED BY <1>4, <3>1 DEF Combos, Statuses
    <2> HIDE DEF starts
    <2>2. CombosTyped'
      BY <1>1, <1>6, <2>1, ComboMoves, Parts DEF IInv, SerialInv
    <2>3. /\ pathLock' \in [Path -> Request \cup {NoRequest}]
          /\ globalLock' \in BOOLEAN
      BY <1>6 DEF IInv, SerialInv, TypeOK, ContainsMutation
    <2>4. TypeOK'
      BY <1>1, <1>6, <2>2, <2>3 DEF IInv, SerialInv, TypeOK, CombosTyped
    <2>5. \A a \in Request : Active(a)' <=> a = r
      BY <1>1, <1>2, <1>4, <1>6, <2>1 DEF Active
    <2>6. Turn' /\ Busy'
      BY <1>1, <1>6, <2>5 DEF Turn, Busy, IsRunning, IInv, SerialInv
    <2>7. /\ ContainsMutation(r)' <=> ContainsMutation(r)
          /\ MutationPaths(r)' = paths
      BY <1>1, SameCalls
    <2>8. globalLock' <=> \E a \in Request : Active(a)' /\ ContainsMutation(a)'
      BY <1>3, <1>6, <2>5, <2>7
    <2>9. ASSUME NEW p \in Path, NEW a \in Request
          PROVE  pathLock'[p] = a <=> Active(a)' /\ p \in MutationPaths(a)'
      <3>1. pathLock'[p] = IF p \in paths THEN r ELSE NoRequest
        BY <1>3, <1>6
      <3> HIDE DEF paths
      <3>2. CASE a = r
        BY <2>5, <2>7, <3>1, <3>2, NullAssumption
      <3>3. CASE a # r
        BY <2>5, <3>1, <3>3, NullAssumption
      <3> QED BY <3>2, <3>3
    <2> QED BY <2>4, <2>6, <2>8, <2>9 DEF IInv, SerialInv, LocksFollowCombos
  <1> QED BY <1>5, <1>6 DEF ComboBegin

-----------------------------------------------------------------------------
(* The theorems.                                                            *)

LEMMA InitKeeps == Init => IInv
  <1> SUFFICES ASSUME Init PROVE IInv
    OBVIOUS
  <1>1. /\ combo = [r \in Request |-> IdleCombo]
        /\ stage = [r \in Request |-> "unsent"]
        /\ \A r \in Request : ~Active(r)
    BY DEF Init, Active, IdleCombo
  <1>2. IdleCombo \in Combos /\ IdleCombo.step = 0
    BY DEF IdleCombo, NoManifest, Combos, Statuses
  <1>3. \A r \in Request : Len(Plan(r)) \in Nat
    <2> TAKE r \in Request
    <2>1. call[r] \in Call
      BY DEF Init
    <2>2. call[r].plan \in Seq(Step)
      BY <2>1, CallAssumption
    <2> QED BY <2>2 DEF Plan
  <1>4. CombosTyped
    <2>1. combo \in [Request -> Combos]
      BY <1>1, <1>2
    <2>2. ASSUME NEW r \in Request PROVE combo[r].step <= Len(Plan(r))
      <3>1. combo[r].step = 0
        BY <1>1, <1>2
      <3> QED BY <1>3, <3>1
    <2> QED BY <2>1, <2>2 DEF CombosTyped
  <1>5. QueuesTyped
    BY DEF Init, QueuesTyped
  <1>6. TypeOK
    BY <1>4, <1>5 DEF Init, TypeOK, QueuesTyped, CombosTyped, Stages
  <1>7. Turn /\ Busy
    BY <1>1 DEF Turn, Busy, OnTurn
  <1>8. LocksFollowCombos
    BY <1>1, NullAssumption DEF Init, LocksFollowCombos
  <1> QED BY <1>6, <1>7, <1>8 DEF IInv, SerialInv

LEMMA NextKeeps == IInv /\ [Next]_vars => IInv'
  <1> SUFFICES ASSUME IInv, [Next]_vars PROVE IInv'
    OBVIOUS
  <1>1. ASSUME NEW r \in Request, Send(r) PROVE IInv'
    BY <1>1, SendKeeps
  <1>2. ASSUME NEW r \in Request, RunNested(r) PROVE IInv'
    BY <1>2, RunNestedKeeps
  <1>3. ASSUME NEW r \in Request, NestedWaitEnds(r) PROVE IInv'
    BY <1>3, NestedWaitEndsKeeps
  <1>4. ASSUME NEW r \in Request, Run(r) PROVE IInv'
    <2>1. CASE Refuse(r) BY <2>1, RefuseKeeps
    <2>2. CASE Dispatch(r) BY <2>2, DispatchKeeps
    <2>3. CASE Answer(r) BY <2>3, AnswerKeeps
    <2>4. CASE ApplyPatch(r) BY <2>4, ApplyPatchKeeps
    <2>5. CASE ComboBegin(r) BY <2>5, ComboBeginKeeps
    <2>6. CASE ComboAborts(r) BY <2>6, ComboAbortsKeeps
    <2>7. CASE ComboCompletes(r) BY <2>7, ComboCompletesKeeps
    <2>8. CASE StepInPlace(r) BY <2>8, StepInPlaceKeeps
    <2>9. CASE VerifyFromMain(r) BY <2>9, VerifyFromMainKeeps
    <2>10. CASE PostStep(r) BY <2>10, PostStepKeeps
    <2>11. CASE CallNested(r) BY <2>11, CallNestedKeeps
    <2>12. CASE RecordPostimages(r) BY <2>12, RecordPostimagesKeeps
    <2>13. CASE RollbackCheck(r) BY <2>13, RollbackCheckKeeps
    <2>14. CASE Restore(r) BY <2>14, RestoreKeeps
    <2>15. CASE Cancel(r) BY <2>15, CancelKeeps
    <2>16. CASE RollbackCommand(r) BY <2>16, RollbackCommandKeeps
    <2> QED
      BY <1>4, <2>1, <2>2, <2>3, <2>4, <2>5, <2>6, <2>7, <2>8, <2>9, <2>10,
         <2>11, <2>12, <2>13, <2>14, <2>15, <2>16 DEF Run
  <1>5. ASSUME NEW p \in Shared, ExternalEdit(p) PROVE IInv'
    BY <1>5, ExternalEditKeeps
  <1>6. CASE UNCHANGED vars
    <2>1. \A a \in Request : Active(a)' <=> Active(a)
      BY <1>6 DEF Active, vars
    <2>2. TypeOK' /\ Turn'
      BY <1>6 DEF vars, IInv, SerialInv, TypeOK, Turn, IsRunning, Plan
    <2>3. Busy' /\ LocksFollowCombos'
      BY <1>6, <2>1, LocksStay DEF vars, Busy, IInv, SerialInv
    <2> QED BY <2>2, <2>3 DEF IInv, SerialInv
  <1> QED BY <1>1, <1>2, <1>3, <1>4, <1>5, <1>6 DEF Next

LEMMA IInvHolds == Spec => []IInv
  BY InitKeeps, NextKeeps, PTL DEF Spec

\* Every variable keeps its type, and a combo stays within its plan.
THEOREM TypeCorrect == Spec => []TypeOK
  <1>1. IInv => TypeOK
    BY DEF IInv, SerialInv
  <1> QED BY <1>1, IInvHolds, PTL

\* No way out of a combo leaks a lock, and nobody frees those of a combo that
\* is still active, whatever is cancelled, rolled back, refused or late.
THEOREM LocksAreNotLeaked == Spec => []LocksFollowCombos
  <1>1. IInv => LocksFollowCombos
    BY DEF IInv
  <1> QED BY <1>1, IInvHolds, PTL

\* A patch, a nested step, however late, and a rollback write while no other
\* combo holds the lock of what they write.
THEOREM WritersAreSerial == Spec => LockedFilesAreLeftAlone
  <1>1. ASSUME IInv, NEW r \in Request, Executes(r, "combo") \/ Executes(r, "rollback")
                                          \/ Executes(r, "patch"),
               NEW p \in Path
        PROVE  pathLock[p] \in {NoRequest, r}
    <2>1. \A a \in Request : Active(a) => a = r
      BY <1>1, OnlyItself DEF IInv, SerialInv, OnTurn, Executes
    <2> QED BY <1>1, <2>1 DEF IInv, SerialInv, TypeOK, LocksFollowCombos
  <1>2. ASSUME IInv, NEW r \in Request, RunNested(r), NEW p \in Path
        PROVE  pathLock[p] \in {NoRequest, r}
    <2>1. \A a \in Request : ~Active(a)
      BY <1>2, NestedRunsAlone DEF IInv, SerialInv, RunNested
    <2> QED BY <1>2, <2>1, LocksFree DEF IInv, SerialInv
  <1>3. IInv => \A r \in Request :
                  ApplyPatch(r) \/ RunNested(r) \/ Restore(r) =>
                    \A p \in Path : disk'[p] = disk[p] \/ pathLock[p] \in {NoRequest, r}
    BY <1>1, <1>2 DEF ApplyPatch, Restore
  <1> QED BY <1>3, IInvHolds, PTL DEF LockedFilesAreLeftAlone
-----------------------------------------------------------------------------
(* The main queue.                                                          *)

\* Its blocks are those of the request that has been dispatched: the method,
\* and behind it the step that its combo posted.  A nested call of a combo
\* that runs on the main queue posts none.
Waits(r) == combo[r].pc \in {"posted", "nested"}
Posts(r) == combo[r].pc = "posted" \/ (combo[r].pc = "nested" /\ Home(r) = "exec")
MainBlocks(r) ==
    IF Home(r) = "main"
    THEN IF Posts(r) THEN <<BlockOf("method", r), BlockOf("step", r)>>
         ELSE <<BlockOf("method", r)>>
    ELSE IF Posts(r) THEN <<BlockOf("step", r)>> ELSE <<>>

MainInv ==
    /\ \A r \in Request : Waits(r) => call[r].method = "combo"
    /\ \A r \in Request : stage[r] = "dispatched" => queue["main"] = MainBlocks(r)
    /\ (\A r \in Request : stage[r] # "dispatched") => queue["main"] = <<>>

LEMMA TwoBlocks ==
    ASSUME NEW S, NEW a \in S, NEW b \in S
    PROVE  /\ Append(<<a>>, b) = <<a, b>>
           /\ <<a>> # <<>> /\ Head(<<a>>) = a
           /\ <<a, b>> # <<>> /\ Head(<<a, b>>) = a
  <1> DEFINE one == <<a>>
             two == <<a, b>>
             both == Append(one, b)
  <1>1. one \in Seq(S) /\ Len(one) = 1 /\ one[1] = a
    OBVIOUS
  <1>2. two \in Seq(S) /\ Len(two) = 2 /\ two[1] = a /\ two[2] = b
    OBVIOUS
  <1>3. both[1] = a
    OBVIOUS
  <1>4. both[2] = b
    OBVIOUS
  <1> HIDE DEF one, two
  <1>5. both \in Seq(S) /\ Len(both) = 2
    <2>1. one \in Seq(S)
      BY <1>1
    <2>2. both \in Seq(S) /\ Len(both) = Len(one) + 1
      BY <2>1, AppendProperties
    <2> QED BY <1>1, <2>2
  <1> HIDE DEF both
  <1>6. both = two
    <2>1. ASSUME NEW i \in 1..2 PROVE both[i] = two[i]
      <3>1. i = 1 \/ i = 2 OBVIOUS
      <3> QED BY <1>2, <1>3, <1>4, <3>1
    <2> QED BY <1>2, <1>5, <2>1, SeqEqual
  <1>7. \A s \in Seq(S) : Len(s) # 0 => s # <<>> /\ Head(s) = s[1]
    OBVIOUS
  <1>8. one # <<>> /\ Head(one) = a /\ two # <<>> /\ Head(two) = a
    BY <1>1, <1>2, <1>7
  <1> QED BY <1>6, <1>8 DEF one, two, both

LEMMA HomeStays ==
    ASSUME UNCHANGED call, NEW a \in Request PROVE Home(a)' = Home(a)
  BY DEF Home

LEMMA WaitsAreDispatched ==
    ASSUME IInv, MainInv, NEW r \in Request, Waits(r)
    PROVE  stage[r] = "dispatched" /\ call[r].method = "combo"
  BY DEF IInv, SerialInv, MainInv, Waits, Busy, Active

LEMMA MainUnmoved ==
    ASSUME MainInv, UNCHANGED call, queue'["main"] = queue["main"],
           \A a \in Request : stage'[a] = "dispatched" <=> stage[a] = "dispatched",
           \A a \in Request : combo'[a].pc = combo[a].pc
    PROVE  MainInv'
  <1>1. \A a \in Request : MainBlocks(a)' = MainBlocks(a) /\ (Waits(a)' <=> Waits(a))
    BY HomeStays DEF MainBlocks, Posts, Waits, BlockOf
  <1> QED BY <1>1 DEF MainInv

\* The combo or the rollback of the dispatched request goes on.
LEMMA MainFollows ==
    ASSUME IInv, MainInv, NEW r \in Request, stage[r] = "dispatched",
           UNCHANGED <<call, stage>>, NEW v, combo' = [combo EXCEPT ![r] = v],
           Waits(r)' => call[r].method = "combo",
           queue'["main"] = MainBlocks(r)'
    PROVE  MainInv'
  <1>1. \A a \in Request : stage[a] = "dispatched" => a = r
    BY OneAtATime DEF IInv, SerialInv, OnTurn
  <1>2. \A a \in Request : a # r => (Waits(a)' <=> Waits(a))
    BY DEF Waits, IInv, SerialInv, TypeOK
  <1>3. \A a \in Request : Waits(a)' => call'[a].method = "combo"
    BY <1>2 DEF MainInv
  <1>4. \A a \in Request : stage'[a] = "dispatched" => queue'["main"] = MainBlocks(a)'
    BY <1>1
  <1> QED BY <1>3, <1>4 DEF MainInv

\* It goes on where no step was or is posted.
LEMMA MainFollowsUnmoved ==
    ASSUME IInv, MainInv, NEW r \in Request, stage[r] = "dispatched",
           UNCHANGED <<call, stage>>, queue'["main"] = queue["main"],
           NEW v, combo' = [combo EXCEPT ![r] = v],
           v.pc \notin {"posted", "nested"}, ~Posts(r)
    PROVE  MainInv'
  <1>1. combo'[r] = v
    BY DEF IInv, SerialInv, TypeOK
  <1>2. ~Waits(r)' /\ ~Posts(r)'
    BY <1>1 DEF Waits, Posts
  <1>3. queue'["main"] = MainBlocks(r)'
    BY <1>2, HomeStays DEF MainBlocks, MainInv, BlockOf
  <1> QED BY <1>2, <1>3, MainFollows

LEMMA MainReturns ==
    ASSUME IInv, MainInv, NEW r \in Request, stage[r] = "dispatched", Returns(r),
           ~Posts(r), UNCHANGED call,
           \A a \in Request : Waits(a)' => Waits(a)
    PROVE  MainInv'
  <1>1. stage' = [stage EXCEPT ![r] = "executed"] /\ stage \in [Request -> Stages]
    BY DEF Returns, IInv, SerialInv, TypeOK
  <1>2. \A a \in Request : stage'[a] # "dispatched"
    BY <1>1, OneAtATime DEF IInv, SerialInv, OnTurn
  <1>3. queue'["main"] = <<>>
    <2>1. queue \in [Queue -> Seq(Block)] /\ "main" \in Queue
      BY DEF IInv, SerialInv, TypeOK, Queue
    <2>2. CASE Home(r) = "main"
      <3>1. queue["main"] = <<BlockOf("method", r)>>
        BY <2>2 DEF MainInv, MainBlocks
      <3>2. queue'["main"] = Tail(queue["main"])
        BY <2>1, <2>2 DEF Returns, Dequeue
      <3> QED BY <3>1, <3>2
    <2>3. CASE Home(r) # "main"
      <3>1. queue["main"] = <<>>
        BY <2>3 DEF MainInv, MainBlocks
      <3> QED BY <2>3, <3>1 DEF Returns
    <2> QED BY <2>2, <2>3
  <1> QED BY <1>2, <1>3 DEF MainInv

\* Nothing is dispatched while the head of the execution queue is not.
LEMMA NoneDispatched ==
    ASSUME IInv, NEW r \in Request, stage[r] # "dispatched",
           NEW job, IsRunning("exec", job, r), NEW a \in Request
    PROVE  stage[a] # "dispatched"
  <1> SUFFICES ASSUME stage[a] = "dispatched" PROVE FALSE
    OBVIOUS
  <1>1. IsRunning("exec", "request", a)
    BY DEF IInv, SerialInv, Turn, OnTurn
  <1>2. BlockOf("request", a) = BlockOf(job, r)
    BY <1>1 DEF IsRunning
  <1> QED BY <1>2 DEF BlockOf

\* The request before it is dispatched, or after its method has returned.
LEMMA MainAsides ==
    ASSUME IInv, MainInv, NEW r \in Request,
           Send(r) \/ Refuse(r) \/ Answer(r) \/ RunNested(r)
    PROVE  MainInv'
  <1>1. queue'["main"] = queue["main"]
    BY DEF Send, Refuse, Answer, RunNested, Enqueue, Dequeue, IInv, SerialInv, TypeOK, Queue
  <1>2. \A a \in Request : stage'[a] = "dispatched" <=> stage[a] = "dispatched"
    BY DEF Send, Refuse, Answer, RunNested, IInv, SerialInv, TypeOK
  <1> QED BY <1>1, <1>2, MainUnmoved DEF Send, Refuse, Answer, RunNested

LEMMA MainDispatch ==
    ASSUME IInv, MainInv, NEW r \in Request, Dispatch(r) PROVE MainInv'
  <1>1. /\ IsRunning("exec", "request", r) /\ stage[r] = "queued"
        /\ stage' = [stage EXCEPT ![r] = "dispatched"]
        /\ UNCHANGED <<call, combo>>
    BY DEF Dispatch
  <1>2. \A a \in Request : stage[a] # "dispatched"
    BY <1>1, NoneDispatched
  <1>3. queue["main"] = <<>>
    BY <1>2 DEF MainInv
  <1>4. \A a \in Request : ~Waits(a)
    BY <1>2, WaitsAreDispatched
  <1>5. \A a \in Request : ~Waits(a)' /\ ~Posts(a)'
    BY <1>1, <1>4 DEF Waits, Posts
  <1>6. \A a \in Request : stage'[a] = "dispatched" => a = r
    BY <1>1, <1>2 DEF IInv, SerialInv, TypeOK
  <1>7. queue'["main"] = MainBlocks(r)'
    <2>1. queue \in [Queue -> Seq(Block)] /\ "main" \in Queue
      BY DEF IInv, SerialInv, TypeOK, Queue
    <2>2. CASE Home(r) = "main"
      <3>1. queue'["main"] = Append(queue["main"], BlockOf("method", r))
        BY <2>1, <2>2 DEF Dispatch, Enqueue
      <3>2. queue'["main"] = <<BlockOf("method", r)>>
        BY <1>3, <3>1
      <3> QED BY <1>1, <1>5, <2>2, <3>2, HomeStays DEF MainBlocks, BlockOf
    <2>3. CASE Home(r) # "main"
      <3>1. queue'["main"] = <<>>
        BY <1>3, <2>3 DEF Dispatch
      <3> QED BY <1>1, <1>5, <2>3, <3>1, HomeStays DEF MainBlocks
    <2> QED BY <2>2, <2>3
  <1>8. stage'[r] = "dispatched"
    BY <1>1 DEF IInv, SerialInv, TypeOK
  <1> QED BY <1>5, <1>6, <1>7, <1>8 DEF MainInv

\* The step that is posted is behind the method on the main queue, or alone.
LEMMA MainPostStep ==
    ASSUME IInv, MainInv, NEW r \in Request, PostStep(r) PROVE MainInv'
  <1> DEFINE v == [WithNextStep(r) EXCEPT !.pc = "posted"]
  <1>1. /\ combo' = [combo EXCEPT ![r] = v] /\ UNCHANGED <<call, stage>>
        /\ stage[r] = "dispatched" /\ call[r].method = "combo"
        /\ Enqueue("main", "step", r)
    BY DEF PostStep, Executes
  <1>2. v.pc = "posted" /\ combo[r].pc = "steps"
    BY NextStepTyped DEF PostStep, Combos
  <1> HIDE DEF v
  <1>3. Posts(r)' /\ ~Posts(r)
    BY <1>1, <1>2 DEF Posts, IInv, SerialInv, TypeOK
  <1>4. queue'["main"] = Append(queue["main"], BlockOf("step", r))
    BY <1>1 DEF Enqueue, IInv, SerialInv, TypeOK, Queue
  <1>5. queue["main"] = MainBlocks(r) /\ Home(r)' = Home(r)
    BY <1>1, HomeStays DEF MainInv
  <1>6. queue'["main"] = MainBlocks(r)'
    <2>1. CASE Home(r) = "main"
      <3>1. queue["main"] = <<BlockOf("method", r)>>
        BY <1>3, <1>5, <2>1 DEF MainBlocks
      <3>2. BlockOf("method", r) \in Block /\ BlockOf("step", r) \in Block
        BY DEF BlockOf, Block
      <3>3. queue'["main"] = <<BlockOf("method", r), BlockOf("step", r)>>
        BY <1>4, <3>1, <3>2, TwoBlocks
      <3> QED BY <1>3, <1>5, <2>1, <3>3 DEF MainBlocks, BlockOf
    <2>2. CASE Home(r) # "main"
      <3>1. queue["main"] = <<>>
        BY <1>3, <1>5, <2>2 DEF MainBlocks
      <3>2. queue'["main"] = <<BlockOf("step", r)>>
        BY <1>4, <3>1
      <3> QED BY <1>3, <1>5, <2>2, <3>2 DEF MainBlocks, BlockOf
    <2> QED BY <2>1, <2>2
  <1> QED BY <1>1, <1>6, MainFollows

LEMMA MainVerify ==
    ASSUME IInv, MainInv, NEW r \in Request, VerifyFromMain(r) PROVE MainInv'
  <1> DEFINE v == [WithNextStep(r) EXCEPT !.pc = "nested"]
  <1>1. /\ combo' = [combo EXCEPT ![r] = v] /\ UNCHANGED <<call, stage>>
        /\ stage[r] = "dispatched" /\ call[r].method = "combo"
        /\ Home(r) = "main" /\ Enqueue("exec", "nested", r)
    BY DEF VerifyFromMain, Executes
  <1>2. v.pc = "nested" /\ combo[r].pc = "steps"
    BY NextStepTyped DEF VerifyFromMain, Combos
  <1> HIDE DEF v
  <1>3. queue'["main"] = queue["main"]
    BY <1>1 DEF Enqueue, IInv, SerialInv, TypeOK, Queue
  <1>4. combo'[r].pc = "nested" /\ Home(r)' = "main"
    BY <1>1, <1>2, HomeStays DEF IInv, SerialInv, TypeOK
  <1>5. ~Posts(r)' /\ ~Posts(r)
    BY <1>2, <1>4 DEF Posts
  <1>6. queue'["main"] = MainBlocks(r)'
    BY <1>1, <1>3, <1>4, <1>5 DEF MainInv, MainBlocks, BlockOf
  <1> QED BY <1>1, <1>6, MainFollows

LEMMA MainCallNested ==
    ASSUME IInv, MainInv, NEW r \in Request, CallNested(r) PROVE MainInv'
  <1> DEFINE v == [combo[r] EXCEPT !.pc = "nested"]
  <1>1. /\ combo' = [combo EXCEPT ![r] = v] /\ UNCHANGED <<call, stage>>
        /\ combo[r].pc = "posted" /\ IsRunning("main", "step", r)
        /\ Enqueue("exec", "nested", r)
    BY DEF CallNested
  <1>2. v.pc = "nested"
    BY DEF IInv, SerialInv, TypeOK, Combos
  <1> HIDE DEF v
  <1>3. stage[r] = "dispatched" /\ call[r].method = "combo"
    BY <1>1, WaitsAreDispatched DEF Waits
  <1>4. queue["main"] = MainBlocks(r) /\ Posts(r)
    BY <1>1, <1>3 DEF MainInv, Posts
  <1>5. Home(r) # "main"
    <2> SUFFICES ASSUME Home(r) = "main" PROVE FALSE
      OBVIOUS
    <2>1. Head(queue["main"]) = BlockOf("method", r)
      BY <1>4 DEF MainBlocks
    <2> QED BY <1>1, <2>1 DEF IsRunning, BlockOf
  <1>6. Home(r)' = "exec" /\ Home(r) = "exec"
    BY <1>1, <1>5 DEF Home
  <1>7. combo'[r].pc = "nested"
    BY <1>1, <1>2 DEF IInv, SerialInv, TypeOK
  <1>8. Posts(r)'
    BY <1>6, <1>7 DEF Posts
  <1>9. queue'["main"] = queue["main"]
    BY <1>1 DEF Enqueue, IInv, SerialInv, TypeOK, Queue
  <1>10. queue'["main"] = MainBlocks(r)'
    BY <1>4, <1>6, <1>8, <1>9 DEF MainBlocks, BlockOf
  <1> QED BY <1>1, <1>3, <1>10, MainFollows

\* The step leaves the main queue when its wait ends.
LEMMA MainWaitEnds ==
    ASSUME IInv, MainInv, NEW r \in Request, NestedWaitEnds(r) PROVE MainInv'
  <1>1. PICK pc \in {"record", "check"} :
           combo' = [combo EXCEPT ![r] = StepEnds(combo[r], pc)]
    BY DEF NestedWaitEnds, IInv, SerialInv, TypeOK
  <1> DEFINE v == StepEnds(combo[r], pc)
  <1>2. v.pc = pc
    BY StepEndsTyped DEF IInv, SerialInv, TypeOK
  <1>3. /\ combo[r].pc = "nested" /\ UNCHANGED <<call, stage>>
        /\ combo' = [combo EXCEPT ![r] = v]
    BY <1>1 DEF NestedWaitEnds
  <1> HIDE DEF v
  <1>4. stage[r] = "dispatched" /\ call[r].method = "combo"
    BY <1>3, WaitsAreDispatched DEF Waits
  <1>5. queue["main"] = MainBlocks(r) /\ Home(r)' = Home(r)
    BY <1>3, <1>4, HomeStays DEF MainInv
  <1>6. combo'[r].pc = pc
    BY <1>2, <1>3 DEF IInv, SerialInv, TypeOK
  <1>7. ~Posts(r)'
    BY <1>6 DEF Posts
  <1>8. queue'["main"] = MainBlocks(r)'
    <2>1. CASE Home(r) = "main"
      <3>1. queue["main"] = <<BlockOf("method", r)>>
        BY <1>3, <1>5, <2>1 DEF MainBlocks, Posts
      <3>2. Head(queue["main"]) = BlockOf("method", r)
        BY <3>1
      <3>3. ~IsRunning("main", "step", r)
        BY <3>2 DEF IsRunning, BlockOf
      <3>4. queue'["main"] = <<BlockOf("method", r)>>
        BY <3>1, <3>3 DEF NestedWaitEnds
      <3> QED BY <1>5, <1>7, <2>1, <3>4 DEF MainBlocks, BlockOf
    <2>2. CASE Home(r) # "main"
      <3>1. Posts(r)
        BY <1>3, <2>2 DEF Posts, Home
      <3>2. queue["main"] = <<BlockOf("step", r)>>
        BY <1>5, <2>2, <3>1 DEF MainBlocks
      <3>3. IsRunning("main", "step", r)
        BY <3>2 DEF IsRunning
      <3>4. queue'["main"] = Tail(queue["main"])
        BY <3>3 DEF NestedWaitEnds, Dequeue, IInv, SerialInv, TypeOK, Queue
      <3>5. queue'["main"] = <<>>
        BY <3>2, <3>4
      <3> QED BY <1>5, <1>7, <2>2, <3>5 DEF MainBlocks
    <2> QED BY <2>1, <2>2
  <1>9. ~Waits(r)'
    BY <1>6 DEF Waits
  <1> QED BY <1>3, <1>4, <1>8, <1>9, MainFollows

\* A combo or a rollback that neither posts nor returns.
LEMMA MainAborts ==
    ASSUME IInv, MainInv, NEW r \in Request, ComboAborts(r) PROVE MainInv'
  <1>1. PICK status \in {"failed", "expired"} :
           combo' = [combo EXCEPT ![r] = Fails(combo[r], status)]
    BY DEF ComboAborts, IInv, SerialInv, TypeOK
  <1>2. Fails(combo[r], status).pc = "check"
    BY DEF Fails, Combos, IInv, SerialInv, TypeOK
  <1>3. /\ stage[r] = "dispatched" /\ UNCHANGED <<call, stage>>
        /\ queue'["main"] = queue["main"] /\ ~Posts(r)
    BY DEF ComboAborts, Executes, HasNextStep, Posts
  <1> QED BY <1>1, <1>2, <1>3, MainFollowsUnmoved

LEMMA MainStepInPlace ==
    ASSUME IInv, MainInv, NEW r \in Request, StepInPlace(r) PROVE MainInv'
  <1>1. PICK pc \in {"record", "check"} :
           combo' = [combo EXCEPT ![r] = StepEnds(WithNextStep(r), pc)]
    BY DEF StepInPlace
  <1>2. StepEnds(WithNextStep(r), pc).pc = pc
    BY NextStepTyped, StepEndsTyped DEF StepInPlace
  <1>3. /\ stage[r] = "dispatched" /\ UNCHANGED <<call, stage>>
        /\ queue'["main"] = queue["main"] /\ ~Posts(r)
    BY DEF StepInPlace, Executes, HasNextStep, Posts
  <1> QED BY <1>1, <1>2, <1>3, MainFollowsUnmoved

LEMMA MainRecord ==
    ASSUME IInv, MainInv, NEW r \in Request, RecordPostimages(r) PROVE MainInv'
  <1> DEFINE post == [p \in Path |-> IF p \in Manifest(combo[r]) THEN disk[p] ELSE NoText]
             v == [combo[r] EXCEPT !.pc = "steps", !.post = post]
  <1>1. combo' = [combo EXCEPT ![r] = v]
    BY DEF RecordPostimages, IInv, SerialInv, TypeOK
  <1> HIDE DEF post
  <1>2. v.pc = "steps"
    BY DEF Combos, IInv, SerialInv, TypeOK
  <1>3. /\ stage[r] = "dispatched" /\ UNCHANGED <<call, stage>>
        /\ queue'["main"] = queue["main"] /\ ~Posts(r)
    BY DEF RecordPostimages, Executes, Posts
  <1> HIDE DEF v
  <1> QED BY <1>1, <1>2, <1>3, MainFollowsUnmoved

LEMMA MainRollback ==
    ASSUME IInv, MainInv, NEW r \in Request, RollbackCommand(r) PROVE MainInv'
  <1>1. PICK c \in Request :
           combo' = [combo EXCEPT ![r] = [IdleCombo EXCEPT !.pc = "check",
                                            !.pre = combo[c].pre, !.post = combo[c].post]]
    BY DEF RollbackCommand
  <1> DEFINE v == [IdleCombo EXCEPT !.pc = "check", !.pre = combo[c].pre,
                                    !.post = combo[c].post]
  <1>2. v.pc = "check"
    BY DEF IdleCombo
  <1>3. /\ stage[r] = "dispatched" /\ UNCHANGED <<call, stage>>
        /\ queue'["main"] = queue["main"] /\ ~Posts(r)
    BY DEF RollbackCommand, Executes, Posts
  <1> HIDE DEF v
  <1> QED BY <1>1, <1>2, <1>3, MainFollowsUnmoved DEF v

\* A method that returns to the execution queue.
LEMMA MainEnds ==
    ASSUME IInv, MainInv, NEW r \in Request,
           ApplyPatch(r) \/ ComboCompletes(r) \/ Restore(r) \/ Cancel(r)
    PROVE  MainInv'
  <1>1. stage[r] = "dispatched" /\ Returns(r) /\ UNCHANGED call
    BY DEF ApplyPatch, ComboCompletes, Restore, Cancel, Executes
  <1>2. combo \in [Request -> Combos]
    BY DEF IInv, SerialInv, TypeOK
  <1>3. ~Posts(r)
    <2>1. CASE ApplyPatch(r) \/ Cancel(r)
      BY <2>1 DEF ApplyPatch, Cancel, Executes, MainInv, Posts, Waits
    <2>2. CASE ComboCompletes(r) \/ Restore(r)
      BY <2>2 DEF ComboCompletes, Restore, Posts
    <2> QED BY <2>1, <2>2
  <1>4. ASSUME NEW a \in Request, Waits(a)' PROVE Waits(a)
    <2>1. CASE ApplyPatch(r)
      BY <1>4, <2>1 DEF ApplyPatch, Waits
    <2>2. CASE ComboCompletes(r)
      BY <1>2, <1>4, <2>2 DEF ComboCompletes, Waits, Combos
    <2>3. CASE Restore(r)
      BY <1>2, <1>4, <2>3 DEF Restore, Waits, Combos
    <2>4. CASE Cancel(r)
      <3>1. PICK c \in Request :
               UNCHANGED combo \/ combo' = [combo EXCEPT ![c].status = "cancelled"]
        BY <2>4 DEF Cancel
      <3>2. combo'[a].pc = combo[a].pc
        BY <1>2, <3>1 DEF Combos
      <3> QED BY <1>4, <3>2 DEF Waits
    <2> QED BY <2>1, <2>2, <2>3, <2>4
  <1> QED BY <1>1, <1>3, <1>4, MainReturns

\* A combo that begins, or a rollback that has checked its files, may end there.
LEMMA MainMayEnd ==
    ASSUME IInv, MainInv, NEW r \in Request, ComboBegin(r) \/ RollbackCheck(r)
    PROVE  MainInv'
  <1>1. stage[r] = "dispatched" /\ UNCHANGED call /\ combo \in [Request -> Combos]
    BY DEF ComboBegin, RollbackCheck, Executes, IInv, SerialInv, TypeOK
  <1>2. ~Posts(r)
    BY DEF ComboBegin, RollbackCheck, Posts
  <1>3. \E v : /\ combo' = [combo EXCEPT ![r] = v]
               /\ v.pc \notin {"posted", "nested"}
               /\ Returns(r) \/ UNCHANGED <<queue, stage>>
    <2>1. CASE ComboBegin(r)
      <3> DEFINE image == [p \in Path |-> IF p \in MutationPaths(r) THEN disk[p] ELSE NoText]
                 fails == [IdleCombo EXCEPT !.pc = "done", !.status = "failed"]
                 starts == [pc |-> "steps", status |-> "running", step |-> 0,
                            pre |-> image, post |-> image]
      <3>1. \/ combo' = [combo EXCEPT ![r] = fails] /\ Returns(r)
            \/ combo' = [combo EXCEPT ![r] = starts] /\ UNCHANGED <<queue, stage>>
        BY <2>1 DEF ComboBegin
      <3>2. fails.pc = "done" /\ starts.pc = "steps"
        BY DEF IdleCombo
      <3> HIDE DEF fails, starts
      <3> QED BY <3>1, <3>2
    <2>2. CASE RollbackCheck(r)
      <3>1. \E pc \in {"restore", "done"} :
               /\ combo' = [combo EXCEPT ![r] = [combo[r] EXCEPT !.pc = pc]]
               /\ Returns(r) \/ UNCHANGED <<queue, stage>>
        BY <2>2 DEF RollbackCheck
      <3>2. \A pc \in {"restore", "done"} : [combo[r] EXCEPT !.pc = pc].pc = pc
        BY <1>1 DEF Combos
      <3> QED BY <3>1, <3>2
    <2> QED BY <2>1, <2>2
  <1>4. PICK v : /\ combo' = [combo EXCEPT ![r] = v]
                 /\ v.pc \notin {"posted", "nested"}
                 /\ Returns(r) \/ UNCHANGED <<queue, stage>>
    BY <1>3
  <1>5. CASE Returns(r)
    <2>1. \A a \in Request : Waits(a)' => Waits(a)
      BY <1>1, <1>4 DEF Waits
    <2> QED BY <1>1, <1>2, <1>5, <2>1, MainReturns
  <1>6. CASE UNCHANGED <<queue, stage>>
    BY <1>1, <1>2, <1>4, <1>6, MainFollowsUnmoved
  <1> QED BY <1>4, <1>5, <1>6

LEMMA MainStart == Init => MainInv
  <1> SUFFICES ASSUME Init PROVE MainInv
    OBVIOUS
  <1>1. \A r \in Request : combo[r].pc = "idle" /\ stage[r] = "unsent"
    BY DEF Init, IdleCombo
  <1>2. queue["main"] = <<>>
    BY DEF Init, Queue
  <1> QED BY <1>1, <1>2 DEF MainInv, Waits

LEMMA MainKeeps == IInv /\ MainInv /\ [Next]_vars => MainInv'
  <1> SUFFICES ASSUME IInv, MainInv, [Next]_vars PROVE MainInv'
    OBVIOUS
  <1>1. ASSUME NEW r \in Request, Send(r) \/ RunNested(r) \/ NestedWaitEnds(r) PROVE MainInv'
    BY <1>1, MainAsides, MainWaitEnds
  <1>2. ASSUME NEW r \in Request, Run(r) PROVE MainInv'
    BY <1>2, MainAsides, MainDispatch, MainPostStep, MainVerify, MainCallNested,
       MainAborts, MainStepInPlace, MainRecord, MainRollback, MainEnds, MainMayEnd DEF Run
  <1>3. ASSUME NEW p \in Shared, ExternalEdit(p) PROVE MainInv'
    BY <1>3, MainUnmoved DEF ExternalEdit
  <1>4. CASE UNCHANGED vars
    BY <1>4, MainUnmoved DEF vars
  <1> QED BY <1>1, <1>2, <1>3, <1>4 DEF Next

\* What the execution queue waits for is the block that the main queue runs:
\* the method of the request, and the step of a combo unless an approved combo
\* posted it.
WaitsAreServed ==
    \A r \in Request :
        /\ stage[r] = "dispatched" /\ Home(r) = "main" => IsRunning("main", "method", r)
        /\ combo[r].pc = "posted" /\ ~call[r].approved => IsRunning("main", "step", r)

\* No wait without a timeout is for a block behind other blocks, so the queues
\* never stop each other but in the one way of NobodyIsAnsweredAgain.
THEOREM QueuesServeEachOther == Spec => []WaitsAreServed
  <1>1. ASSUME IInv, MainInv, NEW r \in Request, stage[r] = "dispatched", Home(r) = "main"
        PROVE  IsRunning("main", "method", r)
    <2>1. queue["main"] = MainBlocks(r)
      BY <1>1 DEF MainInv
    <2>2. \/ queue["main"] = <<BlockOf("method", r)>>
          \/ queue["main"] = <<BlockOf("method", r), BlockOf("step", r)>>
      BY <1>1, <2>1 DEF MainBlocks
    <2>3. BlockOf("method", r) \in Block /\ BlockOf("step", r) \in Block
      BY DEF BlockOf, Block
    <2> QED BY <2>2, <2>3, TwoBlocks DEF IsRunning
  <1>2. ASSUME IInv, MainInv, NEW r \in Request, combo[r].pc = "posted", ~call[r].approved
        PROVE  IsRunning("main", "step", r)
    <2>1. stage[r] = "dispatched" /\ call[r].method = "combo"
      BY <1>2, WaitsAreDispatched DEF Waits
    <2>2. Home(r) # "main" /\ Posts(r)
      BY <1>2, <2>1 DEF Home, Posts
    <2>3. queue["main"] = <<BlockOf("step", r)>>
      BY <1>2, <2>1, <2>2 DEF MainInv, MainBlocks
    <2> QED BY <2>3 DEF IsRunning
  <1>3. IInv /\ MainInv => WaitsAreServed
    BY <1>1, <1>2 DEF WaitsAreServed
  <1> QED BY <1>3, IInvHolds, MainStart, MainKeeps, PTL DEF Spec

\* After an approved combo has posted a step, nothing is answered again: the
\* step waits behind the method that waits for it.
NobodyIsAnsweredAgain ==
    [][\A r \in Request : call[r].approved /\ combo[r].pc = "posted" =>
         /\ call'[r].approved /\ combo'[r].pc = "posted"
         /\ \A a \in Request : stage'[a] = "answered" => stage[a] = "answered"]_vars

\* Of all that the queues can do, only a Send and an edit from outside are
\* left (waitUntilDone of the step, dispatch_sync of approval.resolve).
LEMMA OnlySendsAreLeft ==
    ASSUME IInv, MainInv, NEW r \in Request, call[r].approved, combo[r].pc = "posted",
           NEW a \in Request, Run(a) \/ RunNested(a) \/ NestedWaitEnds(a)
    PROVE  FALSE
  <1>1. stage[r] = "dispatched" /\ call[r].method = "combo"
    BY WaitsAreDispatched DEF Waits
  <1>2. Head(queue["exec"]) = BlockOf("request", r)
    BY <1>1 DEF IInv, SerialInv, Turn, OnTurn, IsRunning
  <1>3. Head(queue["main"]) = BlockOf("method", r)
    <2>1. Home(r) = "main" /\ Posts(r)
      BY DEF Home, Posts
    <2>2. queue["main"] = <<BlockOf("method", r), BlockOf("step", r)>>
      BY <1>1, <2>1 DEF MainInv, MainBlocks
    <2> QED BY <2>2
  <1>4. ~IsRunning("exec", "nested", a) /\ ~IsRunning("main", "step", a)
    BY <1>2, <1>3 DEF IsRunning, BlockOf
  <1>5. IsRunning("exec", "request", a) => a = r
    BY <1>2 DEF IsRunning, BlockOf
  <1>6. \A m : Executes(a, m) => a = r /\ m = "combo"
    BY <1>1, OneAtATime DEF Executes, IInv, SerialInv, OnTurn
  <1>7. ~RunNested(a) /\ ~CallNested(a)
    BY <1>4 DEF RunNested, CallNested
  <1>8. ~NestedWaitEnds(a)
    <2> SUFFICES ASSUME NestedWaitEnds(a) PROVE FALSE
      OBVIOUS
    <2>1. combo[a].pc = "nested" /\ stage[a] = "dispatched"
      BY WaitsAreDispatched DEF NestedWaitEnds, Waits
    <2>2. a = r
      BY <1>1, <2>1, OneAtATime DEF IInv, SerialInv, OnTurn
    <2> QED BY <2>1, <2>2
  <1>9. ~Refuse(a) /\ ~Dispatch(a) /\ ~Answer(a)
    <2>1. Refuse(a) \/ Dispatch(a) \/ Answer(a) =>
            IsRunning("exec", "request", a) /\ stage[a] \in {"queued", "executed"}
      BY DEF Refuse, Dispatch, Answer
    <2> QED BY <1>1, <1>5, <2>1
  <1>10. ~ApplyPatch(a) /\ ~Cancel(a) /\ ~RollbackCommand(a)
    <2>1. ApplyPatch(a) => Executes(a, "patch")
      BY DEF ApplyPatch
    <2>2. Cancel(a) => Executes(a, "cancel")
      BY DEF Cancel
    <2>3. RollbackCommand(a) => Executes(a, "rollback")
      BY DEF RollbackCommand
    <2> QED BY <1>6, <2>1, <2>2, <2>3
  <1>11. ~ComboBegin(a) /\ ~ComboAborts(a) /\ ~ComboCompletes(a) /\ ~StepInPlace(a)
    BY <1>6 DEF ComboBegin, ComboAborts, ComboCompletes, StepInPlace, HasNextStep
  <1>12. ~VerifyFromMain(a) /\ ~PostStep(a) /\ ~RecordPostimages(a)
         /\ ~RollbackCheck(a) /\ ~Restore(a)
    BY <1>6 DEF VerifyFromMain, PostStep, RecordPostimages, RollbackCheck, Restore,
                HasNextStep
  <1> QED BY <1>7, <1>8, <1>9, <1>10, <1>11, <1>12 DEF Run

THEOREM ApprovedStepsStopTheQueues == Spec => NobodyIsAnsweredAgain
  <1>1. ASSUME IInv, MainInv, [Next]_vars, NEW r \in Request,
               call[r].approved, combo[r].pc = "posted"
        PROVE  /\ call'[r].approved /\ combo'[r].pc = "posted"
               /\ \A a \in Request : stage'[a] = "answered" => stage[a] = "answered"
    <2>1. ASSUME NEW b \in Request, Send(b)
          PROVE  /\ call'[r].approved /\ combo'[r].pc = "posted"
                 /\ \A a \in Request : stage'[a] = "answered" => stage[a] = "answered"
      BY <1>1, <2>1 DEF Send, IInv, SerialInv, TypeOK
    <2>2. CASE UNCHANGED <<call, combo, stage>>
      BY <1>1, <2>2
    <2>3. \A b \in Request : ~(Run(b) \/ RunNested(b) \/ NestedWaitEnds(b))
      BY <1>1, OnlySendsAreLeft
    <2> QED BY <1>1, <2>1, <2>2, <2>3 DEF Next, ExternalEdit, vars
  <1>2. IInv /\ MainInv /\ [Next]_vars =>
          [\A r \in Request : call[r].approved /\ combo[r].pc = "posted" =>
             /\ call'[r].approved /\ combo'[r].pc = "posted"
             /\ \A a \in Request : stage'[a] = "answered" => stage[a] = "answered"]_vars
    BY <1>1
  <1> QED BY <1>2, IInvHolds, MainStart, MainKeeps, PTL DEF Spec, NobodyIsAnsweredAgain

-----------------------------------------------------------------------------
(* What is left to do for a request.                                        *)

\* A bound on the steps until a combo, or a rollback, returns; a step of its
\* plan takes four at most.
ComboLeft(pc, step, n) ==
    CASE pc = "idle" -> 6 + 4 * n
      [] pc = "steps" -> 5 + 4 * (n - step)
      [] pc = "posted" -> 8 + 4 * (n - step)
      [] pc = "nested" -> 7 + 4 * (n - step)
      [] pc = "record" -> 6 + 4 * (n - step)
      [] pc = "check" -> 4
      [] pc = "restore" -> 3
      [] pc = "done" -> 2

LeftOf(s, pc, step, n) ==
    CASE s = "unsent" -> 8 + 4 * n
      [] s = "queued" -> 7 + 4 * n
      [] s = "dispatched" -> ComboLeft(pc, step, n)
      [] s = "executed" -> 1
      [] s = "answered" -> 0

StepsLeft(r) == LeftOf(stage[r], combo[r].pc, combo[r].step, Len(Plan(r)))

\* Request r moves on, and no other request is set back by it.
Nearer(r) ==
    /\ StepsLeft(r)' < StepsLeft(r)
    /\ \A a \in Request \ {r} : StepsLeft(a)' = StepsLeft(a)

Pcs == {"idle", "steps", "posted", "nested", "record", "check", "restore", "done"}

LEMMA ComboLeftBounds ==
    ASSUME NEW n \in Nat, NEW step \in Nat, step <= n, NEW pc \in Pcs
    PROVE  /\ ComboLeft(pc, step, n) \in Nat
           /\ ComboLeft(pc, step, n) >= 2
           /\ pc \notin {"posted", "nested"} => ComboLeft(pc, step, n) <= 6 + 4 * n
  BY DEF ComboLeft, Pcs

LEMMA LeftTyped ==
    ASSUME IInv, NEW r \in Request
    PROVE  /\ StepsLeft(r) \in Nat
           /\ stage[r] = "dispatched" =>
                /\ StepsLeft(r) = ComboLeft(combo[r].pc, combo[r].step, Len(Plan(r)))
                /\ StepsLeft(r) >= 2
           /\ Len(Plan(r)) \in Nat
           /\ combo[r].step \in Nat /\ combo[r].step <= Len(Plan(r)) /\ combo[r].pc \in Pcs
  <1> DEFINE n == Len(Plan(r))
             step == combo[r].step
             pc == combo[r].pc
  <1>1. n \in Nat /\ step \in Nat /\ step <= n /\ pc \in Pcs
    BY PlanTyped DEF IInv, SerialInv, TypeOK, Combos, Pcs
  <1>2. StepsLeft(r) = LeftOf(stage[r], pc, step, n)
    BY DEF StepsLeft
  <1>3. stage[r] \in Stages
    BY DEF IInv, SerialInv, TypeOK
  <1> HIDE DEF n, step, pc
  <1>4. ComboLeft(pc, step, n) \in Nat /\ ComboLeft(pc, step, n) >= 2
    BY <1>1, ComboLeftBounds
  <1>5. StepsLeft(r) \in Nat
    BY <1>1, <1>2, <1>3, <1>4 DEF LeftOf, Stages
  <1>6. stage[r] = "dispatched" => StepsLeft(r) = ComboLeft(pc, step, n)
    BY <1>2 DEF LeftOf
  <1> QED BY <1>1, <1>4, <1>5, <1>6 DEF n, step, pc

LEMMA LeftNat == IInv => \A r \in Request : StepsLeft(r) \in Nat
  BY LeftTyped

LEMMA LeftStays ==
    ASSUME UNCHANGED call, NEW a \in Request, stage'[a] = stage[a],
           combo'[a].pc = combo[a].pc, combo'[a].step = combo[a].step
    PROVE  StepsLeft(a)' = StepsLeft(a)
  BY SameCalls DEF StepsLeft

LEMMA LeftMoves ==
    ASSUME IInv, UNCHANGED call, NEW r \in Request, NEW s, NEW v,
           stage' = [stage EXCEPT ![r] = s], combo' = [combo EXCEPT ![r] = v]
    PROVE  /\ StepsLeft(r)' = LeftOf(s, v.pc, v.step, Len(Plan(r)))
           /\ \A a \in Request \ {r} : StepsLeft(a)' = StepsLeft(a)
  <1>1. stage'[r] = s /\ combo'[r] = v
    BY DEF IInv, SerialInv, TypeOK
  <1>2. Plan(r)' = Plan(r)
    BY SameCalls
  <1>3. StepsLeft(r)' = LeftOf(s, v.pc, v.step, Len(Plan(r)))
    BY <1>1, <1>2 DEF StepsLeft
  <1>4. ASSUME NEW a \in Request \ {r} PROVE StepsLeft(a)' = StepsLeft(a)
    <2>1. stage'[a] = stage[a] /\ combo'[a] = combo[a]
      BY DEF IInv, SerialInv, TypeOK
    <2> QED BY <2>1, LeftStays
  <1> QED BY <1>3, <1>4

\* A method returns.
LEMMA LeftReturns ==
    ASSUME IInv, NEW r \in Request, stage[r] = "dispatched", Returns(r),
           UNCHANGED call, NEW v, combo' = [combo EXCEPT ![r] = v]
    PROVE  Nearer(r)
  <1>1. stage' = [stage EXCEPT ![r] = "executed"]
    BY DEF Returns
  <1>2. /\ StepsLeft(r)' = LeftOf("executed", v.pc, v.step, Len(Plan(r)))
        /\ \A a \in Request \ {r} : StepsLeft(a)' = StepsLeft(a)
    BY <1>1, LeftMoves
  <1>3. StepsLeft(r)' = 1
    BY <1>2 DEF LeftOf
  <1>4. StepsLeft(r) >= 2 /\ StepsLeft(r) \in Nat
    BY LeftTyped
  <1>5. StepsLeft(r)' < StepsLeft(r)
    BY <1>3, <1>4
  <1> QED BY <1>2, <1>5 DEF Nearer

\* A combo goes on.
LEMMA LeftFollows ==
    ASSUME IInv, NEW r \in Request, stage[r] = "dispatched",
           UNCHANGED <<call, stage>>, NEW v, combo' = [combo EXCEPT ![r] = v],
           ComboLeft(v.pc, v.step, Len(Plan(r)))
             < ComboLeft(combo[r].pc, combo[r].step, Len(Plan(r)))
    PROVE  Nearer(r)
  <1>1. stage' = [stage EXCEPT ![r] = "dispatched"]
    BY DEF IInv, SerialInv, TypeOK
  <1>2. /\ StepsLeft(r)' = LeftOf("dispatched", v.pc, v.step, Len(Plan(r)))
        /\ \A a \in Request \ {r} : StepsLeft(a)' = StepsLeft(a)
    BY <1>1, LeftMoves
  <1>3. StepsLeft(r)' = ComboLeft(v.pc, v.step, Len(Plan(r)))
    BY <1>2 DEF LeftOf
  <1>4. StepsLeft(r) = ComboLeft(combo[r].pc, combo[r].step, Len(Plan(r)))
    BY LeftTyped
  <1> QED BY <1>2, <1>3, <1>4 DEF Nearer

\* The next step of a plan, and the end of one.
LEMMA ComboLeftFalls ==
    ASSUME NEW n \in Nat, NEW step \in Nat, step < n
    PROVE  /\ ComboLeft("posted", step + 1, n) < ComboLeft("steps", step, n)
           /\ ComboLeft("nested", step + 1, n) < ComboLeft("steps", step, n)
           /\ ComboLeft("record", step + 1, n) < ComboLeft("steps", step, n)
           /\ ComboLeft("check", step + 1, n) < ComboLeft("steps", step, n)
  BY DEF ComboLeft

LEMMA ComboLeftFallsAt ==
    ASSUME NEW n \in Nat, NEW step \in Nat, step <= n
    PROVE  /\ ComboLeft("steps", 0, n) < ComboLeft("idle", step, n)
           /\ ComboLeft("check", 0, n) < ComboLeft("idle", step, n)
           /\ ComboLeft("check", step, n) < ComboLeft("steps", step, n)
           /\ ComboLeft("nested", step, n) < ComboLeft("posted", step, n)
           /\ ComboLeft("record", step, n) < ComboLeft("nested", step, n)
           /\ ComboLeft("check", step, n) < ComboLeft("nested", step, n)
           /\ ComboLeft("steps", step, n) < ComboLeft("record", step, n)
           /\ ComboLeft("restore", step, n) < ComboLeft("check", step, n)
  BY DEF ComboLeft

\* The request before its method is called, and after it has returned.
LEMMA LeftOfRequest ==
    ASSUME IInv, MainInv, NEW r \in Request,
           Send(r) \/ Refuse(r) \/ Dispatch(r) \/ Answer(r)
    PROVE  Nearer(r)
  <1> DEFINE n == Len(Plan(r))
             step == combo[r].step
             pc == combo[r].pc
  <1>1. combo' = [combo EXCEPT ![r] = combo[r]] /\ UNCHANGED call
    BY DEF Send, Refuse, Dispatch, Answer, IInv, SerialInv, TypeOK
  <1>2. n \in Nat /\ step \in Nat /\ step <= n /\ pc \in Pcs
    BY LeftTyped
  <1>3. StepsLeft(r) = LeftOf(stage[r], pc, step, n)
    BY DEF StepsLeft
  <1>4. \A s : stage' = [stage EXCEPT ![r] = s] =>
          /\ StepsLeft(r)' = LeftOf(s, pc, step, n)
          /\ \A a \in Request \ {r} : StepsLeft(a)' = StepsLeft(a)
    BY <1>1, LeftMoves
  <1>5. stage[r] # "dispatched" => pc \notin {"posted", "nested"}
    BY WaitsAreDispatched DEF Waits
  <1> HIDE DEF n, step, pc
  <1>6. CASE Send(r)
    <2>1. stage[r] = "unsent" /\ stage' = [stage EXCEPT ![r] = "queued"]
      BY <1>6 DEF Send
    <2>2. LeftOf("queued", pc, step, n) < LeftOf("unsent", pc, step, n)
      BY <1>2 DEF LeftOf
    <2> QED BY <1>3, <1>4, <2>1, <2>2 DEF Nearer
  <1>7. CASE Refuse(r)
    <2>1. stage[r] = "queued" /\ stage' = [stage EXCEPT ![r] = "answered"]
      BY <1>7 DEF Refuse
    <2>2. LeftOf("answered", pc, step, n) < LeftOf("queued", pc, step, n)
      BY <1>2 DEF LeftOf
    <2> QED BY <1>3, <1>4, <2>1, <2>2 DEF Nearer
  <1>8. CASE Dispatch(r)
    <2>1. stage[r] = "queued" /\ stage' = [stage EXCEPT ![r] = "dispatched"]
      BY <1>8 DEF Dispatch
    <2>2. ComboLeft(pc, step, n) \in Nat /\ ComboLeft(pc, step, n) <= 6 + 4 * n
      BY <1>2, <1>5, <2>1, ComboLeftBounds
    <2>3. LeftOf("dispatched", pc, step, n) < LeftOf("queued", pc, step, n)
      BY <1>2, <2>2 DEF LeftOf
    <2> QED BY <1>3, <1>4, <2>1, <2>3 DEF Nearer
  <1>9. CASE Answer(r)
    <2>1. stage[r] = "executed" /\ stage' = [stage EXCEPT ![r] = "answered"]
      BY <1>9 DEF Answer
    <2>2. LeftOf("answered", pc, step, n) < LeftOf("executed", pc, step, n)
      BY DEF LeftOf
    <2> QED BY <1>3, <1>4, <2>1, <2>2 DEF Nearer
  <1> QED BY <1>6, <1>7, <1>8, <1>9

\* The steps of a plan.
LEMMA LeftOfStep ==
    ASSUME IInv, NEW r \in Request, HasNextStep(r), stage[r] = "dispatched",
           UNCHANGED <<call, stage>>,
           NEW pc \in {"posted", "nested", "record", "check"}, NEW v,
           v.pc = pc, v.step = WithNextStep(r).step,
           combo' = [combo EXCEPT ![r] = v]
    PROVE  Nearer(r)
  <1> DEFINE n == Len(Plan(r))
             step == combo[r].step
  <1>1. n \in Nat /\ step \in Nat
    BY LeftTyped
  <1>2. combo[r].pc = "steps" /\ step < n
    BY DEF HasNextStep
  <1>3. v.step = step + 1
    BY DEF WithNextStep, IInv, SerialInv, TypeOK, Combos
  <1> HIDE DEF n, step
  <1>4. ComboLeft(pc, step + 1, n) < ComboLeft("steps", step, n)
    BY <1>1, <1>2, ComboLeftFalls
  <1>5. ComboLeft(v.pc, v.step, Len(Plan(r)))
          < ComboLeft(combo[r].pc, combo[r].step, Len(Plan(r)))
    BY <1>2, <1>3, <1>4 DEF n, step
  <1> QED BY <1>5, LeftFollows

\* Any other move of a combo that has begun, without a new step.
LEMMA LeftOfMove ==
    ASSUME IInv, NEW r \in Request, stage[r] = "dispatched", UNCHANGED <<call, stage>>,
           NEW v, v.step = combo[r].step, combo' = [combo EXCEPT ![r] = v],
           <<combo[r].pc, v.pc>> \in
             {<<"steps", "check">>, <<"posted", "nested">>, <<"nested", "record">>,
              <<"nested", "check">>, <<"record", "steps">>, <<"check", "restore">>}
    PROVE  Nearer(r)
  <1> DEFINE n == Len(Plan(r))
             step == combo[r].step
             old == combo[r].pc
             new == v.pc
  <1>1. n \in Nat /\ step \in Nat /\ step <= n
    BY LeftTyped
  <1>2. <<old, new>> \in
             {<<"steps", "check">>, <<"posted", "nested">>, <<"nested", "record">>,
              <<"nested", "check">>, <<"record", "steps">>, <<"check", "restore">>}
    OBVIOUS
  <1> HIDE DEF n, step, old, new
  <1>3. \/ old = "steps" /\ new = "check"
        \/ old = "posted" /\ new = "nested"
        \/ old = "nested" /\ new = "record"
        \/ old = "nested" /\ new = "check"
        \/ old = "record" /\ new = "steps"
        \/ old = "check" /\ new = "restore"
    BY <1>2
  <1>4. ComboLeft(new, step, n) < ComboLeft(old, step, n)
    BY <1>1, <1>3, ComboLeftFallsAt
  <1> QED BY <1>4, LeftFollows DEF n, step, old, new

LEMMA LeftOfPlan ==
    ASSUME IInv, NEW r \in Request,
           StepInPlace(r) \/ VerifyFromMain(r) \/ PostStep(r)
    PROVE  Nearer(r)
  <1>1. CASE StepInPlace(r)
    <2>1. PICK pc \in {"record", "check"} :
             combo' = [combo EXCEPT ![r] = StepEnds(WithNextStep(r), pc)]
      BY <1>1 DEF StepInPlace
    <2>2. HasNextStep(r) /\ stage[r] = "dispatched" /\ UNCHANGED <<call, stage>>
      BY <1>1 DEF StepInPlace, Executes
    <2> DEFINE v == StepEnds(WithNextStep(r), pc)
    <2>3. v.pc = pc /\ v.step = WithNextStep(r).step
      BY <2>2, NextStepTyped, StepEndsTyped
    <2> HIDE DEF v
    <2> QED BY <2>1, <2>2, <2>3, LeftOfStep DEF v
  <1>2. CASE VerifyFromMain(r)
    <2> DEFINE v == [WithNextStep(r) EXCEPT !.pc = "nested"]
    <2>1. /\ HasNextStep(r) /\ stage[r] = "dispatched" /\ UNCHANGED <<call, stage>>
          /\ combo' = [combo EXCEPT ![r] = v]
      BY <1>2 DEF VerifyFromMain, Executes
    <2>2. v.pc = "nested" /\ v.step = WithNextStep(r).step
      BY <2>1, NextStepTyped DEF Combos
    <2> HIDE DEF v
    <2> QED BY <2>1, <2>2, LeftOfStep
  <1>3. CASE PostStep(r)
    <2> DEFINE v == [WithNextStep(r) EXCEPT !.pc = "posted"]
    <2>1. /\ HasNextStep(r) /\ stage[r] = "dispatched" /\ UNCHANGED <<call, stage>>
          /\ combo' = [combo EXCEPT ![r] = v]
      BY <1>3 DEF PostStep, Executes
    <2>2. v.pc = "posted" /\ v.step = WithNextStep(r).step
      BY <2>1, NextStepTyped DEF Combos
    <2> HIDE DEF v
    <2> QED BY <2>1, <2>2, LeftOfStep
  <1> QED BY <1>1, <1>2, <1>3

LEMMA LeftOfAbort ==
    ASSUME IInv, NEW r \in Request, ComboAborts(r) PROVE Nearer(r)
  <1>1. PICK status \in {"failed", "expired"} :
           combo' = [combo EXCEPT ![r] = Fails(combo[r], status)]
    BY DEF ComboAborts, IInv, SerialInv, TypeOK
  <1>2. /\ combo[r].pc = "steps" /\ stage[r] = "dispatched" /\ UNCHANGED <<call, stage>>
    BY DEF ComboAborts, HasNextStep, Executes
  <1> DEFINE v == Fails(combo[r], status)
  <1>3. v.pc = "check" /\ v.step = combo[r].step
    BY DEF Fails, IInv, SerialInv, TypeOK, Combos
  <1> HIDE DEF v
  <1> QED BY <1>1, <1>2, <1>3, LeftOfMove DEF v

LEMMA LeftOfNested ==
    ASSUME IInv, MainInv, NEW r \in Request, CallNested(r) \/ NestedWaitEnds(r)
    PROVE  Nearer(r)
  <1>1. UNCHANGED <<call, stage>> /\ Waits(r) /\ combo[r] \in Combos
    BY DEF CallNested, NestedWaitEnds, Waits, IInv, SerialInv, TypeOK
  <1>2. stage[r] = "dispatched"
    BY <1>1, WaitsAreDispatched
  <1>3. CASE CallNested(r)
    <2> DEFINE v == [combo[r] EXCEPT !.pc = "nested"]
    <2>1. combo' = [combo EXCEPT ![r] = v] /\ combo[r].pc = "posted"
      BY <1>3 DEF CallNested
    <2>2. v.pc = "nested" /\ v.step = combo[r].step
      BY <1>1 DEF Combos
    <2> HIDE DEF v
    <2> QED BY <1>1, <1>2, <2>1, <2>2, LeftOfMove
  <1>4. CASE NestedWaitEnds(r)
    <2>1. PICK pc \in {"record", "check"} :
             combo' = [combo EXCEPT ![r] = StepEnds(combo[r], pc)]
      BY <1>4 DEF NestedWaitEnds, IInv, SerialInv, TypeOK
    <2>2. combo[r].pc = "nested"
      BY <1>4 DEF NestedWaitEnds
    <2> DEFINE v == StepEnds(combo[r], pc)
    <2>3. v.pc = pc /\ v.step = combo[r].step
      BY <1>1, StepEndsTyped
    <2> HIDE DEF v
    <2> QED BY <1>1, <1>2, <2>1, <2>2, <2>3, LeftOfMove DEF v
  <1> QED BY <1>3, <1>4

LEMMA LeftOfRecord ==
    ASSUME IInv, NEW r \in Request, RecordPostimages(r) PROVE Nearer(r)
  <1> DEFINE post == [p \in Path |-> IF p \in Manifest(combo[r]) THEN disk[p] ELSE NoText]
             v == [combo[r] EXCEPT !.pc = "steps", !.post = post]
  <1>1. combo' = [combo EXCEPT ![r] = v]
    BY DEF RecordPostimages, IInv, SerialInv, TypeOK
  <1> HIDE DEF post
  <1>2. v.pc = "steps" /\ v.step = combo[r].step
    BY DEF Combos, IInv, SerialInv, TypeOK
  <1>3. stage[r] = "dispatched" /\ combo[r].pc = "record" /\ UNCHANGED <<call, stage>>
    BY DEF RecordPostimages, Executes
  <1> HIDE DEF v
  <1> QED BY <1>1, <1>2, <1>3, LeftOfMove

\* A combo that begins.
LEMMA LeftOfBegin ==
    ASSUME IInv, NEW r \in Request, stage[r] = "dispatched", combo[r].pc = "idle",
           UNCHANGED <<call, stage>>, NEW v, v.pc = "steps", v.step = 0,
           combo' = [combo EXCEPT ![r] = v]
    PROVE  Nearer(r)
  <1> DEFINE n == Len(Plan(r))
             step == combo[r].step
  <1>1. n \in Nat /\ step \in Nat /\ step <= n
    BY LeftTyped
  <1> HIDE DEF n, step
  <1>2. ComboLeft(v.pc, v.step, n) < ComboLeft("idle", step, n)
    BY <1>1, ComboLeftFallsAt
  <1> QED BY <1>2, LeftFollows DEF n, step

LEMMA LeftOfComboBegin ==
    ASSUME IInv, NEW r \in Request, ComboBegin(r) PROVE Nearer(r)
  <1> DEFINE image == [p \in Path |-> IF p \in MutationPaths(r) THEN disk[p] ELSE NoText]
             fails == [IdleCombo EXCEPT !.pc = "done", !.status = "failed"]
             starts == [pc |-> "steps", status |-> "running", step |-> 0,
                        pre |-> image, post |-> image]
  <1>1. \/ combo' = [combo EXCEPT ![r] = fails] /\ Returns(r)
        \/ combo' = [combo EXCEPT ![r] = starts] /\ UNCHANGED stage
    BY DEF ComboBegin
  <1>2. stage[r] = "dispatched" /\ combo[r].pc = "idle" /\ UNCHANGED call
    BY DEF ComboBegin, Executes
  <1>3. starts.pc = "steps" /\ starts.step = 0
    OBVIOUS
  <1> HIDE DEF fails, starts
  <1> QED BY <1>1, <1>2, <1>3, LeftReturns, LeftOfBegin

LEMMA LeftOfRollback ==
    ASSUME IInv, NEW r \in Request, RollbackCommand(r) PROVE Nearer(r)
  <1>1. PICK c \in Request :
           combo' = [combo EXCEPT ![r] = [IdleCombo EXCEPT !.pc = "check",
                                            !.pre = combo[c].pre, !.post = combo[c].post]]
    BY DEF RollbackCommand
  <1> DEFINE v == [IdleCombo EXCEPT !.pc = "check", !.pre = combo[c].pre,
                                    !.post = combo[c].post]
             step == combo[r].step
             n == Len(Plan(r))
  <1>2. v.pc = "check" /\ v.step = 0 /\ combo' = [combo EXCEPT ![r] = v]
    BY <1>1 DEF IdleCombo
  <1>3. stage[r] = "dispatched" /\ combo[r].pc = "idle" /\ UNCHANGED <<call, stage>>
    BY DEF RollbackCommand, Executes
  <1>4. n \in Nat /\ step \in Nat /\ step <= n
    BY LeftTyped
  <1> HIDE DEF v, step, n
  <1>5. ComboLeft("check", 0, n) < ComboLeft("idle", step, n)
    BY <1>4, ComboLeftFallsAt
  <1>6. ComboLeft(v.pc, v.step, Len(Plan(r)))
          < ComboLeft(combo[r].pc, combo[r].step, Len(Plan(r)))
    BY <1>2, <1>3, <1>5 DEF step, n
  <1> QED BY <1>2, <1>3, <1>6, LeftFollows

LEMMA LeftOfCheck ==
    ASSUME IInv, NEW r \in Request, RollbackCheck(r) PROVE Nearer(r)
  <1>1. \/ combo' = [combo EXCEPT ![r].pc = "restore"] /\ UNCHANGED stage
        \/ combo' = [combo EXCEPT ![r].pc = "done"] /\ Returns(r)
    BY DEF RollbackCheck
  <1>2. stage[r] = "dispatched" /\ combo[r].pc = "check" /\ UNCHANGED call
    BY DEF RollbackCheck, Executes
  <1> DEFINE v == [combo[r] EXCEPT !.pc = "restore"]
  <1>3. v.pc = "restore" /\ v.step = combo[r].step
    BY DEF IInv, SerialInv, TypeOK, Combos
  <1>4. CASE combo' = [combo EXCEPT ![r] = v] /\ UNCHANGED stage
    <2> HIDE DEF v
    <2> QED BY <1>2, <1>3, <1>4, LeftOfMove
  <1>5. CASE combo' = [combo EXCEPT ![r].pc = "done"] /\ Returns(r)
    BY <1>2, <1>5, LeftReturns
  <1> QED BY <1>1, <1>4, <1>5

\* A method that returns, with or without a combo.
LEMMA LeftOfEnd ==
    ASSUME IInv, NEW r \in Request, ApplyPatch(r) \/ ComboCompletes(r) \/ Restore(r)
    PROVE  Nearer(r)
  <1>1. stage[r] = "dispatched" /\ Returns(r) /\ UNCHANGED call
    BY DEF ApplyPatch, ComboCompletes, Restore, Executes
  <1>2. CASE ApplyPatch(r)
    <2>1. combo' = [combo EXCEPT ![r] = combo[r]]
      BY <1>2 DEF ApplyPatch, IInv, SerialInv, TypeOK
    <2> QED BY <1>1, <2>1, LeftReturns
  <1>3. CASE ComboCompletes(r)
    BY <1>1, <1>3, LeftReturns DEF ComboCompletes
  <1>4. CASE Restore(r)
    BY <1>1, <1>4, LeftReturns DEF Restore
  <1> QED BY <1>2, <1>3, <1>4

LEMMA LeftOfCancel ==
    ASSUME IInv, NEW r \in Request, Cancel(r) PROVE Nearer(r)
  <1>1. stage[r] = "dispatched" /\ UNCHANGED call
        /\ stage' = [stage EXCEPT ![r] = "executed"]
    BY DEF Cancel, Returns, Executes
  <1>2. PICK c \in Request :
           UNCHANGED combo \/ combo' = [combo EXCEPT ![c].status = "cancelled"]
    BY DEF Cancel
  <1>3. \A a \in Request : combo'[a].pc = combo[a].pc /\ combo'[a].step = combo[a].step
    <2>1. combo \in [Request -> Combos]
      BY DEF IInv, SerialInv, TypeOK
    <2>2. CASE UNCHANGED combo
      BY <2>2
    <2>3. CASE combo' = [combo EXCEPT ![c].status = "cancelled"]
      <3> TAKE a \in Request
      <3>1. combo'[a] = combo[a] \/ combo'[a] = [combo[a] EXCEPT !.status = "cancelled"]
        BY <2>1, <2>3
      <3>2. combo[a] \in Combos
        BY <2>1
      <3> QED BY <3>1, <3>2 DEF Combos
    <2> QED BY <1>2, <2>2, <2>3
  <1>4. \A a \in Request \ {r} : StepsLeft(a)' = StepsLeft(a)
    <2> TAKE a \in Request \ {r}
    <2>1. stage'[a] = stage[a]
      BY <1>1 DEF IInv, SerialInv, TypeOK
    <2> QED BY <1>1, <1>3, <2>1, LeftStays
  <1>5. stage'[r] = "executed"
    BY <1>1 DEF IInv, SerialInv, TypeOK
  <1>6. StepsLeft(r)' = 1
    BY <1>5 DEF StepsLeft, LeftOf
  <1>7. StepsLeft(r) >= 2 /\ StepsLeft(r) \in Nat
    BY <1>1, LeftTyped
  <1>8. StepsLeft(r)' < StepsLeft(r)
    BY <1>6, <1>7
  <1> QED BY <1>4, <1>8 DEF Nearer

LEMMA RunsDrawNearer ==
    ASSUME IInv, MainInv, NEW r \in Request, Send(r) \/ Run(r) \/ NestedWaitEnds(r)
    PROVE  Nearer(r)
  BY LeftOfRequest, LeftOfEnd, LeftOfComboBegin, LeftOfAbort, LeftOfPlan, LeftOfNested,
     LeftOfRecord, LeftOfCheck, LeftOfCancel, LeftOfRollback DEF Run

LEMMA OthersLeave ==
    ASSUME IInv, NEW r \in Request, UNCHANGED <<call, stage, combo>>
    PROVE  StepsLeft(r)' = StepsLeft(r)
  BY LeftStays

\* No step sets a request back, and each that the queues take for it brings it
\* nearer to its answer, whatever is cancelled, timed out or edited: with
\* QueuesServeEachOther this is why every request is answered while no approved
\* combo has posted a step.
RequestsDrawNearer ==
    [][\A r \in Request :
         /\ StepsLeft(r)' <= StepsLeft(r)
         /\ (Send(r) \/ Run(r) \/ NestedWaitEnds(r)) => StepsLeft(r)' < StepsLeft(r)]_vars

\* A request takes 8 + 4 * Len(Plan(r)) steps of the queues at most.
THEOREM RequestsTakeFewSteps == Spec => RequestsDrawNearer
  <1>0. (IInv => \A r \in Request : StepsLeft(r) \in Nat)'
    BY LeftNat, PTL
  <1>1. ASSUME IInv, MainInv, [Next]_vars, NEW r \in Request
        PROVE  /\ StepsLeft(r)' <= StepsLeft(r)
               /\ (Send(r) \/ Run(r) \/ NestedWaitEnds(r)) => StepsLeft(r)' < StepsLeft(r)
    <2>1. StepsLeft(r) \in Nat
      BY <1>1, LeftTyped
    <2>2. (Send(r) \/ Run(r) \/ NestedWaitEnds(r)) => StepsLeft(r)' < StepsLeft(r)
      BY <1>1, RunsDrawNearer DEF Nearer
    <2>3. StepsLeft(r)' \in Nat
      <3>1. IInv'
        BY <1>1, NextKeeps
      <3> QED BY <1>0, <3>1
    <2>4. ASSUME NEW b \in Request, Send(b) \/ Run(b) \/ NestedWaitEnds(b), b # r
          PROVE  StepsLeft(r)' = StepsLeft(r)
      BY <1>1, <2>4, RunsDrawNearer DEF Nearer
    <2>5. ASSUME NEW b \in Request, RunNested(b) PROVE StepsLeft(r)' = StepsLeft(r)
      BY <1>1, <2>5, OthersLeave DEF RunNested
    <2>6. ASSUME NEW p \in Shared, ExternalEdit(p) PROVE StepsLeft(r)' = StepsLeft(r)
      BY <1>1, <2>6, OthersLeave DEF ExternalEdit
    <2>7. ASSUME UNCHANGED vars PROVE StepsLeft(r)' = StepsLeft(r)
      BY <1>1, <2>7, OthersLeave DEF vars
    <2>8. StepsLeft(r)' < StepsLeft(r) \/ StepsLeft(r)' = StepsLeft(r)
      BY <1>1, <2>2, <2>4, <2>5, <2>6, <2>7 DEF Next
    <2> QED BY <2>1, <2>2, <2>3, <2>8
  <1>2. IInv /\ MainInv /\ [Next]_vars =>
          [\A r \in Request :
             /\ StepsLeft(r)' <= StepsLeft(r)
             /\ (Send(r) \/ Run(r) \/ NestedWaitEnds(r)) => StepsLeft(r)' < StepsLeft(r)]_vars
    BY <1>1
  <1> QED BY <1>2, IInvHolds, MainStart, MainKeeps, PTL DEF Spec, RequestsDrawNearer
=============================================================================
