------------------------ MODULE MutationGatesProofs -------------------------
(***************************************************************************)
(* Proofs about MutationGates, for any files, contents and read-queue      *)
(* blocks and any bounds.                                                  *)
(***************************************************************************)
EXTENDS MutationGates, TLAPS

-----------------------------------------------------------------------------
(* The registry of approvals.                                               *)

\* Expiring what is stale keeps the types, the files and what is running.
LEMMA ExpiredFacts ==
    ASSUME NEW m \in [Approval -> ApprovalState]
    PROVE  /\ Expired(m) \in [Approval -> ApprovalState]
           /\ \A a \in Approval :
                 /\ Expired(m)[a].path = m[a].path
                 /\ Expired(m)[a].old = m[a].old
                 /\ (Expired(m)[a].status = "approved") <=> (m[a].status = "approved")
                 /\ (Expired(m)[a].status = "none") <=> (m[a].status = "none")
                 /\ Expired(m)[a].status = "pending" =>
                       m[a].status = "pending" /\ ~m[a].old
                 /\ Stage(Expired(m)[a]) = Stage(m[a])
<1> SUFFICES ASSUME NEW a \in Approval
             PROVE  /\ Expired(m)[a] \in ApprovalState
                    /\ Expired(m)[a].path = m[a].path
                    /\ Expired(m)[a].old = m[a].old
                    /\ (Expired(m)[a].status = "approved") <=> (m[a].status = "approved")
                    /\ (Expired(m)[a].status = "none") <=> (m[a].status = "none")
                    /\ Expired(m)[a].status = "pending" =>
                          m[a].status = "pending" /\ ~m[a].old
                    /\ Stage(Expired(m)[a]) = Stage(m[a])
    BY DEF Expired
<1>1. m[a] \in ApprovalState
    OBVIOUS
<1>2. CASE m[a].status = "pending" /\ m[a].old
    <2>1. Expired(m)[a] = [m[a] EXCEPT !.status = "expired"]
        BY <1>2 DEF Expired
    <2> QED
        BY <1>1, <1>2, <2>1 DEF ApprovalState, Stage
<1>3. CASE ~(m[a].status = "pending" /\ m[a].old)
    <2>1. Expired(m)[a] = m[a]
        BY <1>3 DEF Expired
    <2> QED
        BY <1>1, <1>3, <2>1
<1> QED
    BY <1>2, <1>3

-----------------------------------------------------------------------------
(* Types.                                                                   *)

\* The part of TypeOK that only the read queue and other programs disturb.
WorldType ==
    /\ disk \in [Watched -> Content]
    /\ tracked \in [Watched -> Content \cup {NoHash}]
    /\ refreshId \in Nat \ {0}
    /\ bypass \in {"off", "active", "expired"}
    /\ block \in [Reader -> BlockState]
    /\ given \in Nat /\ used \in Nat
    /\ \A r \in Reader : block[r].pc = "store" => block[r].path \in Path

DueTypeOK == due \in [unedited : SUBSET Watched, anchored : SUBSET Watched]

\* The part about the request being served and the registry it works on.
ServiceType ==
    /\ request \in RequestState
    /\ approval \in [Approval -> ApprovalState]
    /\ runs \in [Approval -> Nat]
    /\ request.st # "idle" => request.path \in Path
    /\ request.st = "hash" => request.file \in Path
    /\ \A a \in Approval :
          approval[a].status = "approved" <=>
             request.st \in Editing /\ request.kind = "resolve"
                /\ request.approval = a
    /\ \A a \in Approval : approval[a].status # "none" => approval[a].path \in Path

LEMMA TypeParts == TypeOK <=> WorldType /\ ServiceType /\ DueTypeOK
BY DEF TypeOK, WorldType, ServiceType, DueTypeOK

LEMMA InitType == Init => TypeOK
<1> SUFFICES ASSUME Init PROVE TypeOK
    OBVIOUS
<1>1. WorldType
    BY DEF Init, WorldType, IdleBlock, BlockState
<1>2. ServiceType
    BY DEF Init, ServiceType, IdleRequest, RequestState, EditKind, NoApproval,
           ApprovalState, Approval
<1> QED
    BY <1>1, <1>2, TypeParts DEF Init, DueTypeOK

\* Steps of the read queue keep the types and touch no request.
LEMMA ReadStepType ==
    ASSUME WorldType, NEW r \in Reader, ReadStep(r)
    PROVE  WorldType' /\ UNCHANGED <<request, approval, counters, disk, bypass>>
<1> USE DEF WorldType, BlockState, IdleBlock
<1>1. ASSUME NEW p \in Path, ReadFile(r, p)
      PROVE  WorldType' /\ UNCHANGED <<request, approval, counters, disk, bypass>>
    BY <1>1 DEF ReadFile, counters
<1>2. CASE RefreshAnchor(r)
    <2> DEFINE files == Tracked \ {Head}
               b == [IdleBlock EXCEPT
                       !.pc = IF files = {} THEN "count" ELSE "hash",
                       !.refresh = TRUE, !.todo = files]
    <2>1. files \subseteq Path
        BY DEF Tracked, Watched
    <2>2. b \in BlockState /\ b.pc # "store"
        BY <2>1
    <2>3. block' = [block EXCEPT ![r] = b]
        BY <1>2 DEF RefreshAnchor
    <2> HIDE DEF b, files
    <2> QED
        BY <1>2, <2>2, <2>3 DEF RefreshAnchor, counters
<1>3. CASE HashFile(r)
    <2>1. PICK p \in block[r].todo :
             block' = [block EXCEPT ![r] =
                         [@ EXCEPT !.pc = "store", !.path = p, !.hash = disk[p]]]
        BY <1>3 DEF HashFile
    <2> DEFINE b == [block[r] EXCEPT !.pc = "store", !.path = p, !.hash = disk[p]]
    <2>2. p \in Path /\ disk[p] \in Content
        BY <2>1 DEF Watched
    <2>3. b \in BlockState /\ b.path \in Path
        BY <2>2
    <2>4. block' = [block EXCEPT ![r] = b]
        BY <2>1
    <2> HIDE DEF b
    <2> QED
        BY <1>3, <2>3, <2>4 DEF HashFile, counters
<1>4. CASE StoreHash(r)
    <2> DEFINE rest == block[r].todo \ {block[r].path}
               b == IF rest # {}
                    THEN [block[r] EXCEPT !.pc = "hash", !.todo = rest]
                    ELSE IF block[r].refresh
                    THEN [IdleBlock EXCEPT !.pc = "count", !.refresh = TRUE]
                    ELSE IdleBlock
    <2>1. b \in BlockState /\ b.pc # "store"
        OBVIOUS
    <2>2. block' = [block EXCEPT ![r] = b]
        BY <1>4 DEF StoreHash
    <2>3. block[r].path \in Path /\ block[r].hash \in Content \cup {NoHash}
        BY <1>4 DEF StoreHash
    <2>4. tracked' \in [Watched -> Content \cup {NoHash}]
        BY <1>4, <2>3 DEF StoreHash, Watched
    <2> HIDE DEF b
    <2> QED
        BY <1>4, <2>1, <2>2, <2>4 DEF StoreHash, counters
<1>5. CASE CountRefresh(r)
    <2> DEFINE b == [block[r] EXCEPT !.pc = "head"]
    <2>1. b \in BlockState /\ b.pc # "store"
        OBVIOUS
    <2>2. block' = [block EXCEPT ![r] = b]
        BY <1>5 DEF CountRefresh
    <2> HIDE DEF b
    <2> QED
        BY <1>5, <2>1, <2>2 DEF CountRefresh, counters
<1>7. CASE ReadHead(r)
    <2> DEFINE b == [block[r] EXCEPT !.pc = "anchor", !.hash = disk[Head]]
    <2>1. disk[Head] \in Content
        BY DEF Watched
    <2>2. b \in BlockState /\ b.pc # "store"
        BY <2>1
    <2>3. block' = [block EXCEPT ![r] = b]
        BY <1>7 DEF ReadHead
    <2> HIDE DEF b
    <2> QED
        BY <1>7, <2>2, <2>3 DEF ReadHead, counters
<1>6. CASE AnchorHead(r)
    <2>1. tracked' \in [Watched -> Content \cup {NoHash}]
        BY <1>6 DEF AnchorHead, Watched
    <2> QED
        BY <1>6, <2>1 DEF AnchorHead, counters
<1> QED
    BY <1>1, <1>2, <1>3, <1>4, <1>5, <1>6, <1>7 DEF ReadStep

\* Answering a request leaves the registry as it is, or settles an approval.
LEMMA AdmitType ==
    ASSUME ServiceType, request.st \in {"decide", "override"}, Admit
    PROVE  /\ request' \in RequestState
           /\ approval' \in [Approval -> ApprovalState]
           /\ request'.st # "idle" => request'.path \in Path
           /\ request'.st \in {"idle", "admitted"}
           /\ request'.kind # "resolve"
           /\ \A a \in Approval : approval'[a].status # "approved"
           /\ \A a \in Approval :
                 approval'[a].status # "none" => approval'[a].path \in Path
<1> USE DEF ServiceType, Editing
<1>0. request.kind # "resolve"
    BY DEF Admit
<1>1. \A a \in Approval : approval[a].status # "approved"
    BY <1>0
<1>2. IdleRequest \in RequestState /\ IdleRequest.st = "idle"
        /\ IdleRequest.kind # "resolve"
    BY DEF IdleRequest, RequestState, EditKind
<1>3. CASE request.kind \in {"patch", "write"}
    <2> DEFINE w == [request EXCEPT !.st = "admitted"]
    <2>1. w \in RequestState /\ w.st = "admitted" /\ w.path = request.path
            /\ w.kind = request.kind
        BY DEF RequestState
    <2>2. request' = w /\ approval' = approval
        BY <1>3 DEF Admit
    <2> HIDE DEF w
    <2> QED
        BY <1>0, <1>1, <2>1, <2>2
<1>4. CASE request.kind = "confirmed"
    <2> DEFINE fresh == [status |-> "pending", path |-> request.path, old |-> FALSE]
               m == Expired(approval)
    <2>1. PICK a \in Approval : approval' = [m EXCEPT ![a] = fresh]
        BY <1>4 DEF Admit
    <2>2. fresh \in ApprovalState /\ fresh.status = "pending"
            /\ fresh.path \in Path
        BY DEF RequestState, ApprovalState
    <2>3. request' = IdleRequest
        BY <1>4 DEF Admit, Refused
    <2>4. /\ m \in [Approval -> ApprovalState]
          /\ \A b \in Approval : m[b].status # "approved"
          /\ \A b \in Approval : m[b].status # "none" => m[b].path \in Path
        BY <1>1, ExpiredFacts
    <2> HIDE DEF fresh, m
    <2> QED
        BY <1>2, <2>1, <2>2, <2>3, <2>4
<1>5. CASE request.kind = "retry"
    <2>1. approval' = Expired(approval) /\ request' = IdleRequest
        BY <1>5 DEF Admit, Refused
    <2>2. /\ Expired(approval) \in [Approval -> ApprovalState]
          /\ \A b \in Approval : Expired(approval)[b].status # "approved"
          /\ \A b \in Approval : Expired(approval)[b].status # "none" =>
                Expired(approval)[b].path \in Path
        BY <1>1, ExpiredFacts
    <2> QED
        BY <1>2, <2>1, <2>2
<1> QED
    BY <1>3, <1>4, <1>5 DEF Admit

LEMMA AdmitService ==
    ASSUME ServiceType, request.st \in {"decide", "override"}, Admit, UNCHANGED runs
    PROVE  ServiceType'
BY AdmitType DEF ServiceType, Editing

\* What a change of the request alone must respect.
LEMMA RequestStepService ==
    ASSUME ServiceType, UNCHANGED <<approval, runs>>,
           NEW w \in RequestState, request' = w,
           w.st # "idle" => w.path \in Path,
           w.st = "hash" => w.file \in Path,
           \A a \in Approval :
              approval[a].status = "approved" <=>
                 w.st \in Editing /\ w.kind = "resolve" /\ w.approval = a
    PROVE  ServiceType'
BY DEF ServiceType

LEMMA FinishService ==
    ASSUME ServiceType, request.st \in Editing, UNCHANGED runs,
           NEW status \in {"failed", "executed"}, Finish(status)
    PROVE  ServiceType'
<1> USE DEF ServiceType, Editing
<1>1. IdleRequest \in RequestState /\ IdleRequest.st = "idle"
    BY DEF IdleRequest, RequestState, EditKind
<1>2. request' = IdleRequest
    BY DEF Finish, Refused
<1>3. CASE request.kind = "resolve" /\ request.approval \in Approval
    <2> DEFINE i == request.approval
               w == [approval[i] EXCEPT !.status = status]
    <2>1. approval' = [approval EXCEPT ![i].status = status]
        BY <1>3 DEF Finish
    <2>2. approval' = [approval EXCEPT ![i] = w]
        BY <2>1
    <2>3. w \in ApprovalState /\ w.path = approval[i].path /\ w.status = status
        BY <1>3 DEF ApprovalState
    <2>4. approval[i].path \in Path
        BY <1>3
    <2>5. \A a \in Approval : a # i => approval[a].status # "approved"
        BY <1>3
    <2> HIDE DEF w
    <2> QED
        BY <1>1, <1>2, <1>3, <2>2, <2>3, <2>4, <2>5
<1>4. CASE request.kind = "resolve" /\ request.approval \notin Approval
    <2>1. approval' = [approval EXCEPT ![request.approval].status = status]
        BY <1>4 DEF Finish
    <2>2. approval' = approval
        BY <1>4, <2>1
    <2> QED
        BY <1>1, <1>2, <1>4, <2>2
<1>5. CASE request.kind # "resolve"
    <2>1. approval' = approval
        BY <1>5 DEF Finish
    <2> QED
        BY <1>1, <1>2, <1>5, <2>1
<1> QED
    BY <1>3, <1>4, <1>5

\* A step of the comparison moves on in it and changes nothing else.
LEMMA LookFacts ==
    ASSUME WorldType, ServiceType, Look
    PROVE  /\ request' \in RequestState
           /\ request.st \in {"scan", "look", "hash"}
           /\ request'.st \in {"look", "hash", "decide"}
           /\ request'.st = "hash" => request'.file \in Path
           /\ request'.st = "decide" => request'.todo = {}
           /\ request'.kind = request.kind /\ request'.path = request.path
           /\ request'.approval = request.approval
           /\ UNCHANGED <<disk, gateVars, approval, counters>>
<1> USE DEF ServiceType, WorldType, RequestState
<1>1. CASE ListTracked
    BY <1>1 DEF ListTracked, Tracked, Watched
<1>2. CASE TakeAnchor
    <2>1. PICK p \in request.todo :
             request' = [request EXCEPT !.st = "hash", !.todo = @ \ {p},
                                        !.file = p, !.anchor = tracked[p]]
        BY <1>2 DEF TakeAnchor
    <2>2. p \in Path /\ tracked[p] \in Content \cup {NoHash}
        BY DEF Watched
    <2> QED
        BY <1>2, <2>1, <2>2 DEF TakeAnchor
<1>3. CASE CompareFile
    <2> DEFINE found == request.drift \/ request.anchor # disk[request.file]
    <2>1. found \in BOOLEAN
        OBVIOUS
    <2>2. request' = [request EXCEPT !.st = "look", !.file = NoPath,
                                     !.anchor = NoHash, !.drift = found]
        BY <1>3 DEF CompareFile
    <2> HIDE DEF found
    <2>3. request \in RequestState /\ UNCHANGED <<disk, gateVars, approval, counters>>
        BY <1>3 DEF CompareFile
    <2>4. request.st = "hash"
        BY <1>3 DEF CompareFile
    <2>5. /\ request' \in RequestState /\ request'.st = "look"
          /\ request'.todo = request.todo /\ request'.kind = request.kind
          /\ request'.path = request.path /\ request'.approval = request.approval
        BY <2>1, <2>2, <2>3
    <2> QED
        BY <2>3, <2>4, <2>5
<1>4. CASE CompareHead
    <2> DEFINE found == request.drift \/ HeadDrifted
    <2>1. found \in BOOLEAN
        BY DEF HeadDrifted
    <2>2. request' = [request EXCEPT !.st = "decide", !.drift = found]
        BY <1>4 DEF CompareHead
    <2> HIDE DEF found
    <2>3. request \in RequestState /\ UNCHANGED <<disk, gateVars, approval, counters>>
        BY <1>4 DEF CompareHead
    <2>4. request.st = "look" /\ request.todo = {}
        BY <1>4 DEF CompareHead
    <2>5. /\ request' \in RequestState /\ request'.st = "decide"
          /\ request'.todo = request.todo /\ request'.kind = request.kind
          /\ request'.path = request.path /\ request'.approval = request.approval
        BY <2>1, <2>2, <2>3
    <2> QED
        BY <2>3, <2>4, <2>5
<1> QED
    BY <1>1, <1>2, <1>3, <1>4 DEF Look

\* Steps of the execution queue and of the edit keep the types.
LEMMA EditStepType ==
    ASSUME WorldType, ServiceType, EditStep
    PROVE  WorldType' /\ ServiceType'
<1> USE DEF gateVars, counters
<1>0. request \in RequestState /\ (request.st # "idle" => request.path \in Path)
    BY DEF ServiceType
<1>1. ASSUME NEW kind \in EditKind, NEW p \in Path, StartGate(kind, p)
      PROVE  WorldType' /\ ServiceType'
    <2>1. PICK cite \in 0..refreshId, anyway \in BOOLEAN :
             request' = [IdleRequest EXCEPT !.st = "scan", !.kind = kind,
                           !.path = p, !.cite = cite, !.anyway = anyway,
                           !.head = disk[Head]]
        BY <1>1 DEF StartGate
    <2> DEFINE w == [IdleRequest EXCEPT !.st = "scan", !.kind = kind,
                       !.path = p, !.cite = cite, !.anyway = anyway,
                       !.head = disk[Head]]
    <2>2. cite \in Nat /\ disk[Head] \in Content
        BY DEF WorldType, Watched
    <2>3. w \in RequestState /\ w.path = p /\ w.kind = kind /\ w.st = "scan"
        BY <2>2 DEF IdleRequest, RequestState
    <2>4. kind # "resolve"
        BY DEF EditKind
    <2>5. request' = w /\ UNCHANGED <<approval, runs>>
        BY <1>1, <2>1 DEF StartGate
    <2>6. \A a \in Approval : approval[a].status # "approved"
        BY <1>1 DEF ServiceType, StartGate, ExecIdle, Editing
    <2> HIDE DEF w
    <2>7. ServiceType'
        BY <2>3, <2>4, <2>5, <2>6, RequestStepService
    <2> QED
        BY <1>1, <2>7 DEF StartGate, WorldType
<1>2. CASE Look
    <2> DEFINE w == request'
    <2>1. /\ request.st \in {"scan", "look", "hash"}
          /\ w.st \in {"look", "hash", "decide"}
          /\ w \in RequestState /\ w.path = request.path
          /\ w.st = "hash" => w.file \in Path
          /\ UNCHANGED <<disk, gateVars, approval, counters>>
        BY <1>2, LookFacts
    <2>2. \A a \in Approval : approval[a].status # "approved"
        BY <2>1 DEF ServiceType, Editing
    <2>3. ServiceType'
        BY <1>0, <2>1, <2>2 DEF ServiceType, Editing
    <2> QED
        BY <2>1, <2>3 DEF WorldType
<1>3. CASE Decide
    <2>1. CASE Admit
        BY <1>3, <2>1, AdmitService DEF Decide, WorldType
    <2>2. CASE request' = [request EXCEPT !.st = "override"] /\ UNCHANGED approval
        <3> DEFINE w == [request EXCEPT !.st = "override"]
        <3>1. w \in RequestState
            BY <1>0 DEF RequestState
        <3>2. /\ request.st = "decide" /\ w.st = "override"
              /\ w.kind = request.kind /\ w.path = request.path
              /\ w.approval = request.approval
            BY <1>0, <1>3 DEF RequestState, Decide
        <3>3. request' = w /\ UNCHANGED <<approval, runs>>
            BY <1>3, <2>2 DEF Decide
        <3> HIDE DEF w
        <3>4. ServiceType'
            BY <1>0, <3>1, <3>2, <3>3, RequestStepService
            DEF ServiceType, Editing
        <3> QED
            BY <1>3, <3>4 DEF Decide, WorldType
    <2>3. CASE Refused /\ UNCHANGED approval
        <3>1. \A a \in Approval : approval[a].status # "approved"
            BY <1>3 DEF Decide, ServiceType, Editing
        <3>2. IdleRequest \in RequestState /\ IdleRequest.st = "idle"
            BY DEF IdleRequest, RequestState, EditKind
        <3>3. request' = IdleRequest /\ UNCHANGED <<approval, runs>>
            BY <1>3, <2>3 DEF Refused, Decide
        <3>4. ServiceType'
            BY <3>1, <3>2, <3>3, RequestStepService DEF Editing
        <3> QED
            BY <1>3, <3>4 DEF Decide, WorldType
    <2> QED
        BY <1>3, <2>1, <2>2, <2>3 DEF Decide
<1>4. CASE SpendOverride
    <2>1. ServiceType'
        BY <1>4, AdmitService DEF SpendOverride
    <2> QED
        BY <1>4, <2>1 DEF SpendOverride, WorldType
<1>5. CASE Write
    <2>1. CASE Finish("failed") /\ UNCHANGED disk
        <3>1. ServiceType'
            BY <1>5, <2>1, FinishService DEF Write, Editing
        <3> QED
            BY <1>5, <2>1, <3>1 DEF Write, WorldType
    <2>2. ASSUME NEW v \in Content, disk' = [disk EXCEPT ![request.path] = v],
                 IF request.kind = "write"
                 THEN Finish("executed")
                 ELSE /\ request' = [request EXCEPT !.st = "written"]
                      /\ UNCHANGED approval
          PROVE  WorldType' /\ ServiceType'
        <3> DEFINE w == [request EXCEPT !.st = "written"]
        <3>1. /\ w \in RequestState /\ w.st = "written"
              /\ w.kind = request.kind /\ w.path = request.path
              /\ w.approval = request.approval
            BY <1>0 DEF RequestState
        <3>2. ASSUME request.kind = "write" PROVE ServiceType'
            BY <1>5, <2>2, <3>2, FinishService DEF Write, Editing
        <3>3. ASSUME request.kind # "write" PROVE ServiceType'
            <4>1. request' = w /\ UNCHANGED <<approval, runs>>
                BY <1>5, <2>2, <3>3 DEF Write
            <4> HIDE DEF w
            <4> QED
                BY <1>0, <1>5, <3>1, <4>1, RequestStepService
                DEF ServiceType, Write, Editing
        <3>4. disk' \in [Watched -> Content]
            BY <1>5, <2>2 DEF WorldType
        <3> QED
            BY <1>5, <3>2, <3>3, <3>4 DEF Write, WorldType
    <2> QED
        BY <1>5, <2>1, <2>2 DEF Write
<1>6. CASE HashWritten
    <2> DEFINE w == [request EXCEPT !.st = "hashed", !.hash = disk[request.path]]
    <2>1. disk[request.path] \in Content
        BY <1>0, <1>6 DEF HashWritten, WorldType, Watched
    <2>2. /\ w \in RequestState /\ w.st = "hashed"
          /\ w.kind = request.kind /\ w.path = request.path
          /\ w.approval = request.approval
        BY <1>0, <2>1 DEF RequestState
    <2>3. request' = w /\ UNCHANGED <<approval, runs>>
        BY <1>6 DEF HashWritten
    <2> HIDE DEF w
    <2>4. ServiceType'
        BY <1>0, <1>6, <2>2, <2>3, RequestStepService
        DEF ServiceType, HashWritten, Editing
    <2> QED
        BY <1>6, <2>4 DEF HashWritten, WorldType
<1>7. CASE StoreWritten
    <2>1. ServiceType'
        BY <1>7, FinishService DEF StoreWritten, Editing
    <2>2. tracked' \in [Watched -> Content \cup {NoHash}]
        BY <1>0, <1>7 DEF StoreWritten, WorldType, RequestState
    <2> QED
        BY <1>7, <2>1, <2>2 DEF StoreWritten, WorldType
<1> QED
    BY <1>1, <1>2, <1>3, <1>4, <1>5, <1>6, <1>7 DEF EditStep

\* Steps on the registry keep the types and leave the workspace alone.
LEMMA RegistryStepType ==
    ASSUME WorldType, ServiceType,
           (\E a \in Approval : Age(a) \/ Resolve(a)) \/ ListApprovals
    PROVE  WorldType' /\ ServiceType'
<1> USE DEF gateVars, counters
<1>0. /\ request \in RequestState
      /\ approval \in [Approval -> ApprovalState]
      /\ runs \in [Approval -> Nat]
    BY DEF ServiceType
<1>1. ASSUME NEW a \in Approval, Age(a)
      PROVE  WorldType' /\ ServiceType'
    <2> DEFINE w == [approval[a] EXCEPT !.old = TRUE]
    <2>1. /\ w \in ApprovalState /\ w.status = approval[a].status
          /\ w.path = approval[a].path
        BY <1>0 DEF ApprovalState
    <2>2. approval' = [approval EXCEPT ![a] = w] /\ UNCHANGED <<request, runs>>
        BY <1>1 DEF Age
    <2> HIDE DEF w
    <2>3. ServiceType'
        BY <2>1, <2>2 DEF ServiceType
    <2> QED
        BY <1>1, <2>3 DEF Age, WorldType
<1>2. ASSUME NEW a \in Approval, Resolve(a)
      PROVE  WorldType' /\ ServiceType'
    <2> DEFINE m == Expired(approval)
    <2>0. /\ m \in [Approval -> ApprovalState]
          /\ \A b \in Approval : m[b].path = approval[b].path
          /\ \A b \in Approval : m[b].status # "approved"
          /\ \A b \in Approval : m[b].status # "none" => m[b].path \in Path
        BY <1>0, <1>2, ExpiredFacts DEF ServiceType, Resolve, ExecIdle, Editing
    <2>1. ResolveIn(m, a)
        BY <1>2 DEF Resolve
    <2> HIDE DEF m
    <2>2. ASSUME m[a].status = "pending",
                 approval' = [m EXCEPT ![a].status = "approved"],
                 runs' = [runs EXCEPT ![a] = @ + 1],
                 request' = [IdleRequest EXCEPT !.st = "admitted",
                               !.kind = "resolve", !.path = m[a].path,
                               !.approval = a]
          PROVE  ServiceType'
        <3> DEFINE w == [m[a] EXCEPT !.status = "approved"]
                   q == [IdleRequest EXCEPT !.st = "admitted",
                           !.kind = "resolve", !.path = m[a].path,
                           !.approval = a]
        <3>1. w \in ApprovalState /\ w.status = "approved" /\ w.path = m[a].path
            BY <2>0 DEF ApprovalState
        <3>2. m[a].path \in Path
            BY <2>0, <2>2
        <3>3. q \in RequestState /\ q.st = "admitted" /\ q.kind = "resolve"
                /\ q.path = m[a].path /\ q.approval = a
            BY <3>2 DEF RequestState, IdleRequest
        <3>4. approval' = [m EXCEPT ![a] = w] /\ request' = q
            BY <2>2
        <3>5. runs' \in [Approval -> Nat]
            BY <1>0, <2>2
        <3> HIDE DEF w, q
        <3> QED
            BY <2>0, <3>1, <3>2, <3>3, <3>4, <3>5 DEF ServiceType, Editing
    <2>3. ASSUME m[a].status = "pending",
                 approval' = [m EXCEPT ![a].status = "rejected"],
                 UNCHANGED <<request, runs>>
          PROVE  ServiceType'
        <3> DEFINE w == [m[a] EXCEPT !.status = "rejected"]
        <3>1. w \in ApprovalState /\ w.status = "rejected" /\ w.path = m[a].path
            BY <2>0 DEF ApprovalState
        <3>2. approval' = [m EXCEPT ![a] = w]
            BY <2>3
        <3>3. request.st = "idle"
            BY <1>2 DEF Resolve, ExecIdle
        <3>4. m[a].path \in Path
            BY <2>0, <2>3
        <3> HIDE DEF w
        <3> QED
            BY <1>0, <2>0, <2>3, <3>1, <3>2, <3>3, <3>4 DEF ServiceType, Editing
    <2>4. ASSUME approval' = m, UNCHANGED <<request, runs>>
          PROVE  ServiceType'
        <3>1. request.st = "idle"
            BY <1>2 DEF Resolve, ExecIdle
        <3> QED
            BY <1>0, <2>0, <2>4, <3>1 DEF ServiceType, Editing
    <2>5. ServiceType'
        BY <2>1, <2>2, <2>3, <2>4 DEF ResolveIn
    <2> QED
        BY <1>2, <2>5 DEF Resolve, WorldType
<1>3. CASE ListApprovals
    <2>1. ServiceType'
        BY <1>0, <1>3, ExpiredFacts DEF ListApprovals, ServiceType
    <2> QED
        BY <1>3, <2>1 DEF ListApprovals, WorldType
<1> QED
    BY <1>1, <1>2, <1>3

\* Steps outside the application, and the clock of the override.
LEMMA OutsideStepType ==
    ASSUME WorldType, ServiceType,
           \/ ContinueAnyway \/ BypassExpires
           \/ \E w \in Watched : ExternalChange(w)
    PROVE  WorldType' /\ ServiceType'
<1> USE DEF gateVars, counters
<1>1. CASE ContinueAnyway
    BY <1>1 DEF ContinueAnyway, WorldType, ServiceType
<1>2. CASE BypassExpires
    BY <1>2 DEF BypassExpires, WorldType, ServiceType
<1>3. ASSUME NEW w \in Watched, ExternalChange(w)
      PROVE  WorldType' /\ ServiceType'
    <2>1. disk' \in [Watched -> Content]
        BY <1>3 DEF ExternalChange, WorldType
    <2>2. UNCHANGED <<tracked, refreshId, bypass, block, given, used, runs,
                      request, approval>>
        BY <1>3 DEF ExternalChange
    <2> QED
        BY <2>1, <2>2 DEF WorldType, ServiceType
<1> QED
    BY <1>1, <1>2, <1>3

LEMMA HistoryIsKept == Next => RecordDue
BY DEF Next, ReadStep, EditStep, Look, ReadFile, RefreshAnchor, HashFile, StoreHash,
       CountRefresh, ReadHead, AnchorHead, ContinueAnyway, BypassExpires, StartGate,
       ListTracked, TakeAnchor, CompareFile, CompareHead, Decide, SpendOverride, Age,
       ListApprovals, Resolve, Write, HashWritten, StoreWritten, ExternalChange

LEMMA DueType == ASSUME DueTypeOK, RecordDue PROVE DueTypeOK'
BY DEF RecordDue, DueTypeOK, Drifted, Tracked, Watched

LEMMA NextType == ASSUME TypeOK, [Next]_vars PROVE TypeOK'
<1>1. WorldType /\ ServiceType /\ DueTypeOK
    BY TypeParts
<1>2. CASE UNCHANGED vars
    BY <1>2, <1>1 DEF vars, gateVars, counters, TypeOK
<1>3. CASE Next
    <2>1. DueTypeOK'
        BY <1>1, <1>3, DueType, HistoryIsKept
    <2>2. ASSUME NEW r \in Reader, ReadStep(r) PROVE WorldType' /\ ServiceType'
        BY <1>1, <2>2, ReadStepType DEF ServiceType, counters
    <2>3. WorldType' /\ ServiceType'
        BY <1>1, <1>3, <2>2, EditStepType, RegistryStepType, OutsideStepType
        DEF Next
    <2> QED
        BY <2>1, <2>3 DEF TypeOK, WorldType, ServiceType, DueTypeOK
<1> QED
    BY <1>2, <1>3

\* Every variable keeps its type, a request under way and an approval name a
\* file, and an approval is approved exactly while its edit runs.
THEOREM TypeCorrect == Spec => []TypeOK
<1>1. Init => TypeOK
    BY InitType
<1>2. TypeOK /\ [Next]_vars => TypeOK'
    BY NextType
<1> QED
    BY <1>1, <1>2, PTL DEF Spec

-----------------------------------------------------------------------------
(* The override.                                                            *)

\* The calls of continueAnyway not used yet: the flag, and an edit that has
\* seen it and not taken it back.
Pending == IF bypass = "active" \/ request.st = "override" THEN 1 ELSE 0

OverrideInv == used + Pending <= given

LEMMA OverrideStep ==
    ASSUME TypeOK, TypeOK', OverrideInv, [Next]_vars
    PROVE  OverrideInv'
<1> USE DEF OverrideInv, Pending
<1>0. given \in Nat /\ used \in Nat /\ given' \in Nat /\ used' \in Nat
    BY DEF TypeOK
<1>q. request \in RequestState
    BY DEF TypeOK
<1>1. CASE UNCHANGED vars
    BY <1>0, <1>1 DEF vars, gateVars, counters
<1>2. ASSUME NEW r \in Reader, ReadStep(r) PROVE OverrideInv'
    <2>1. UNCHANGED <<request, given, used, bypass>>
        BY <1>2, TypeParts, ReadStepType DEF counters
    <2> QED
        BY <1>0, <2>1
<1>3. ASSUME NEW kind \in EditKind, NEW p \in Path, StartGate(kind, p)
      PROVE  OverrideInv'
    <2>1. request'.st = "scan"
        BY <1>3 DEF StartGate, IdleRequest
    <2>2. UNCHANGED <<given, used, bypass>>
        BY <1>3 DEF StartGate, gateVars, counters
    <2> QED
        BY <1>0, <2>1, <2>2
<1>4. CASE Look
    <2>1. request'.st # "override" /\ UNCHANGED <<given, used, bypass>>
        BY <1>4, LookFacts, TypeParts DEF gateVars, counters
    <2> QED
        BY <1>0, <2>1
<1>a. ASSUME Admit, request.st \in {"decide", "override"}
      PROVE  request'.st # "override"
    BY <1>a, AdmitType, TypeParts
<1>5. CASE Decide
    <2>1. UNCHANGED <<given, used, bypass>>
        BY <1>5 DEF Decide, gateVars, counters
    <2>2. request'.st = "override" => bypass = "active"
        BY <1>5, <1>a DEF Decide, Refused, IdleRequest
    <2> QED
        BY <1>0, <2>1, <2>2
<1>6. CASE SpendOverride
    <2>1. /\ request.st = "override" /\ request'.st # "override"
          /\ bypass' = "off" /\ used' = used + 1 /\ given' = given
        BY <1>6, <1>a DEF SpendOverride
    <2> QED
        BY <1>0, <2>1
<1>f. ASSUME NEW status, Finish(status) PROVE request'.st # "override"
    BY <1>f DEF Finish, Refused, IdleRequest
<1>7. CASE Write
    <2>1. UNCHANGED <<given, used, bypass>>
        BY <1>7 DEF Write, gateVars, counters
    <2>2. request'.st # "override"
        BY <1>7, <1>q, <1>f DEF Write, RequestState
    <2> QED
        BY <1>0, <2>1, <2>2
<1>8. CASE HashWritten
    <2>1. UNCHANGED <<given, used, bypass>> /\ request'.st # "override"
        BY <1>8, <1>q DEF HashWritten, gateVars, counters, RequestState
    <2> QED
        BY <1>0, <2>1
<1>9. CASE StoreWritten
    <2>1. UNCHANGED <<given, used, bypass>> /\ request'.st # "override"
        BY <1>9, <1>f DEF StoreWritten, counters
    <2> QED
        BY <1>0, <2>1
<1>10. ASSUME NEW a \in Approval, Age(a) PROVE OverrideInv'
    BY <1>0, <1>10 DEF Age, gateVars, counters
<1>11. ASSUME NEW a \in Approval, Resolve(a) PROVE OverrideInv'
    <2>1. UNCHANGED <<given, used, bypass>>
        BY <1>11 DEF Resolve, gateVars
    <2>2. request'.st # "override"
        BY <1>11 DEF Resolve, ResolveIn, ExecIdle, IdleRequest
    <2> QED
        BY <1>0, <2>1, <2>2
<1>12. CASE ListApprovals
    BY <1>0, <1>12 DEF ListApprovals, gateVars, counters
<1>13. CASE ContinueAnyway
    BY <1>0, <1>13 DEF ContinueAnyway
<1>14. CASE BypassExpires
    BY <1>0, <1>14 DEF BypassExpires, counters
<1>15. ASSUME NEW w \in Watched, ExternalChange(w) PROVE OverrideInv'
    BY <1>0, <1>15 DEF ExternalChange, gateVars, counters
<1> QED
    BY <1>1, <1>2, <1>3, <1>4, <1>5, <1>6, <1>7, <1>8, <1>9, <1>10, <1>11,
       <1>12, <1>13, <1>14, <1>15 DEF Next, EditStep

\* No more edits pass on workspace.continueAnyway than calls of it were made:
\* every use takes back the flag that a call set.
THEOREM OverrideOnce == Spec => []OverrideIsOneShot
<1>1. Init => OverrideInv
    BY DEF Init, OverrideInv, Pending, IdleRequest
<1>2. TypeOK /\ TypeOK' /\ OverrideInv /\ [Next]_vars => OverrideInv'
    BY OverrideStep
<1>3. TypeOK /\ OverrideInv => OverrideIsOneShot
    BY DEF TypeOK, OverrideInv, Pending, OverrideIsOneShot
<1> QED
    BY <1>1, <1>2, <1>3, TypeCorrect, PTL DEF Spec

-----------------------------------------------------------------------------
(* The drift gate.                                                          *)

\* All that the gate has to find.
Due == due.unedited \cup due.anchored

\* Of a file whose anchor is in hand, the comparison to come will see the drift.
FileInHand(w) ==
    /\ request.st = "hash" /\ request.file = w
    /\ w \in due.unedited => request.anchor # disk[w]
    /\ w \in due.anchored => request.anchor = tracked[w]

\* So will that of the HEAD, which was read before anything else.
HeadInHand ==
    /\ request.st # "decide"
    /\ Head \in due.unedited => request.head = disk[Head]
    /\ Head \in due.anchored => request.head # tracked[Head]

\* While nothing was found, all that is due is still to be compared.
GateInv ==
    /\ Due \subseteq Drifted
    /\ ~Scanning => Due = {}
    /\ request.st = "decide" => request.todo = {}
    /\ Scanning /\ ~request.drift =>
          \A w \in Due :
             IF w = Head THEN HeadInHand
             ELSE request.st = "scan" \/ w \in request.todo \/ FileInHand(w)

\* What the history says of a step within one comparison.
LEMMA DueShrinks ==
    ASSUME RecordDue, Scanning, Scanning'
    PROVE  /\ due'.unedited \subseteq due.unedited
           /\ due'.anchored \subseteq due.anchored
           /\ Due' \subseteq Due \cap Drifted'
           /\ \A w \in due'.unedited : disk'[w] = disk[w]
           /\ \A w \in due'.anchored : tracked'[w] = tracked[w]
BY DEF RecordDue, Due

\* What a step may do to a request that is being compared: go on with the
\* comparison, leave it alone, begin or end it.
LEMMA ScanSteps ==
    ASSUME TypeOK, [Next]_vars
    PROVE  \/ request' = request
           \/ ~Scanning'
           \/ Look
           \/ /\ request.st = "idle"
              /\ request'.st = "scan"
              /\ request'.head = disk[Head]
              /\ UNCHANGED <<disk, tracked>>
<1> DEFINE Goal ==
           \/ request' = request
           \/ ~Scanning'
           \/ Look
           \/ /\ request.st = "idle"
              /\ request'.st = "scan"
              /\ request'.head = disk[Head]
              /\ UNCHANGED <<disk, tracked>>
<1> SUFFICES Goal
    OBVIOUS
<1>q. request \in RequestState /\ WorldType /\ ServiceType
    BY TypeParts DEF TypeOK
<1>1. CASE UNCHANGED vars
    BY <1>1 DEF vars
<1>2. ASSUME NEW r \in Reader, ReadStep(r) PROVE Goal
    BY <1>2, <1>q, ReadStepType
<1>3. ASSUME NEW kind \in EditKind, NEW p \in Path, StartGate(kind, p)
      PROVE  Goal
    <2>1. request'.st = "scan" /\ request'.head = disk[Head]
        BY <1>3 DEF StartGate, IdleRequest
    <2> QED
        BY <1>3, <2>1 DEF StartGate, ExecIdle, gateVars
<1>4. ASSUME Admit, request.st \in {"decide", "override"}
      PROVE  ~Scanning'
    <2>1. request'.st \in {"idle", "admitted"}
        BY <1>4, <1>q, AdmitType
    <2> QED
        BY <2>1 DEF Scanning
<1>5. CASE Decide
    <2>1. Admit \/ request'.st \in {"override", "idle"}
        BY <1>5, <1>q DEF Decide, Refused, IdleRequest, RequestState
    <2>2. ~Scanning'
        BY <2>1, <1>4, <1>5 DEF Decide, Scanning
    <2> QED
        BY <2>2
<1>6. CASE SpendOverride
    BY <1>6, <1>4 DEF SpendOverride
<1>f. ASSUME NEW status, Finish(status) PROVE request'.st = "idle"
    BY <1>f DEF Finish, Refused, IdleRequest
<1>7. CASE Write \/ HashWritten \/ StoreWritten
    <2>1. request'.st \in {"idle", "written", "hashed"}
        BY <1>7, <1>q, <1>f DEF Write, HashWritten, StoreWritten, RequestState
    <2>2. ~Scanning'
        BY <2>1 DEF Scanning
    <2> QED
        BY <2>2
<1>10. ASSUME NEW a \in Approval, Age(a) \/ Resolve(a) PROVE Goal
    <2>1. request' = request \/ request'.st = "admitted"
        BY <1>10 DEF Age, Resolve, ResolveIn, IdleRequest
    <2> QED
        BY <2>1 DEF Scanning
<1>11. CASE ListApprovals \/ ContinueAnyway \/ BypassExpires
    BY <1>11 DEF ListApprovals, ContinueAnyway, BypassExpires
<1>12. ASSUME NEW w \in Watched, ExternalChange(w) PROVE Goal
    BY <1>12 DEF ExternalChange
<1> HIDE DEF Goal
<1>13. CASE Look
    BY <1>13 DEF Goal
<1> QED
    BY <1>1, <1>2, <1>3, <1>5, <1>6, <1>7, <1>10, <1>11, <1>12, <1>13
    DEF Next, EditStep

\* Each step of the comparison finds a drift that is due, or has it still to come.
LEMMA LookStep ==
    ASSUME TypeOK, GateInv, Look, RecordDue, Scanning, Scanning', ~request'.drift,
           NEW w \in Due'
    PROVE  IF w = Head THEN HeadInHand'
           ELSE request'.st = "scan" \/ w \in request'.todo \/ FileInHand(w)'
<1>1. /\ request \in RequestState
      /\ UNCHANGED <<disk, tracked>>
      /\ request.st \in {"scan", "look", "hash"}
      /\ request'.st \in {"look", "hash", "decide"}
    BY LookFacts, TypeParts DEF TypeOK, gateVars
<1>2. /\ w \in Due
      /\ w \in due'.unedited => w \in due.unedited
      /\ w \in due'.anchored => w \in due.anchored
      /\ w \in Drifted
    BY DueShrinks DEF GateInv
<1>3. tracked[w] # NoHash /\ tracked[w] # disk[w]
    BY <1>2 DEF Drifted, Tracked
<1>4. ASSUME ~request.drift
      PROVE  IF w = Head THEN HeadInHand
             ELSE request.st = "scan" \/ w \in request.todo \/ FileInHand(w)
    BY <1>2, <1>4 DEF GateInv
<1>5. w \in Tracked /\ w \in due.unedited \cup due.anchored
    BY <1>2 DEF Due, Drifted
<1>6. CASE ListTracked
    <2>1. /\ request'.st = "look" /\ request'.todo = Tracked \ {Head}
          /\ request'.drift = request.drift /\ request'.head = request.head
        BY <1>1, <1>6 DEF ListTracked, RequestState
    <2> QED
        BY <1>1, <1>2, <1>4, <1>5, <2>1 DEF HeadInHand
<1>7. CASE TakeAnchor
    <2>1. PICK p \in request.todo :
             request' = [request EXCEPT !.st = "hash", !.todo = @ \ {p},
                                        !.file = p, !.anchor = tracked[p]]
        BY <1>7 DEF TakeAnchor
    <2>2. /\ request'.st = "hash" /\ request'.todo = request.todo \ {p}
          /\ request'.file = p /\ request'.anchor = tracked[p]
          /\ request'.drift = request.drift /\ request'.head = request.head
        BY <1>1, <2>1 DEF RequestState
    <2>3. request.st = "look"
        BY <1>7 DEF TakeAnchor
    <2>4. CASE w = Head
        BY <1>1, <1>2, <1>4, <2>2, <2>4 DEF HeadInHand
    <2>5. CASE w # Head
        <3>1. w \in request.todo
            BY <1>4, <2>2, <2>3, <2>5 DEF FileInHand
        <3> QED
            BY <1>1, <1>3, <2>2, <2>5, <3>1 DEF FileInHand
    <2> QED
        BY <2>4, <2>5
<1>8. CASE CompareFile
    <2>1. /\ request'.st = "look" /\ request'.todo = request.todo
          /\ request'.head = request.head
        BY <1>1, <1>8 DEF CompareFile, RequestState
    <2>2. request'.drift = (request.drift \/ request.anchor # disk[request.file])
        BY <1>1, <1>8 DEF CompareFile, RequestState
    <2>3. ~request.drift /\ request.anchor = disk[request.file]
        BY <2>2
    <2>4. CASE w = Head
        BY <1>1, <1>2, <1>4, <2>1, <2>3, <2>4 DEF HeadInHand
    <2>5. CASE w # Head
        <3>1. ~FileInHand(w)
            BY <1>3, <1>5, <2>3 DEF FileInHand
        <3> QED
            BY <1>4, <1>8, <2>1, <2>3, <2>5, <3>1 DEF CompareFile
    <2> QED
        BY <2>4, <2>5
<1>9. CASE CompareHead
    <2>1. request.st = "look" /\ request.todo = {}
        BY <1>9 DEF CompareHead
    <2>2. request'.drift = (request.drift \/ HeadDrifted)
        BY <1>1, <1>9 DEF CompareHead, RequestState
    <2>3. ~request.drift /\ ~HeadDrifted
        BY <2>2
    <2>4. w = Head /\ HeadInHand
        BY <1>4, <2>1, <2>3 DEF FileInHand
    <2>5. HeadDrifted
        BY <1>3, <1>5, <2>4 DEF HeadInHand, HeadDrifted
    <2> QED
        BY <2>3, <2>5
<1> QED
    BY <1>6, <1>7, <1>8, <1>9 DEF Look

LEMMA GateStep ==
    ASSUME TypeOK, TypeOK', GateInv, [Next]_vars
    PROVE  GateInv'
<1>1. CASE UNCHANGED vars
    BY <1>1 DEF vars, gateVars, counters, GateInv, Scanning, Drifted, Tracked, Due,
                FileInHand, HeadInHand
<1>2. CASE Next
    <2>1. RecordDue
        BY <1>2, HistoryIsKept
    <2>2. Due' \subseteq Drifted' /\ (~Scanning' => Due' = {})
        BY <2>1 DEF RecordDue, Due
    <2>3. ASSUME Scanning', ~request'.drift, NEW w \in Due'
          PROVE  IF w = Head THEN HeadInHand'
                 ELSE request'.st = "scan" \/ w \in request'.todo \/ FileInHand(w)'
        <3>1. CASE request' = request
            <4>1. Scanning /\ ~request.drift
                BY <2>3, <3>1 DEF Scanning
            <4>2. /\ w \in Due
                  /\ w \in due'.unedited => w \in due.unedited /\ disk'[w] = disk[w]
                  /\ w \in due'.anchored =>
                        w \in due.anchored /\ tracked'[w] = tracked[w]
                BY <2>1, <2>3, <4>1, DueShrinks
            <4>3. IF w = Head THEN HeadInHand
                  ELSE request.st = "scan" \/ w \in request.todo \/ FileInHand(w)
                BY <4>1, <4>2 DEF GateInv
            <4> QED
                BY <3>1, <4>2, <4>3 DEF HeadInHand, FileInHand
        <3>2. CASE Look
            <4>1. Scanning
                BY <3>2, LookFacts, TypeParts DEF Scanning
            <4> QED
                BY <2>1, <2>3, <3>2, <4>1, LookStep
        <3>3. CASE /\ request.st = "idle"
                   /\ request'.st = "scan"
                   /\ request'.head = disk[Head]
                   /\ UNCHANGED <<disk, tracked>>
            <4>1. w \in Drifted'
                BY <2>2, <2>3
            <4> QED
                BY <3>3, <4>1 DEF HeadInHand, Drifted
        <3> QED
            BY <2>3, <3>1, <3>2, <3>3, ScanSteps
    <2>4. ASSUME request'.st = "decide" PROVE request'.todo = {}
        <3>1. Scanning'
            BY <2>4 DEF Scanning
        <3> QED
            BY <2>4, <3>1, ScanSteps, LookFacts, TypeParts DEF GateInv
    <2> QED
        BY <2>2, <2>3, <2>4 DEF GateInv
<1> QED
    BY <1>1, <1>2

\* Only the decision of the gate lets an edit pass.
LEMMA PassedByDecide ==
    ASSUME TypeOK, [Next]_vars, Passed
    PROVE  Decide
<1>1. CASE UNCHANGED vars
    BY <1>1 DEF vars, Passed
<1>2. ASSUME NEW r \in Reader, ReadStep(r) PROVE Decide
    BY <1>2, TypeParts, ReadStepType DEF Passed
<1>3. ASSUME NEW kind \in EditKind, NEW p \in Path, StartGate(kind, p)
      PROVE  Decide
    BY <1>3 DEF StartGate, ExecIdle, Passed
<1>4. CASE Look
    <2>1. request.st # "decide"
        BY <1>4, LookFacts, TypeParts
    <2> QED
        BY <2>1 DEF Passed
<1>5. CASE SpendOverride \/ Write \/ HashWritten \/ StoreWritten
    BY <1>5 DEF SpendOverride, Write, HashWritten, StoreWritten, Passed
<1>6. ASSUME NEW a \in Approval, Age(a) \/ Resolve(a) PROVE Decide
    BY <1>6 DEF Age, Resolve, ExecIdle, Passed
<1>7. CASE ListApprovals \/ ContinueAnyway \/ BypassExpires
    BY <1>7 DEF ListApprovals, ExecIdle, ContinueAnyway, BypassExpires, Passed
<1>8. ASSUME NEW w \in Watched, ExternalChange(w) PROVE Decide
    BY <1>8 DEF ExternalChange, Passed
<1> QED
    BY <1>1, <1>2, <1>3, <1>4, <1>5, <1>6, <1>7, <1>8 DEF Next, EditStep

LEMMA DriftStep ==
    ASSUME TypeOK, GateInv, [Next]_vars,
           Passed, ~request.anyway, request.cite # refreshId
    PROVE  due.unedited \cup due.anchored = {}
<1>1. Decide
    BY PassedByDecide
<1>2. request.st = "decide" /\ Scanning
    BY <1>1 DEF Decide, Scanning
<1>3. CASE ~request.drift
    <2>1. \A w \in Due : w # Head /\ w \in request.todo
        BY <1>2, <1>3 DEF GateInv, HeadInHand, FileInHand
    <2>2. request.todo = {}
        BY <1>2 DEF GateInv
    <2> QED
        BY <2>1, <2>2 DEF Due
<1>4. CASE request.drift
    <2>1. \/ request' = [request EXCEPT !.st = "override"]
          \/ Refused /\ UNCHANGED approval
        BY <1>1, <1>4 DEF Decide
    <2>2. request \in RequestState
        BY DEF TypeOK
    <2> QED
        BY <2>1, <2>2 DEF Passed, Refused, IdleRequest, RequestState
<1> QED
    BY <1>3, <1>4

\* What had drifted before the gate began to look, and has been drifted ever
\* since without being both edited and anchored anew meanwhile, stops every edit
\* that has no override, however reads and refreshes of other clients and edits
\* of other programs fall between the steps of the comparison.
THEOREM DriftStops == Spec => DriftIsNotMissed
<1>1. Init => GateInv
    BY DEF Init, GateInv, Due, Scanning, IdleRequest
<1>2. TypeOK /\ TypeOK' /\ GateInv /\ [Next]_vars => GateInv'
    BY GateStep
<1>3. TypeOK /\ GateInv /\ [Next]_vars
        => [Passed /\ ~request.anyway /\ request.cite # refreshId
              => due.unedited \cup due.anchored = {}]_vars
    BY DriftStep
<1> QED
    BY <1>1, <1>2, <1>3, TypeCorrect, PTL DEF Spec, DriftIsNotMissed

-----------------------------------------------------------------------------
(* Approvals implement SupervisedEdit.                                      *)

\* A registry in which only one approval has moved.
LEMMA OneMoves ==
    ASSUME TypeOK, TypeOK', NEW a \in Approval,
           \A b \in Approval : b # a => Stage(approval'[b]) = Stage(approval[b]),
           NEW to, Stage(approval'[a]) = to
    PROVE  Stages' = [Stages EXCEPT ![a] = to]
BY DEF Stages

LEMMA NoneMoves ==
    ASSUME \A b \in Approval : Stage(approval'[b]) = Stage(approval[b])
    PROVE  Stages' = Stages
BY DEF Stages

LEMMA RegistryTypes ==
    ASSUME TypeOK
    PROVE  /\ approval \in [Approval -> ApprovalState]
           /\ \A b \in Approval : Stage(Expired(approval)[b]) = Stage(approval[b])
           /\ Expired(approval) \in [Approval -> ApprovalState]
           /\ \A b \in Approval :
                 /\ Expired(approval)[b].status = "pending" =>
                       approval[b].status = "pending" /\ ~approval[b].old
                 /\ Expired(approval)[b].old = approval[b].old
           /\ request \in RequestState
BY ExpiredFacts DEF TypeOK

\* The gate lets an edit pass: nothing moves, or one edit asks.
LEMMA AdmitRefines ==
    ASSUME TypeOK, TypeOK', Admit, UNCHANGED runs
    PROVE  SE!Next \/ UNCHANGED <<Stages, runs>>
<1>1. CASE request.kind \in {"patch", "write"}
    BY <1>1, NoneMoves DEF Admit
<1>2. CASE request.kind = "confirmed"
    <2> DEFINE fresh == [status |-> "pending", path |-> request.path, old |-> FALSE]
               m == Expired(approval)
    <2>1. PICK a \in Approval : NextApproval(a) /\ approval' = [m EXCEPT ![a] = fresh]
        BY <1>2 DEF Admit
    <2>2. Stage(fresh) = "open"
        BY DEF Stage
    <2>3. Stage(approval[a]) = "unasked"
        BY <2>1 DEF NextApproval, Stage
    <2>4. m \in [Approval -> ApprovalState]
             /\ \A b \in Approval : Stage(m[b]) = Stage(approval[b])
        BY RegistryTypes
    <2> HIDE DEF fresh, m
    <2>5. Stage(approval'[a]) = "open"
        BY <2>1, <2>2, <2>4
    <2>6. \A b \in Approval : b # a => Stage(approval'[b]) = Stage(approval[b])
        BY <2>1, <2>4
    <2>7. Stages' = [Stages EXCEPT ![a] = "open"] /\ Stages[a] = "unasked"
        BY <2>3, <2>5, <2>6, OneMoves DEF Stages
    <2>8. SE!Ask(a)
        BY <2>7 DEF SE!Ask, SE!Move
    <2> QED
        BY <2>8 DEF SE!Next
<1>3. CASE request.kind = "retry"
    <2>1. approval' = Expired(approval)
        BY <1>3 DEF Admit
    <2> QED
        BY <2>1, RegistryTypes, NoneMoves
<1> QED
    BY <1>1, <1>2, <1>3 DEF Admit

\* An answer moves nothing, or settles the edit that was running.
LEMMA FinishRefines ==
    ASSUME TypeOK, TypeOK', request.st \in Editing, UNCHANGED runs,
           NEW status \in {"failed", "executed"}, Finish(status)
    PROVE  SE!Next \/ UNCHANGED <<Stages, runs>>
<1>1. CASE request.kind = "resolve" /\ request.approval \in Approval
    <2> DEFINE i == request.approval
               w == [approval[i] EXCEPT !.status = status]
    <2>1. approval' = [approval EXCEPT ![i] = w]
        BY <1>1 DEF Finish
    <2>2. approval[i].status = "approved" /\ approval[i] \in ApprovalState
        BY <1>1 DEF TypeOK
    <2>3. w.status = status
        BY <2>2 DEF ApprovalState
    <2> HIDE DEF w
    <2>4. Stage(approval[i]) = "running" /\ Stage(w) = "closed"
        BY <2>2, <2>3 DEF Stage
    <2>5. Stage(approval'[i]) = "closed"
        BY <1>1, <2>1, <2>4, RegistryTypes
    <2>6. \A b \in Approval : b # i => Stage(approval'[b]) = Stage(approval[b])
        BY <1>1, <2>1, RegistryTypes
    <2>7. Stages' = [Stages EXCEPT ![i] = "closed"] /\ Stages[i] = "running"
        BY <1>1, <2>4, <2>5, <2>6, OneMoves DEF Stages
    <2>8. SE!Settle(i)
        BY <2>7 DEF SE!Settle, SE!Move
    <2> QED
        BY <1>1, <2>8 DEF SE!Next
<1>2. CASE ~(request.kind = "resolve" /\ request.approval \in Approval)
    <2>1. approval' = approval
        BY <1>2, RegistryTypes DEF Finish
    <2> QED
        BY <2>1, NoneMoves
<1> QED
    BY <1>1, <1>2

LEMMA ResolveRefines ==
    ASSUME TypeOK, TypeOK', NEW a \in Approval, Resolve(a)
    PROVE  SE!Next \/ UNCHANGED <<Stages, runs>>
<1> DEFINE m == Expired(approval)
<1>0. /\ m \in [Approval -> ApprovalState]
      /\ \A b \in Approval : Stage(m[b]) = Stage(approval[b])
      /\ \A b \in Approval :
            /\ m[b].status = "pending" =>
                  approval[b].status = "pending" /\ ~approval[b].old
            /\ m[b].old = approval[b].old
    BY RegistryTypes
<1>1. ResolveIn(m, a)
    BY DEF Resolve
<1> HIDE DEF m
<1>2. ASSUME m[a].status = "pending"
      PROVE  Stages[a] = "open"
    BY <1>0, <1>2 DEF Stages, Stage
<1>3. ASSUME NEW s \in {"approved", "rejected"}, m[a].status = "pending",
             approval' = [m EXCEPT ![a].status = s]
      PROVE  Stages' = [Stages EXCEPT ![a] =
                          IF s = "approved" THEN "running" ELSE "closed"]
    <2> DEFINE w == [m[a] EXCEPT !.status = s]
    <2>1. approval' = [m EXCEPT ![a] = w]
        BY <1>3
    <2>2. w.status = s
        BY <1>0 DEF ApprovalState
    <2> HIDE DEF w
    <2>3. Stage(w) = IF s = "approved" THEN "running" ELSE "closed"
        BY <2>2 DEF Stage
    <2>4. Stage(approval'[a]) = IF s = "approved" THEN "running" ELSE "closed"
        BY <1>0, <2>1, <2>3
    <2>5. \A b \in Approval : b # a => Stage(approval'[b]) = Stage(approval[b])
        BY <1>0, <2>1
    <2> QED
        BY <2>4, <2>5, OneMoves
<1>4. CASE /\ m[a].status = "pending"
           /\ approval' = [m EXCEPT ![a].status = "approved"]
           /\ runs' = [runs EXCEPT ![a] = @ + 1]
    <2>1. SE!Grant(a)
        BY <1>2, <1>3, <1>4 DEF SE!Grant, SE!Move
    <2> QED
        BY <2>1 DEF SE!Next
<1>5. CASE /\ m[a].status = "pending"
           /\ approval' = [m EXCEPT ![a].status = "rejected"]
           /\ UNCHANGED runs
    <2>1. SE!Close(a)
        BY <1>2, <1>3, <1>5 DEF SE!Close, SE!Move
    <2> QED
        BY <2>1 DEF SE!Next
<1>6. CASE approval' = m /\ UNCHANGED runs
    BY <1>0, <1>6, NoneMoves
<1> QED
    BY <1>1, <1>4, <1>5, <1>6 DEF ResolveIn

LEMMA SupervisionStep ==
    ASSUME TypeOK, TypeOK', [Next]_vars
    PROVE  SE!Next \/ UNCHANGED <<Stages, runs>>
<1>1. CASE UNCHANGED <<approval, runs>>
    BY <1>1, NoneMoves
<1>2. ASSUME NEW r \in Reader, ReadStep(r) PROVE UNCHANGED <<approval, runs>>
    BY <1>2, TypeParts, ReadStepType DEF counters
<1>3. CASE Decide
    BY <1>1, <1>3, AdmitRefines DEF Decide, counters
<1>4. CASE SpendOverride
    BY <1>4, AdmitRefines DEF SpendOverride
<1>5. CASE Write
    <2>1. request.st \in Editing /\ UNCHANGED runs
        BY <1>5 DEF Write, Editing, counters
    <2> QED
        BY <1>1, <1>5, <2>1, FinishRefines DEF Write
<1>6. CASE StoreWritten
    <2>1. request.st \in Editing /\ UNCHANGED runs
        BY <1>6 DEF StoreWritten, Editing, counters
    <2> QED
        BY <1>6, <2>1, FinishRefines DEF StoreWritten
<1>7. ASSUME NEW a \in Approval, Age(a)
      PROVE  SE!Next \/ UNCHANGED <<Stages, runs>>
    <2> DEFINE w == [approval[a] EXCEPT !.old = TRUE]
    <2>1. approval' = [approval EXCEPT ![a] = w]
        BY <1>7 DEF Age
    <2>2. w.status = "pending" /\ w.old = TRUE
        BY <1>7, RegistryTypes DEF Age, ApprovalState
    <2> HIDE DEF w
    <2>3. Stage(approval[a]) = "open" /\ Stage(w) = "closed"
        BY <1>7, <2>2 DEF Age, Stage
    <2>4. Stage(approval'[a]) = "closed"
        BY <2>1, <2>3, RegistryTypes
    <2>5. \A b \in Approval : b # a => Stage(approval'[b]) = Stage(approval[b])
        BY <2>1, RegistryTypes
    <2>6. Stages' = [Stages EXCEPT ![a] = "closed"] /\ Stages[a] = "open"
        BY <2>3, <2>4, <2>5, OneMoves DEF Stages
    <2>7. SE!Close(a)
        BY <1>7, <2>6 DEF SE!Close, SE!Move, Age, counters
    <2> QED
        BY <2>7 DEF SE!Next
<1>8. ASSUME NEW a \in Approval, Resolve(a)
      PROVE  SE!Next \/ UNCHANGED <<Stages, runs>>
    BY <1>8, ResolveRefines
<1>9. CASE ListApprovals
    <2>1. approval' = Expired(approval) /\ UNCHANGED runs
        BY <1>9 DEF ListApprovals, counters
    <2> QED
        BY <2>1, RegistryTypes, NoneMoves
<1>10. ASSUME NEW kind \in EditKind, NEW p \in Path, StartGate(kind, p)
       PROVE  UNCHANGED <<approval, runs>>
    BY <1>10 DEF StartGate, counters
<1>11. CASE \/ Look \/ HashWritten \/ ContinueAnyway \/ BypassExpires
            \/ \E w \in Watched : ExternalChange(w)
    <2>1. UNCHANGED <<approval, runs>>
        BY <1>11, LookFacts, TypeParts DEF HashWritten, ContinueAnyway, BypassExpires,
                     ExternalChange, counters
    <2> QED
        BY <1>1, <2>1
<1>12. CASE UNCHANGED vars
    BY <1>1, <1>12 DEF vars, counters
<1> QED
    BY <1>1, <1>2, <1>3, <1>4, <1>5, <1>6, <1>7, <1>8, <1>9, <1>10, <1>11,
       <1>12 DEF Next, EditStep

\* A destructive edit runs once for an approval that was granted in time, and
\* never after it was rejected, after its time is over or twice.
THEOREM EditsAreSupervised == Spec => ImplementsSupervisedEdit
<1>1. Init => SE!Init
    BY DEF Init, SE!Init, Stages, Stage, NoApproval
<1>2. TypeOK /\ TypeOK' /\ [Next]_vars => [SE!Next]_(SE!vars)
    BY SupervisionStep DEF SE!vars
<1> QED
    BY <1>1, <1>2, TypeCorrect, PTL DEF Spec, ImplementsSupervisedEdit, SE!Spec
=============================================================================
