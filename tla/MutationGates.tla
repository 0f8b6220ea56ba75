---------------------------- MODULE MutationGates ---------------------------
(***************************************************************************)
(* The gates an edit passes before it reaches the workspace: the drift     *)
(* gate of MacControlWorkspaceState, with its anchors, contextRefreshId    *)
(* and continueAnyway, and the registry of MacControlApprovalService.      *)
(*                                                                         *)
(* The gate runs on the serial execution queue, which serves one request   *)
(* to its end before the next, and compares the workspace with its anchors *)
(* one file at a time: the HEAD is read first and its anchor last, and of  *)
(* each file the anchor is taken before the file is hashed.  Reads,        *)
(* refreshAnchor and continueAnyway change anchors and flags from the      *)
(* concurrent read queue meanwhile, without a lock, and other programs     *)
(* edit files and move the git HEAD at any time.  Autonomy is at its       *)
(* default of 3: a destructive edit is always parked for an approval, and  *)
(* approval.resolve runs it on the main queue, past the gate.              *)
(***************************************************************************)
EXTENDS Naturals, FiniteSets

CONSTANTS
    Reader,        \* blocks of the concurrent read queue
    Path,          \* files of the workspace
    Head,          \* the git HEAD, anchored like a file
    Content,       \* what a file or the HEAD may be
    NoHash,        \* "no anchor", "nothing hashed"
    NoPath,        \* "no file"
    MaxRefresh,    \* bound of the model on _contextRefreshId
    MaxApprovals,  \* bound of the model on _approvalCounter
    MaxOverrides   \* bound of the model on calls of continueAnyway

ASSUME ConstantsAssumption ==
    /\ Head \notin Path
    /\ NoHash \notin Content
    /\ NoPath \notin Path \cup {Head}
    /\ MaxRefresh \in Nat
    /\ MaxApprovals \in Nat
    /\ MaxOverrides \in Nat

VARIABLES
    disk,       \* content of every file, and the git HEAD
    tracked,    \* _trackedFileHashes, and _anchorGitHead for the HEAD
    refreshId,  \* _contextRefreshId
    bypass,     \* _continueAnywayActive and whether it has expired
    block,      \* the file.read or refreshAnchor of each read-queue block
    request,    \* the request that the execution queue is serving
    approval,   \* _approvals; 0 stands for "no approval"
    due,        \* history: what the gate has to find (see RecordDue)
    given,      \* history: calls of continueAnyway
    used,       \* history: edits let through by such a call
    runs        \* history: how often each approved edit was run

gateVars == <<tracked, refreshId, bypass, block>>
counters == <<given, used, runs>>
vars == <<disk, gateVars, request, approval, due, counters>>

-----------------------------------------------------------------------------
Watched == Path \cup {Head}
Approval == 1..MaxApprovals

Tracked == {w \in Watched : tracked[w] # NoHash}
Drifted == {w \in Tracked : tracked[w] # disk[w]}

IdleBlock ==
    [pc |-> "idle", refresh |-> FALSE, todo |-> {}, path |-> NoPath,
     hash |-> NoHash]

IdleRequest ==
    [st |-> "idle", kind |-> "write", path |-> NoPath, cite |-> 0,
     anyway |-> FALSE, approval |-> 0, head |-> NoHash, todo |-> {},
     file |-> NoPath, anchor |-> NoHash, drift |-> FALSE, hash |-> NoHash]

NoApproval == [status |-> "none", path |-> NoPath, old |-> FALSE]

\* An edit is a patch.apply that needs no confirmation, one that does, or a
\* file.write; a retry is a confirmed patch sent again with its approvalId.
EditKind == {"patch", "confirmed", "write", "retry"}

ExecIdle == request.st = "idle"
Refused == request' = IdleRequest

\* statusPayload has begun to look and the gate has not decided yet.
Scanning == request.st \in {"scan", "look", "hash", "decide"}

\* The history, kept by every action: what had drifted when the gate began to look and
\* has been drifted ever since, and was not edited in all that time, or was not
\* anchored anew.
RecordDue ==
    due' = IF ~Scanning' THEN [unedited |-> {}, anchored |-> {}]
           ELSE IF ~Scanning THEN [unedited |-> Drifted', anchored |-> Drifted']
           ELSE [unedited |-> {w \in due.unedited \cap Drifted' : disk'[w] = disk[w]},
                 anchored |-> {w \in due.anchored \cap Drifted' :
                                 tracked'[w] = tracked[w]}]

\* The number that _approvalCounter gives out next.
NextApproval(a) ==
    /\ approval[a].status = "none"
    /\ \A b \in 1..(a - 1) : approval[b].status # "none"

Init ==
    /\ disk \in [Watched -> Content]
    /\ tracked = [w \in Watched |-> NoHash]
    /\ refreshId = 1
    /\ bypass = "off"
    /\ block = [r \in Reader |-> IdleBlock]
    /\ request = IdleRequest
    /\ approval = [a \in Approval |-> NoApproval]
    /\ due = [unedited |-> {}, anchored |-> {}]
    /\ given = 0
    /\ used = 0
    /\ runs = [a \in Approval |-> 0]

-----------------------------------------------------------------------------
(* The read queue.                                                          *)

\* file.read of p: the text is in hand, its hash is still to be tracked.
ReadFile(r, p) ==
    /\ block[r].pc = "idle"
    /\ block' = [block EXCEPT ![r] = [IdleBlock EXCEPT !.pc = "hash", !.todo = {p}]]
    /\ UNCHANGED <<disk, tracked, refreshId, bypass, request, approval, counters>>
    /\ RecordDue

\* refreshAnchor copies the names of the files that are tracked now.
RefreshAnchor(r) ==
    /\ block[r].pc = "idle"
    /\ LET files == Tracked \ {Head}
       IN  block' = [block EXCEPT ![r] =
                       [IdleBlock EXCEPT
                          !.pc = IF files = {} THEN "count" ELSE "hash",
                          !.refresh = TRUE, !.todo = files]]
    /\ UNCHANGED <<disk, tracked, refreshId, bypass, request, approval, counters>>
    /\ RecordDue

\* trackHashesForPaths: the next file is hashed ...
HashFile(r) ==
    /\ block[r].pc = "hash"
    /\ \E p \in block[r].todo :
         block' = [block EXCEPT ![r] =
                     [@ EXCEPT !.pc = "store", !.path = p, !.hash = disk[p]]]
    /\ UNCHANGED <<disk, tracked, refreshId, bypass, request, approval, counters>>
    /\ RecordDue

\* ... and the hash is stored, whatever the file has become in between.
StoreHash(r) ==
    /\ block[r].pc = "store"
    /\ LET b == block[r]
           rest == b.todo \ {b.path}
       IN  /\ tracked' = [tracked EXCEPT ![b.path] = b.hash]
           /\ block' = [block EXCEPT ![r] =
                          IF rest # {}
                          THEN [b EXCEPT !.pc = "hash", !.todo = rest]
                          ELSE IF b.refresh
                          THEN [IdleBlock EXCEPT !.pc = "count", !.refresh = TRUE]
                          ELSE IdleBlock]
    /\ UNCHANGED <<disk, refreshId, bypass, request, approval, counters>>
    /\ RecordDue

\* refreshAnchor counts itself ...
CountRefresh(r) ==
    /\ block[r].pc = "count"
    /\ refreshId < MaxRefresh
    /\ refreshId' = refreshId + 1
    /\ block' = [block EXCEPT ![r].pc = "head"]
    /\ UNCHANGED <<disk, tracked, bypass, request, approval, counters>>
    /\ RecordDue

\* ... asks git for the HEAD ...
ReadHead(r) ==
    /\ block[r].pc = "head"
    /\ block' = [block EXCEPT ![r] = [@ EXCEPT !.pc = "anchor", !.hash = disk[Head]]]
    /\ UNCHANGED <<disk, tracked, refreshId, bypass, request, approval, counters>>
    /\ RecordDue

\* ... and anchors what git said before it answers.
AnchorHead(r) ==
    /\ block[r].pc = "anchor"
    /\ tracked' = [tracked EXCEPT ![Head] = block[r].hash]
    /\ block' = [block EXCEPT ![r] = IdleBlock]
    /\ UNCHANGED <<disk, refreshId, bypass, request, approval, counters>>
    /\ RecordDue

\* workspace.continueAnyway.
ContinueAnyway ==
    /\ given < MaxOverrides
    /\ bypass' = "active"
    /\ given' = given + 1
    /\ UNCHANGED <<disk, tracked, refreshId, block, request, approval, used, runs>>
    /\ RecordDue

\* Its 300 seconds pass.
BypassExpires ==
    /\ bypass = "active"
    /\ bypass' = "expired"
    /\ UNCHANGED <<disk, tracked, refreshId, block, request, approval, counters>>
    /\ RecordDue

-----------------------------------------------------------------------------
(* The gates of processRequest, on the execution queue.                     *)

\* The next edit of any client is taken from the queue, the coherence gate lets
\* it pass, and statusPayload asks git for the HEAD.  The client may cite any
\* contextRefreshId up to the present one: workspace.status, and the answer to an
\* edit that was blocked, have shown them all.
StartGate(kind, p) ==
    /\ ExecIdle
    /\ kind = "confirmed" => \E a \in Approval : NextApproval(a)
    /\ \E cite \in 0..refreshId, anyway \in BOOLEAN :
         request' = [IdleRequest EXCEPT !.st = "scan", !.kind = kind,
                       !.path = p, !.cite = cite, !.anyway = anyway,
                       !.head = disk[Head]]
    /\ UNCHANGED <<disk, gateVars, approval, counters>>
    /\ RecordDue

\* statusPayload copies the names of the files that are tracked now.
ListTracked ==
    /\ request.st = "scan"
    /\ request' = [request EXCEPT !.st = "look", !.todo = Tracked \ {Head}]
    /\ UNCHANGED <<disk, gateVars, approval, counters>>
    /\ RecordDue

\* It takes the anchor of the next file ...
TakeAnchor ==
    /\ request.st = "look"
    /\ \E p \in request.todo :
         request' = [request EXCEPT !.st = "hash", !.todo = @ \ {p},
                                    !.file = p, !.anchor = tracked[p]]
    /\ UNCHANGED <<disk, gateVars, approval, counters>>
    /\ RecordDue

\* ... then hashes the file and compares the two, whatever the anchor is by now.
CompareFile ==
    /\ request.st = "hash"
    /\ request' = [request EXCEPT !.st = "look", !.file = NoPath, !.anchor = NoHash,
                                  !.drift = @ \/ request.anchor # disk[request.file]]
    /\ UNCHANGED <<disk, gateVars, approval, counters>>
    /\ RecordDue

HeadDrifted == tracked[Head] \notin {NoHash, request.head}

\* Mutated: a HEAD that has not moved clears what was found in the files.
CompareHeadForgets ==
    /\ request.st = "look"
    /\ request.todo = {}
    /\ request' = [request EXCEPT !.st = "decide", !.drift = HeadDrifted]
    /\ UNCHANGED <<disk, gateVars, approval, counters>>
    /\ RecordDue

\* At last the HEAD that was read first is compared with the anchor it has now.
CompareHead ==
    /\ request.st = "look"
    /\ request.todo = {}
    /\ request' = [request EXCEPT !.st = "decide", !.drift = @ \/ HeadDrifted]
    /\ UNCHANGED <<disk, gateVars, approval, counters>>
    /\ RecordDue

\* expireStaleApprovals, which every method of the registry calls first.
Expired(m) ==
    [a \in Approval |->
       IF m[a].status = "pending" /\ m[a].old
       THEN [m[a] EXCEPT !.status = "expired"] ELSE m[a]]

\* The drift gate lets the edit pass: a destructive one is parked, and a retry
\* is refused, because the parked parameters hold no approvalId and so never
\* have the hash of the ones that do.
Admit ==
    \/ /\ request.kind \in {"patch", "write"}
       /\ request' = [request EXCEPT !.st = "admitted"]
       /\ UNCHANGED approval
    \/ /\ request.kind = "confirmed"
       /\ \E a \in Approval :
            /\ NextApproval(a)
            /\ approval' = [Expired(approval) EXCEPT ![a] =
                              [status |-> "pending", path |-> request.path,
                               old |-> FALSE]]
       /\ Refused
    \/ /\ request.kind = "retry"
       /\ approval' = Expired(approval)
       /\ Refused

\* validateContextRefreshForParams.
Decide ==
    /\ request.st = "decide"
    /\ LET q == request
       IN  \/ /\ ~q.drift \/ q.anyway
              /\ Admit
           \/ /\ q.drift /\ ~q.anyway /\ bypass = "active"
              /\ request' = [request EXCEPT !.st = "override"]
              /\ UNCHANGED approval
           \/ /\ q.drift /\ ~q.anyway /\ bypass # "active"
              /\ q.cite = refreshId
              /\ Admit
           \/ /\ q.drift /\ ~q.anyway /\ bypass # "active"
              /\ q.cite # refreshId
              /\ Refused
              /\ UNCHANGED approval
    /\ UNCHANGED <<disk, gateVars, counters>>
    /\ RecordDue

\* Mutated: the override is not taken back.
SpendOverrideKeepsIt ==
    /\ request.st = "override"
    /\ used' = used + 1
    /\ Admit
    /\ UNCHANGED <<disk, gateVars, given, runs>>
    /\ RecordDue

\* The override is taken back, and with it one that came in meanwhile.
SpendOverride ==
    /\ request.st = "override"
    /\ bypass' = "off"
    /\ used' = used + 1
    /\ Admit
    /\ UNCHANGED <<disk, tracked, refreshId, block, given, runs>>
    /\ RecordDue

-----------------------------------------------------------------------------
(* Approvals.                                                               *)

\* 30 minutes pass.
Age(a) ==
    /\ approval[a].status = "pending"
    /\ ~approval[a].old
    /\ approval' = [approval EXCEPT ![a].old = TRUE]
    /\ UNCHANGED <<disk, gateVars, request, counters>>
    /\ RecordDue

\* approval.list and approval.get.
ListApprovals ==
    /\ ExecIdle
    /\ approval' = Expired(approval)
    /\ UNCHANGED <<disk, gateVars, request, counters>>
    /\ RecordDue

\* resolveApproval with the registry m: what is pending is granted and its
\* edit is run, or it is rejected.
ResolveIn(m, a) ==
    \/ /\ m[a].status = "pending"
       /\ approval' = [m EXCEPT ![a].status = "approved"]
       /\ runs' = [runs EXCEPT ![a] = @ + 1]
       /\ request' = [IdleRequest EXCEPT !.st = "admitted", !.kind = "resolve",
                         !.path = m[a].path, !.approval = a]
    \/ /\ m[a].status = "pending"
       /\ approval' = [m EXCEPT ![a].status = "rejected"]
       /\ UNCHANGED <<request, runs>>
    \/ /\ m[a].status # "pending"
       /\ approval' = m
       /\ UNCHANGED <<request, runs>>

\* Mutated: what is stale is not expired first.
ResolveStale(a) ==
    /\ ExecIdle
    /\ approval[a].status # "none"
    /\ ResolveIn(approval, a)
    /\ UNCHANGED <<disk, gateVars, given, used>>
    /\ RecordDue

\* approval.resolve passes no gate and runs on the main queue.
Resolve(a) ==
    /\ ExecIdle
    /\ approval[a].status # "none"
    /\ ResolveIn(Expired(approval), a)
    /\ UNCHANGED <<disk, gateVars, given, used>>
    /\ RecordDue

-----------------------------------------------------------------------------
(* The edit itself, on the main queue.                                      *)

\* Mutated: an approval whose edit failed stays approved.
FinishForgets(status) ==
    /\ Refused
    /\ approval' = IF request.kind = "resolve" /\ status # "failed"
                   THEN [approval EXCEPT ![request.approval].status = status]
                   ELSE approval

\* The request is answered; an approval keeps how its edit ended.
Finish(status) ==
    /\ Refused
    /\ approval' = IF request.kind = "resolve"
                   THEN [approval EXCEPT ![request.approval].status = status]
                   ELSE approval

\* The file is written, or the edit turns out to be impossible.
Write ==
    /\ request.st = "admitted"
    /\ LET q == request
       IN  \/ /\ Finish("failed")
              /\ UNCHANGED disk
           \/ /\ \E v \in Content : disk' = [disk EXCEPT ![q.path] = v]
              /\ IF q.kind = "write"
                 THEN Finish("executed")
                 ELSE /\ request' = [request EXCEPT !.st = "written"]
                      /\ UNCHANGED approval
    /\ UNCHANGED <<gateVars, counters>>
    /\ RecordDue

\* A patch anchors the file it wrote, again in two steps; file.write does not.
HashWritten ==
    /\ request.st = "written"
    /\ request' = [request EXCEPT !.st = "hashed",
                                  !.hash = disk[request.path]]
    /\ UNCHANGED <<disk, gateVars, approval, counters>>
    /\ RecordDue

StoreWritten ==
    /\ request.st = "hashed"
    /\ tracked' = [tracked EXCEPT ![request.path] = request.hash]
    /\ Finish("executed")
    /\ UNCHANGED <<disk, refreshId, bypass, block, counters>>
    /\ RecordDue

-----------------------------------------------------------------------------
\* A person or another program edits a file, or moves the HEAD.
ExternalChange(w) ==
    /\ \E v \in Content \ {disk[w]} : disk' = [disk EXCEPT ![w] = v]
    /\ UNCHANGED <<gateVars, request, approval, counters>>
    /\ RecordDue

ReadStep(r) ==
    \/ \E p \in Path : ReadFile(r, p)
    \/ RefreshAnchor(r)
    \/ HashFile(r) \/ StoreHash(r)
    \/ CountRefresh(r) \/ ReadHead(r) \/ AnchorHead(r)

Look == ListTracked \/ TakeAnchor \/ CompareFile \/ CompareHead

EditStep ==
    \/ \E kind \in EditKind, p \in Path : StartGate(kind, p)
    \/ Look \/ Decide \/ SpendOverride
    \/ Write \/ HashWritten \/ StoreWritten

Next ==
    \/ \E r \in Reader : ReadStep(r)
    \/ EditStep
    \/ \E a \in Approval : Age(a) \/ Resolve(a)
    \/ ListApprovals
    \/ ContinueAnyway \/ BypassExpires
    \/ \E w \in Watched : ExternalChange(w)

Spec == Init /\ [][Next]_vars

-----------------------------------------------------------------------------
(* Properties.                                                              *)

BlockState ==
    [pc : {"idle", "hash", "store", "count", "head", "anchor"}, refresh : BOOLEAN,
     todo : SUBSET Path, path : Path \cup {NoPath}, hash : Content \cup {NoHash}]

RequestState ==
    [st : {"idle", "scan", "look", "hash", "decide", "override", "admitted",
           "written", "hashed"},
     kind : EditKind \cup {"resolve"},
     path : Path \cup {NoPath}, cite : Nat, anyway : BOOLEAN,
     approval : Approval \cup {0}, head : Content \cup {NoHash},
     todo : SUBSET Path, file : Path \cup {NoPath},
     anchor : Content \cup {NoHash}, drift : BOOLEAN,
     hash : Content \cup {NoHash}]

\* The gates are behind the request.
Editing == {"admitted", "written", "hashed"}

\* "executed" is the code's "approved" once there is an executionResult.
ApprovalState ==
    [status : {"none", "pending", "approved", "rejected", "expired",
               "failed", "executed"},
     path : Path \cup {NoPath}, old : BOOLEAN]

\* Every variable keeps its type; a request under way and an approval name a
\* file, and an approval is approved exactly while its edit runs.
TypeOK ==
    /\ disk \in [Watched -> Content]
    /\ tracked \in [Watched -> Content \cup {NoHash}]
    /\ refreshId \in Nat \ {0}
    /\ bypass \in {"off", "active", "expired"}
    /\ block \in [Reader -> BlockState]
    /\ request \in RequestState
    /\ approval \in [Approval -> ApprovalState]
    /\ due \in [unedited : SUBSET Watched, anchored : SUBSET Watched]
    /\ given \in Nat /\ used \in Nat
    /\ runs \in [Approval -> Nat]
    /\ \A r \in Reader : block[r].pc = "store" => block[r].path \in Path
    /\ request.st = "hash" => request.file \in Path
    /\ request.st # "idle" => request.path \in Path
    /\ \A a \in Approval :
          approval[a].status = "approved" <=>
             request.st \in Editing /\ request.kind = "resolve"
                /\ request.approval = a
    /\ \A a \in Approval : approval[a].status # "none" => approval[a].path \in Path

\* The drift gate lets the edit go on to the approval or to the kernel.
Passed ==
    /\ request.st = "decide"
    /\ \/ request'.st = "admitted"
       \/ request'.st = "idle" /\ approval' # approval

\* The gate looks at one file after the other, and at each in two steps, while
\* reads and refreshes replace the anchors and other programs the files; still,
\* what had drifted before it began and did not cease to be drifted stops every
\* edit that neither says continueAnyway nor cites the current contextRefreshId.
\* It can be missed in one way: edited and anchored anew, both, while the gate
\* was looking, so that the file it hashes fits the anchor it took before.
DriftIsNotMissed ==
    [][Passed /\ ~request.anyway /\ request.cite # refreshId
         => due.unedited \cup due.anchored = {}]_vars

\* workspace.continueAnyway is a one-shot override: however calls, expiries
\* and edits of several clients overlap, no more edits use it than calls were
\* made.
OverrideIsOneShot == used <= given

\* A destructive edit runs once for an approval that was granted in time and
\* not at all otherwise, whoever resolves it, how often and how late: the
\* gates implement SupervisedEdit.
Stage(m) ==
    CASE m.status = "none" -> "unasked"
      [] m.status = "pending" /\ ~m.old -> "open"
      [] m.status = "approved" -> "running"
      [] OTHER -> "closed"
Stages == [a \in Approval |-> Stage(approval[a])]
SE == INSTANCE SupervisedEdit WITH stage <- Stages
ImplementsSupervisedEdit == SE!Spec

\* docs/workspace-drift.md:36 says that when the world changed, edits are
\* blocked "until context is refreshed": an edit without an override would not
\* pass while a file is drifted that no refresh or read has anchored since
\* before the gate began to look.
DriftBlocksUntilRefreshed ==
    [][Passed /\ ~request.anyway => due.unedited \cup due.anchored = {}]_vars
=============================================================================
