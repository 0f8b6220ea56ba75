----------------------------- MODULE Coherence ------------------------------
(***************************************************************************)
(* Coherence tokens of the DietCode kernel: MacControlCoherenceRegistry,   *)
(* the revision counters of MacControlWorkspaceState, the reads that issue *)
(* tokens and the patch.apply pipeline that checks them.                   *)
(*                                                                         *)
(* Reads run on a concurrent queue while mutations run on the serial       *)
(* execution queue and the main queue, and the registry has no lock.  A    *)
(* read is therefore three steps (text, token record, anchors and store)   *)
(* that interleave with everything else; the body of one registry method   *)
(* between two file reads is one step.  A patch is validated twice: by the *)
(* request gate on the execution queue and again on the main queue, after  *)
(* an approval that may take arbitrarily long.                             *)
(***************************************************************************)
EXTENDS Integers, FiniteSets

CONSTANTS
    Task,         \* task identifiers (the taskId of an RPC)
    Editor,       \* the tasks that submit patches; the others only read
    Path,         \* files of the workspace
    Shared,       \* the files that people and other programs edit too
    Content,      \* what a file may hold, up to equality of its hash
    Reader,       \* blocks of the concurrent read queue
    NoTask,       \* "no such token"
    NoHash,       \* "no anchor", "no expectBeforeHash", "nothing read"
    MaxTasks,     \* kCoherenceMaxTasks
    MaxAnchors,   \* kCoherenceMaxAnchorsPerTask
    MaxTokens,    \* bound of the model on _tokenSeq
    MaxRevision,  \* bound of the model on _revisionCounter
    MaxVerify     \* bound of the model on _verifyRevisionCounter

ASSUME ConstantsAssumption ==
    /\ NoTask \notin Task
    /\ NoHash \notin Content
    /\ Editor \subseteq Task
    /\ Shared \subseteq Path
    /\ IsFiniteSet(Task)
    /\ IsFiniteSet(Path)
    /\ MaxTasks \in Nat \ {0}
    /\ MaxAnchors \in Nat
    /\ MaxTokens \in Nat
    /\ MaxRevision \in Nat
    /\ MaxVerify \in Nat

VARIABLES
    disk,      \* content of every file
    rev,       \* _revisionCounter
    verify,    \* _verifyRevisionCounter
    registry,  \* _tokenSeq, _tokens, _taskToTokenId and _taskOrder
    anchors,   \* the anchors dictionary of every token, shared by its copies
    reader,    \* the read RPC each read-queue block is executing
    known,     \* what the client of each task last received
    request    \* the patch.apply in flight of each task

vars == <<disk, rev, verify, registry, anchors, reader, known, request>>

-----------------------------------------------------------------------------
TokenId == 1..MaxTokens
NoToken == 0

Token == [task : Task \cup {NoTask}, verify : Nat, expired : BOOLEAN]
Absent == [task |-> NoTask, verify |-> 0, expired |-> FALSE]

\* taskOrder[t] is the number of the token with which t joined _taskOrder and
\* 0 when t is not in it: the array lists its tasks in ascending order.
Registry ==
    [seq : 0..MaxTokens,
     tokens : [TokenId -> Token],
     taskToken : [Task -> 0..MaxTokens],
     taskOrder : [Task -> 0..MaxTokens]]

EmptyRegistry ==
    [seq |-> 0,
     tokens |-> [id \in TokenId |-> Absent],
     taskToken |-> [t \in Task |-> NoToken],
     taskOrder |-> [t \in Task |-> 0]]

NoAnchors == [p \in Path |-> NoHash]
Anchored(m) == {p \in Path : m[p] # NoHash}

Live(g, id) == g.tokens[id].task # NoTask
Queued(g) == {t \in Task : g.taskOrder[t] # 0}

-----------------------------------------------------------------------------
(* The registry's own methods, as functions of its state.                   *)

\* Some token that maps back to t has passed its expiry.
Lapsed(g, t) ==
    \E id \in TokenId :
        /\ g.tokens[id].expired
        /\ g.tokens[id].task = t
        /\ g.taskToken[t] = id

\* Mutated: the task stays in _taskOrder.
PruneForgetsOrder(g) ==
    [g EXCEPT
        !.tokens = [id \in TokenId |->
                      IF g.tokens[id].expired THEN Absent ELSE g.tokens[id]],
        !.taskToken = [t \in Task |->
                         IF Lapsed(g, t) THEN NoToken ELSE g.taskToken[t]]]

PruneExpired(g) ==
    [seq |-> g.seq,
     tokens |-> [id \in TokenId |->
                   IF g.tokens[id].expired THEN Absent ELSE g.tokens[id]],
     taskToken |-> [t \in Task |->
                      IF Lapsed(g, t) THEN NoToken ELSE g.taskToken[t]],
     taskOrder |-> [t \in Task |->
                      IF Lapsed(g, t) THEN 0 ELSE g.taskOrder[t]]]

\* Mutated: the last task of _taskOrder instead of the first.
Newest(g) ==
    CHOOSE t \in Queued(g) :
        \A u \in Queued(g) : g.taskOrder[t] >= g.taskOrder[u]

Oldest(g) ==
    CHOOSE t \in Queued(g) :
        \A u \in Queued(g) : g.taskOrder[t] <= g.taskOrder[u]

DropTask(g, t) ==
    [seq |-> g.seq,
     tokens |-> [id \in TokenId |->
                   IF id = g.taskToken[t] THEN Absent ELSE g.tokens[id]],
     taskToken |-> [g.taskToken EXCEPT ![t] = NoToken],
     taskOrder |-> [g.taskOrder EXCEPT ![t] = 0]]

\* The loop of the code runs at most once: RegistryConsistent keeps the
\* number of queued tasks at MaxTasks or less.
EvictIfNeeded(g) ==
    IF Cardinality(Queued(g)) >= MaxTasks THEN DropTask(g, Oldest(g)) ELSE g

Fresh(t, v) == [task |-> t, verify |-> v, expired |-> FALSE]

\* Mutated: the increment of _tokenSeq is lost.
CreateTokenKeepsSeq(g, t, v) ==
    LET id == g.seq + 1
    IN  [seq |-> g.seq,
         tokens |-> [g.tokens EXCEPT ![id] = Fresh(t, v)],
         taskToken |-> [g.taskToken EXCEPT ![t] = id],
         taskOrder |-> IF g.taskOrder[t] = 0
                       THEN [g.taskOrder EXCEPT ![t] = id] ELSE g.taskOrder]

CreateToken(g, t, v) ==
    LET id == g.seq + 1
    IN  [seq |-> id,
         tokens |-> [g.tokens EXCEPT ![id] = Fresh(t, v)],
         taskToken |-> [g.taskToken EXCEPT ![t] = id],
         taskOrder |-> IF g.taskOrder[t] = 0
                       THEN [g.taskOrder EXCEPT ![t] = id] ELSE g.taskOrder]

HasRecord(g, t) ==
    /\ g.taskToken[t] # NoToken
    /\ Live(g, g.taskToken[t])

\* A record that exists is copied and only stored later; a new one is entered
\* in _tokens at once.
TokenRecordForTask(g, t, v) ==
    IF HasRecord(g, t) THEN g ELSE CreateToken(EvictIfNeeded(g), t, v)

StoreRecord(g, id, t, v) == [g EXCEPT !.tokens[id] = Fresh(t, v)]

CanIssue(g, t) == HasRecord(g, t) \/ g.seq < MaxTokens

\* A token that is new has an empty dictionary of its own.
AnchorsWith(h) ==
    IF h.seq > registry.seq THEN [anchors EXCEPT ![h.seq] = NoAnchors]
    ELSE anchors

-----------------------------------------------------------------------------
IdleReader ==
    [pc |-> "idle", task |-> NoTask, path |-> NoHash, text |-> NoHash,
     rev |-> 0, verify |-> 0, tok |-> NoToken]

NothingKnown == [tok |-> NoToken, rev |-> 0, path |-> NoHash, text |-> NoHash]

IdleRequest ==
    [st |-> "idle", path |-> NoHash, tok |-> NoToken, rev |-> 0,
     before |-> NoHash, base |-> NoHash, text |-> NoHash]

OnKernel == {"onMain", "validated", "checked", "written"}

\* The serial execution queue runs one request to its end: while a mutation
\* waits for the main queue no other method that edits can start.
ExecIdle == \A t \in Task : request[t].st \notin OnKernel

Init ==
    /\ disk \in [Path -> Content]
    /\ rev = 1
    /\ verify = 0
    /\ registry = EmptyRegistry
    /\ anchors = [id \in TokenId |-> NoAnchors]
    /\ reader = [r \in Reader |-> IdleReader]
    /\ known = [t \in Task |-> NothingKnown]
    /\ request = [t \in Task |-> IdleRequest]

-----------------------------------------------------------------------------
(* file.read with a taskId, on the concurrent read queue.                   *)

ReadBegin(r, t, p) ==
    /\ reader[r].pc = "idle"
    /\ reader' = [reader EXCEPT ![r] =
                    [pc |-> "read", task |-> t, path |-> p, text |-> disk[p],
                     rev |-> 0, verify |-> 0, tok |-> NoToken]]
    /\ UNCHANGED <<disk, rev, verify, registry, anchors, known, request>>

\* The revisions are captured here, after the text.
IssueBegin(r) ==
    /\ reader[r].pc = "read"
    /\ LET t == reader[r].task
           g == PruneExpired(registry)
           h == TokenRecordForTask(g, t, verify)
       IN  /\ CanIssue(g, t)
           /\ registry' = h
           /\ anchors' = AnchorsWith(h)
           /\ reader' = [reader EXCEPT ![r] =
                           [@ EXCEPT !.pc = "issue", !.rev = rev,
                                     !.verify = verify,
                                     !.tok = h.taskToken[t]]]
    /\ UNCHANGED <<disk, rev, verify, known, request>>

\* Which anchor is dropped at the cap follows the order of a hash table.
Capped(m) ==
    {[p \in Path |-> IF p \in kept THEN m[p] ELSE NoHash] :
        kept \in {k \in SUBSET Anchored(m) :
                    Cardinality(k) = IF Cardinality(Anchored(m)) > MaxAnchors
                                     THEN MaxAnchors
                                     ELSE Cardinality(Anchored(m))}}

\* The file is hashed again, the record is stored and the response sent.
IssueEnd(r) ==
    /\ reader[r].pc = "issue"
    /\ LET w == reader[r]
       IN  /\ \E m \in Capped([anchors[w.tok] EXCEPT ![w.path] = disk[w.path]]) :
                anchors' = [anchors EXCEPT ![w.tok] = m]
           /\ registry' = StoreRecord(registry, w.tok, w.task, w.verify)
           /\ known' = [known EXCEPT ![w.task] =
                          [tok |-> w.tok, rev |-> w.rev,
                           path |-> w.path, text |-> w.text]]
    /\ reader' = [reader EXCEPT ![r] = IdleReader]
    /\ UNCHANGED <<disk, rev, verify, request>>

\* Mutated: the record goes under the token number the client holds.
StatusTrustsClient(t) ==
    /\ LET g == PruneExpired(registry)
           h == TokenRecordForTask(g, t, verify)
           id == IF known[t].tok # NoToken THEN known[t].tok ELSE h.taskToken[t]
       IN  /\ CanIssue(g, t)
           /\ registry' = StoreRecord(h, id, t, verify)
           /\ anchors' = AnchorsWith(h)
           /\ known' = [known EXCEPT ![t] = [@ EXCEPT !.tok = id, !.rev = rev]]
    /\ UNCHANGED <<disk, rev, verify, reader, request>>

\* workspace.status with a taskId: revisions of the record are refreshed, its
\* expiry and anchors are not.
Status(t) ==
    /\ LET g == PruneExpired(registry)
           h == TokenRecordForTask(g, t, verify)
           id == h.taskToken[t]
       IN  /\ CanIssue(g, t)
           /\ registry' = StoreRecord(h, id, t, verify)
           /\ anchors' = AnchorsWith(h)
           /\ known' = [known EXCEPT ![t] = [@ EXCEPT !.tok = id, !.rev = rev]]
    /\ UNCHANGED <<disk, rev, verify, reader, request>>

\* The expiry of a token passes; it stays in _tokens until the next prune.
Expire(id) ==
    /\ Live(registry, id)
    /\ ~registry.tokens[id].expired
    /\ registry' = [registry EXCEPT !.tokens[id].expired = TRUE]
    /\ UNCHANGED <<disk, rev, verify, anchors, reader, known, request>>

-----------------------------------------------------------------------------
(* patch.apply with a taskId.                                               *)

\* The client freezes what it knows into the parameters of the call.
Submit(t, p) ==
    /\ request[t].st = "idle"
    /\ \E h \in {NoHash, disk[p]} :
         request' = [request EXCEPT ![t] =
                      [st |-> "sent", path |-> p, tok |-> known[t].tok,
                       rev |-> known[t].rev, before |-> h,
                       base |-> IF known[t].path = p THEN known[t].text ELSE NoHash,
                       text |-> NoHash]]
    /\ UNCHANGED <<disk, rev, verify, registry, anchors, reader, known>>

\* validateMutationParams, on the registry g it has just pruned.
CoherenceValid(g, t, q) ==
    /\ q.tok # NoToken
    /\ Live(g, q.tok)
    /\ ~g.tokens[q.tok].expired
    /\ g.tokens[q.tok].task = t
    /\ q.rev = rev
    /\ g.tokens[q.tok].verify = verify
    /\ \A p \in Anchored(anchors[q.tok]) : anchors[q.tok][p] = disk[p]

\* Request t moves to st, or is answered with an error.
Becomes(t, st) == request' = [request EXCEPT ![t].st = st]
Refused(t) == request' = [request EXCEPT ![t] = IdleRequest]

\* processRequest on the execution queue.  Once the token is accepted, the
\* drift gate may refuse and the approval gate may park the request.
Gate(t) ==
    /\ request[t].st = "sent"
    /\ ExecIdle
    /\ registry' = PruneExpired(registry)
    /\ \/ Refused(t)
       \/ /\ CoherenceValid(registry', t, request[t])
          /\ \E st \in {"approval", "onMain"} : Becomes(t, st)
    /\ UNCHANGED <<disk, rev, verify, anchors, reader, known>>

\* approval.resolve, or the expiry of the approval.
Resolve(t) ==
    /\ request[t].st = "approval"
    /\ ExecIdle
    /\ Becomes(t, "onMain") \/ Refused(t)
    /\ UNCHANGED <<disk, rev, verify, registry, anchors, reader, known>>

\* Mutated: applyPatch relies on the gate.
RevalidateTrustsGate(t) ==
    /\ request[t].st = "onMain"
    /\ Becomes(t, "validated")
    /\ UNCHANGED <<disk, rev, verify, registry, anchors, reader, known>>

\* applyPatch on the main queue: the token again.
Revalidate(t) ==
    /\ request[t].st = "onMain"
    /\ registry' = PruneExpired(registry)
    /\ IF CoherenceValid(registry', t, request[t])
       THEN Becomes(t, "validated")
       ELSE Refused(t)
    /\ UNCHANGED <<disk, rev, verify, anchors, reader, known>>

\* The file is read, compared with expectBeforeHash and the patch is tried
\* on it; a patch made from another text may fail to apply.
ReadBefore(t) ==
    /\ request[t].st = "validated"
    /\ LET q == request[t]
       IN  \/ /\ q.before \in {NoHash, disk[q.path]}
             /\ request' = [request EXCEPT ![t] =
                              [@ EXCEPT !.st = "checked", !.text = disk[q.path]]]
          \/ /\ \/ q.before \notin {NoHash, disk[q.path]}
                \/ q.base # disk[q.path]
             /\ Refused(t)
    /\ UNCHANGED <<disk, rev, verify, registry, anchors, reader, known>>

\* The result is written, by the editor or to the disk, or neither can.
Write(t) ==
    /\ request[t].st = "checked"
    /\ rev < MaxRevision
    /\ \/ /\ \E c \in Content : disk' = [disk EXCEPT ![request[t].path] = c]
          /\ Becomes(t, "written")
       \/ /\ Refused(t)
          /\ UNCHANGED disk
    /\ UNCHANGED <<rev, verify, registry, anchors, reader, known>>

\* recordAgentMutationWithReceipt, and the response; a read may have come in
\* between.
Record(t) ==
    /\ request[t].st = "written"
    /\ rev' = rev + 1
    /\ request' = [request EXCEPT ![t] = IdleRequest]
    /\ UNCHANGED <<disk, verify, registry, anchors, reader, known>>

-----------------------------------------------------------------------------
(* Everything else that changes the workspace.                              *)

\* Mutated: the patch is not serialised with the others.
UngovernedPatchAnytime(p) ==
    /\ rev < MaxRevision
    /\ \E c \in Content : disk' = [disk EXCEPT ![p] = c]
    /\ rev' = rev + 1
    /\ UNCHANGED <<verify, registry, anchors, reader, known, request>>

\* patch.apply without a taskId: validateMutationParams lets it pass.
UngovernedPatch(p) ==
    /\ ExecIdle
    /\ rev < MaxRevision
    /\ \E c \in Content : disk' = [disk EXCEPT ![p] = c]
    /\ rev' = rev + 1
    /\ UNCHANGED <<verify, registry, anchors, reader, known, request>>

\* Mutated: file.write runs on the read queue.
FileWriteAnytime(p) ==
    /\ \E c \in Content \ {disk[p]} : disk' = [disk EXCEPT ![p] = c]
    /\ UNCHANGED <<rev, verify, registry, anchors, reader, known, request>>

\* file.write, file.create and patch.revertLast record no mutation.
FileWrite(p) ==
    /\ ExecIdle
    /\ \E c \in Content \ {disk[p]} : disk' = [disk EXCEPT ![p] = c]
    /\ UNCHANGED <<rev, verify, registry, anchors, reader, known, request>>

\* A verification run passes.
VerifyPass ==
    /\ ExecIdle
    /\ verify < MaxVerify
    /\ verify' = verify + 1
    /\ UNCHANGED <<disk, rev, registry, anchors, reader, known, request>>

\* A person or another program edits the file.
ExternalEdit(p) ==
    /\ p \in Shared
    /\ \E c \in Content \ {disk[p]} : disk' = [disk EXCEPT ![p] = c]
    /\ UNCHANGED <<rev, verify, registry, anchors, reader, known, request>>

Next ==
    \/ \E r \in Reader, t \in Task, p \in Path : ReadBegin(r, t, p)
    \/ \E r \in Reader : IssueBegin(r) \/ IssueEnd(r)
    \/ \E t \in Task : Status(t)
    \/ \E id \in TokenId : Expire(id)
    \/ \E t \in Editor, p \in Path : Submit(t, p)
    \/ \E t \in Task :
          \/ Gate(t) \/ Resolve(t) \/ Revalidate(t)
          \/ ReadBefore(t) \/ Write(t) \/ Record(t)
    \/ \E p \in Path : UngovernedPatch(p) \/ FileWrite(p) \/ ExternalEdit(p)
    \/ VerifyPass

Spec == Init /\ [][Next]_vars

-----------------------------------------------------------------------------
(* Properties.                                                              *)

ReaderState ==
    [pc : {"idle", "read", "issue"}, task : Task \cup {NoTask},
     path : Path \cup {NoHash}, text : Content \cup {NoHash},
     rev : Nat, verify : Nat, tok : 0..MaxTokens]

KnownState ==
    [tok : 0..MaxTokens, rev : Nat,
     path : Path \cup {NoHash}, text : Content \cup {NoHash}]

RequestState ==
    [st : {"idle", "sent", "approval"} \cup OnKernel,
     path : Path \cup {NoHash}, tok : 0..MaxTokens, rev : Nat,
     before : Content \cup {NoHash}, base : Content \cup {NoHash},
     text : Content \cup {NoHash}]

\* Every variable keeps its type; a read or a request under way names a task
\* and a file, and a token number that somebody holds has been handed out.
TypeOK ==
    /\ disk \in [Path -> Content]
    /\ rev \in Nat \ {0}
    /\ verify \in Nat
    /\ registry \in Registry
    /\ anchors \in [TokenId -> [Path -> Content \cup {NoHash}]]
    /\ reader \in [Reader -> ReaderState]
    /\ known \in [Task -> KnownState]
    /\ request \in [Task -> RequestState]
    /\ \A r \in Reader : reader[r].pc # "idle" =>
          reader[r].task \in Task /\ reader[r].path \in Path
    /\ \A r \in Reader : reader[r].pc = "issue" =>
          reader[r].tok \in 1..registry.seq
    /\ \A t \in Task : request[t].st # "idle" => request[t].path \in Path
    /\ \A t \in Task : known[t].tok <= registry.seq
    /\ \A t \in Task : request[t].tok <= registry.seq

\* The three collections of the registry agree whatever reads overlap: a task
\* is queued for eviction exactly when it has a token, that token is present
\* and is its own, tasks are queued in the order of their tokens, and at
\* most kCoherenceMaxTasks of them are queued.
Consistent(g) ==
    /\ \A t \in Task : g.taskOrder[t] = g.taskToken[t]
    /\ \A t \in Queued(g) : g.tokens[g.taskToken[t]].task = t
    /\ \A id \in TokenId : Live(g, id) => id <= g.seq
    /\ Cardinality(Queued(g)) <= MaxTasks
RegistryConsistent == Consistent(registry)

\* A token number belongs to one task for ever, in the registry, at the
\* client, in a request that cites it and in a read that will store it: even
\* a record stored after its eviction cannot give a client another task's
\* token, so token_task_mismatch only ever answers a client that cites a
\* token it was not given.
OwnTokenNeverMismatched ==
    \E owner \in [TokenId -> Task \cup {NoTask}] :
        /\ \A id \in TokenId :
              Live(registry, id) => registry.tokens[id].task = owner[id]
        /\ \A t \in Task : known[t].tok # NoToken => owner[known[t].tok] = t
        /\ \A t \in Task : request[t].tok # NoToken => owner[request[t].tok] = t
        /\ \A r \in Reader :
              reader[r].pc = "issue" => owner[reader[r].tok] = reader[r].task

\* evictTasksIfNeeded: a task whose token has not expired loses it only to a
\* newcomer that finds the registry full, and only when no other task has
\* been in the registry for longer.
Unexpired == {t \in Queued(registry) :
                ~registry.tokens[registry.taskToken[t]].expired}
EvictionIsFIFOAtCap ==
    [][\A t \in Unexpired :
         registry'.taskToken[t] # registry.taskToken[t] =>
            /\ Cardinality(Unexpired) = MaxTasks
            /\ \A u \in Unexpired :
                 registry.taskToken[t] <= registry.taskToken[u]]_vars

\* Only the store at the end of a read that was under way when its token was
\* dropped can bring a token number back.
DeadTokenStaysDead ==
    [][\A id \in TokenId :
         (id <= registry.seq /\ ~Live(registry, id) /\ Live(registry', id)) =>
            \E r \in Reader : reader[r].pc = "issue" /\ reader[r].tok = id]_vars

\* No update is lost inside the kernel: the text that a patch has read, checked
\* and computed its result from is the text that its write replaces, for every
\* file that nobody outside the kernel edits in between.
NoUpdateIsLost ==
    \A t \in Task :
        request[t].st = "checked" /\ request[t].path \notin Shared =>
            request[t].text = disk[request[t].path]

\* At most one mutation is past the gate and on its way through the main
\* queue, and from its second validation until it is recorded the revision it
\* cites stays the current one, whatever reads, edits and parked approvals do.
CitedRevisionIsCurrent ==
    /\ \A t, u \in Task :
          request[t].st \in OnKernel /\ request[u].st \in OnKernel => t = u
    /\ \A t \in Task :
          request[t].st \in {"validated", "checked", "written"} =>
             request[t].rev = rev

\* Of the patches that cite the same revision only one is written, however
\* long an approval parks the others: the kernel implements the protocol of
\* OptimisticCommit, whose claim is the revision the request froze.
OC == INSTANCE OptimisticCommit WITH
        version <- rev,
        claim <- [t \in Task |->
                    IF request[t].st = "idle" THEN 0 ELSE request[t].rev]
ImplementsOptimisticCommit == OC!Spec

\* docs/coherence-tokens.md:5 says tokens exist "so agents can only mutate
\* the workspace they actually observed": a patch whose token is accepted
\* would be one whose client last saw the content the file has now.
ObservedIsValidated ==
    [][\A t \in Task :
         (Revalidate(t) /\ request'[t].st = "validated"
            /\ request[t].base # NoHash)
          => request[t].base = disk[request[t].path]]_vars
=============================================================================
