# TLA+ for the DietCode kernel

DietCode is a macOS kernel that edits a workspace on behalf of coding agents. Agents talk to it over
a Unix socket; the kernel queues their requests, checks them against what the agent has seen
(coherence tokens), what has drifted and what a person approved, and applies patches one at a time or
in transactions ("combos") with checkpoints and rollback. This directory holds TLA+ models of that
code and of the Python programs that agents, harnesses and the Makefile use to talk to it, the TLC runs that check them on small instances, and TLAPS proofs. Paths below are relative to
`src/`; "control" is `src/platform/macos/control`, the
Markdown files named are those of `docs/`.

## Inventory

| Component | State it keeps | Operations | What is hard about it | What makes it correct |
|---|---|---|---|---|
| Coherence tokens (`control/services/MacControlCoherenceTokens.mm`) | `_tokenSeq`, `_tokens`, `_taskToTokenId`, `_taskOrder`, anchors per token | issue, status payload, prune, evict, validate | unlocked, used from the concurrent read queue; a record is copied, files are hashed, then the copy is stored; eviction at a cap; expiry | the collections agree; a token number has one owner; eviction is FIFO; a stale patch is refused |
| Workspace state (`MacControlWorkspaceState.mm`) | `_revisionCounter`, `_verifyRevisionCounter`, tracked hashes, `_contextRefreshId`, continueAnyway, completed operations | record a mutation, status, refreshAnchor, continueAnyway, replay lookup | read-queue methods and the execution queue share it without a lock | one commit per cited revision; drift is never skipped by accident |
| Patch service (`MacControlPatchService.mm`) | last patch records | validate, apply, applyBatch, revertLast | check and write are separate; batches fail midway; retries | no lost update; a batch is all or nothing; a retry does not apply twice |
| Server queues (`control/MacControlServer.mm`) | a serial execution queue, the serial main queue, a concurrent read queue | processRequest, executeNestedMethod | queues that wait for each other, one wait with a timeout and one without | every request is answered, once |
| Combo runtime (`MacControlComboRuntime.mm`) | `_combos`, `_pathLocks`, `_globalMutationLock` | run, cancel, status | many ways out with locks held, steps through two queues, cancellation | locks live exactly as long as the combo; writes of a combo are covered by its checkpoint |
| Recovery store (`MacControlRecoveryStore.mm`) | backup directories with manifest and checksum | checkpoint, restore, scan, delete, prune | crash between two files; preconditions checked before the writes | a rollback restores the preimage of every file it knows of or touches nothing |
| Approvals (`MacControlApprovalService.mm`, `categories/MacControlServer+Approval.mm`) | pending and resolved approvals with expiry | create, resolve, validate | the world changes while one is pending; two resolvers | one execution per approval, of what was approved |
| Drift and verify gates (`+WorkspaceDrift.mm`, `+VerifyGate.mm`) | none of their own | block an edit, block a commit | one-shot bypass, bypassed by an approved call | no edit on a drifted workspace unless a person said so |
| Kernel process (`src/kernel/main.mm`, `MacControlServer.mm` start and stop) | `control.sock`, `session.token`, the processes | launch, write token, listen, stop, crash | two launched at once; a stop unlinks the files of the other one; a crash leaves them behind | a client ends up with a token of the kernel it talks to |
| Agent client (`scripts/dietcode_agent_client.py`, `DietCodeAgentClient`) | `sock`, `token`, the frames read ahead | open, close, call, batch, read_frame | retries after a reconnect, one token refresh, answers that come after the call was given up | an answer is the answer to the call, where ids are unique; no call runs more often than it may; every call ends that events do not keep up |
| Client command line (the same file, `main`) | the flags, the lines of a batch | its modes, batches, `--listen` | flags combine; a batch breaks off in the middle | exit code 0 means that all was done |
| Coherence recovery (`scripts/dietcode_coherence.py`) | the text its patch came from, what it cites | recover_and_apply_patch | several calls among which others edit, verify, refresh, decide; late answers | an edit is written once at most and over what was seen; a certain result is true |
| Run audits (`scripts/dietcode_mutation_authority.py`, `dietcode_diff_authority.py`) | manifests, text snapshots, the log of the bridge | snapshot, audit | snapshots are taken file by file while others write | a write without the bridge is suspected |
| Verification record (`scripts/dietcode_verification_authority.py`) | two logs and a JSON record per run, a verdict | execute, audit | dies between files; a run id is used again; the clock is set back | an audit refuses a verdict exactly when the directory does not bear it out |
| Diff tooling (`scripts/agent_tooling.py`) | counters of one pass | parse and page a diff | lines that look like path lines; limit and offset | pages meet without gaps; all is counted once |
| Verification ladders (`scripts/verify_agent_runtime*.py`, `release_check_*.py`, `run_agent_integration_tests.py`, `Makefile`) | the steps that are left, an exit code | restart, steps, nested ladders | other kernels around; failures inside a nested ladder | exit code 0 is earned; a restart leaves no kernel of an old build that was not told to stop |
| Contracts and safety checks (`scripts/agent_contracts.py`, `runtime_safety.py`) | none | check one payload | - | - |
| Task runtime (`MacControlTaskRuntime.mm`) | tasks, plans, budgets | start, step, runLoop, executePlan, cancel | nested calls again; budget accounting | no step beyond the budget; a cancelled task stops |
| Connections and events (`MacControlServer.mm`) | connections with counters, event ring of 500 | accept, read, EOF, fan-out | who closes a descriptor and when; order of events | closed exactly once; sequence numbers ascend |
| Memory service (`MacControlMemoryService.mm`) | SQLite rows of operations and revisions | append, find | asynchronous to the operation | replay returns what was done |
| BroccoliQ (`runtime/memory/broccoliq`) | SQLite queue, ring buffer, leases, sharded write buffers | enqueue, dequeue, complete, lock, heartbeat, flush | a buffer in front of the database, leases that expire | a job is not lost; one holder per lease |
| Search, agent shell, git, editor, catalogs, formatting, workspace index | none that others depend on | queries | - | - |

Interactions. A request enters on a connection, is queued on the read queue or the execution queue,
passes the coherence, drift and approval gates there, and runs either in place or on the main queue
while the execution queue waits. Reads issue tokens as they answer. Combos and tasks call other
methods through `executeNestedMethod`. An approved request is run by `approval.resolve`, itself on the
main queue. People and other programs edit the same files at any time. The scripts reach the kernel through the agent client only; they are long
programs of their own with files that others read and write while they run.

## Plan

The order in which the modules were written is the order of what relies on what:

1. `OptimisticCommit`, `Coherence`: tokens, revisions and the patch pipeline, because everything else
   relies on the promise that a stale edit is refused.
2. `NestedCalls`: queues, combos, locks and rollbacks; `RecoveryStore`: what a rollback finds on the disk
   after deaths and failed writes.
3. `SupervisedEdit`, `MutationGates`: the drift gate and the life of approvals.
4. `KernelProcesses`, `CallContract`, `AgentClient`: kernels that come and go, and the client that talks to
   them; `AgentCommand`: what its command line makes of that.
5. `OneEdit`, `CoherenceRecovery`: the loop of an agent whose patch was refused as stale.
6. `AgentAudit`, `VerificationRecord`, `VerifyLadder`, `DiffHunks`: the programs that decide afterwards
   whether a run was in order.

Four abstract modules say what a component promises and are implemented by a detailed one:
`OptimisticCommit` by `Coherence`, `SupervisedEdit` by `MutationGates`, `CallContract` by `AgentClient` and
`OneEdit` by `CoherenceRecovery`. `KernelProcesses` is extended by both `AgentClient` and
`VerifyLadder`. The modules of a component are free of theorems, which stand in the `...Proofs` modules
next to them.

## Modules

### OptimisticCommit

What the coherence layer promises, without tokens or queues: a task cites a revision, and of the
mutations that cite the same revision one at most is committed. It is the abstract specification
that `Coherence` implements.

### Coherence

| Variable | Code |
|---|---|
| `disk` | content of the files, up to equality of `StableHashForString` |
| `rev`, `verify` | `_revisionCounter`, `_verifyRevisionCounter` |
| `registry` | the four ivars of `MacControlCoherenceRegistry` |
| `anchors` | the anchors dictionary of each token. `mutableCopy` is shallow, so all copies of a record share it: it is a variable of its own |
| `reader` | the local state of a read-queue block that serves `file.read` |
| `known` | what the client of a task last received |
| `request` | the `patch.apply` in flight of each task |

`_taskOrder` is represented by the token number with which a task joined it: tasks are appended with
a fresh number, so ascending numbers are array order.

A read has three steps because it really has three places where others run: it reads the text
(`ReadBegin`), captures the revisions and gets or creates a record (`IssueBegin`), hashes the file
again, stores the record and answers (`IssueEnd`). Storing may revive a record that was evicted or
pruned meanwhile; the model keeps that.

A patch goes from `sent` (client froze its token) through `Gate` on the execution queue, possibly
`approval` (parked until `Resolve`), to `onMain`, and there through `Revalidate`, `ReadBefore`,
`Write` and `Record`. `ExecIdle` is the serial execution queue: nothing else that edits starts while
a mutation is on its way through the main queue. Reads, expiry and outside edits go on all the time.
`UngovernedPatch` is a patch without a `taskId`, which `validateMutationParams` lets pass; its write and its
count are one step, because what a read can see between the two is the same as between `Write` and
`Record`. `FileWrite` also stands for `file.create` and `patch.revertLast`: they change a file and
record no revision.

Abstractions: anchoring a file and storing the record are one step (one path per read); the three
comparisons of a validation are one step although it hashes several files; no file is deleted; the
30 minutes of a token's life are longer than one read; the data race on the registry's own
collections (two blocks inside `tokenRecordForTask` at once) is not modelled.

### NestedCalls

| Variable | Code |
|---|---|
| `queue` | the blocks of the execution queue and of the main queue; the head is the one that runs |
| `call`, `stage` | the request and how far `processRequest` has come with it |
| `combo` | the `combo` dictionary of `runComboWithPlan`, where it is, and its manifest (pre- and postimages) |
| `pathLock`, `globalLock` | `_pathLocks`, `_globalMutationLock` |
| `disk` | content of the files |

A method that is not in the list of background methods is posted to the main queue while its request
holds the execution queue (`Dispatch`, `Home`). A step that is not a background method is posted to
the main queue (`PostStep`), which calls `executeNestedMethod` (`CallNested`), which posts a block
to the execution queue, where the combo itself is still running. The wait ends when the block has run
or after `kMaxNestedCallWaitSeconds` (`NestedWaitEnds`); the block stays queued either way
(`RunNested`). Consequently a patch step asked for by `combo.run` always times out, rolls its combo
back and is applied later, after the rollback: see the findings. An approved request runs on the main
queue from `approval.resolve`.

Abstractions: budgets and the deadline are one nondeterministic abort (`ComboAborts`); the result of
a step that did run is nondeterministic; comboIds are unique; `kMaxActiveCombos` never bites, because
combos start one after the other on a serial queue; read-queue methods finish in place, the two that
end a combo (`changes.current`, `verify.status`) among them; a rollback writes its files in one step
and its writes succeed (the code does not look at their results); the modal confirmation of autonomy
levels below 3 is left out.

### SupervisedEdit

What supervision promises about a destructive edit, whatever queue or registry it goes through: it
waits until somebody decides, it runs once if it is granted in time, and it never runs after a
rejection, after its time or twice. `MutationGates` implements it; a stage is the code's status
together with the age of the approval.

### MutationGates

| Variable | Code |
|---|---|
| `disk` | content of the files, and the git HEAD under the name `Head` |
| `tracked` | `_trackedFileHashes`, and `_anchorGitHead` under the name `Head` |
| `refreshId`, `bypass` | `_contextRefreshId`; `_continueAnywayActive` together with whether `_continueAnywayExpiresAt` has passed |
| `block` | the local state of a read-queue block that serves `file.read` or `workspace.refreshAnchor` |
| `request` | the edit, or the `approval.resolve`, that the execution queue is serving |
| `approval` | `_approvals`, with "older than 30 minutes" as a flag that only goes up |
| `due`, `given`, `used`, `runs` | history: what the gate owes, calls and uses of the override, runs of an edit |

Anchoring is two steps per file in the code (hash, store) and in the model (`HashFile`, `StoreHash`,
and `HashWritten`, `StoreWritten` after a patch), so a newer anchor can be overwritten by an older
hash. `refreshAnchor` copies the names of the tracked files, anchors one after the other
(`RefreshAnchor`), counts itself (`CountRefresh`), asks git for the HEAD (`ReadHead`) and anchors what git
said (`AnchorHead`). The gate asks git first (`StartGate`), copies the names (`ListTracked`), takes the anchor
of one file after the other (`TakeAnchor`), hashes it and compares the two (`CompareFile`), and compares
the HEAD it read at the beginning with the anchor that the HEAD has at the end (`CompareHead`). So a file that
is edited and anchored anew between `TakeAnchor` and `CompareFile` can be drifted all the time and not be
found: that is what `DriftIsNotMissed` excepts, and nothing else. The second look that the code takes
at the files of the last mutation, when a verification came after it, only finds more and is left out.
`noteExternalChangeForPath` has no caller, so its flag is never set. `Decide` is
`validateContextRefreshForParams`; reading the override flag and taking it back are two steps (`Decide`,
`SpendOverride`), because `continueAnyway` sets it on the read queue. What has passed is parked (`Admit`)
or written (`Write`), and an approval that is granted is written past the gate (`Resolve`). A patch
anchors what it wrote; `file.write` does not, so it leaves its own file drifted, as the code does.

The execution queue serves one request to its end, so one `request` stands for all clients; a queued
request is only frozen parameters, which `StartGate` chooses. The client may cite any
`contextRefreshId` up to the current one, because `workspace.status` and the answer to a blocked edit
show it. Every method of the registry expires what is stale before it does anything else (`Expired`).
A retry with an `approvalId` is always refused: `paramsHash` is over all parameters and the parked
ones have no `approvalId`; besides, the retry that comes after a successful run finds an
`executionResult`.

Abstractions: autonomy 3, the default (a destructive edit is always parked); the edits are patches with or
without confirmation and `file.write`; hashing a file and comparing the hash with the anchor in hand is
one step; the fallback of `refreshAnchor` to the last changed files when nothing is tracked is left out; so are `_externallyChangedPaths` and
`_externalChangeDetected`, which nothing sets (`noteExternalChangeForPath` is never called). A request that the
coherence gate refuses changes nothing here and is no step.

### RecoveryStore

| Variable | Code |
|---|---|
| `onDisk` | content of the files that combos change |
| `backup` | the directory of a combo: `manifest.json`, `manifest.sha256` and the blobs |
| `combos` | the ids in `_combos` of the running kernel |
| `job` | where `runComboWithPlan` or `rollbackCombo` is, with the manifest it holds in memory |
| `reply` | what the last rollback returned |
| `declared`, `touched` | history: the files that the last combo of an id said it would patch, and those it wrote |
| `torn`, `deleted`, `spoilt` | history, for the properties |

A checkpoint copies one file per step (`BackUp`), then renames the manifest and the checksum into place,
two steps between which the kernel may die or the second write may fail (`RenameManifest`,
`RenameChecksum`, `CheckpointFails`, `RewriteFails`). The checkpoint has the files that the steps declare,
and `mutationPathsForChip` knows only the paths of `patch.apply` and `patch.applyBatch`: a step `file.write` or
`file.create` may write any file (`StepWrites`), also one without a preimage. When a step is complete all
files of the manifest are hashed again and it is rewritten. A rollback checks every file before it writes the
first (`Check`), and opens and hashes its blob, which may have rotted since (`BlobRots`, `Sound`); the scan only
asks whether the blob is there. Then it restores one per step, in any order, and goes on past a write that fails (`Restore`,
`RestoreFails`). `Scan` is the recovery scan, which has code of its own for the comparison. `KernelDies`
may come anywhere; afterwards no combo of the old kernel is active any more, so its backups can be deleted.

Abstractions: a hash stands for its text, blobs are written atomically (they rot later or not), one combo or rollback is under way
(`NestedCalls` proves that the queues see to it); binary files, older schemas, path escapes and the
choice of what `recovery.prune` deletes are left out.

What the model shows besides its properties, none of it against a document: a crash in the middle of
a rollback leaves a workspace that is half restored and that a second rollback refuses; a combo that reuses
an id whose checkpoint then fails has removed the earlier backup; an outside edit between the check and
the restore, or before the step that hashes everything again, is overwritten; a rollback with failed writes
still answers `reverted`.

### KernelProcesses

The kernels of one home directory with `control.sock` and `session.token`. A kernel is launched by a client
that could not connect, writes its token, listens, and stops or crashes. `overlapped` remembers that two
of them held a token at once, which is when the files of one can lead to the other. Left out: the moment in
which the token file exists and is empty.

### CallContract

What the caller of the client may believe: a call is run at most as often as the client may send it, an
answer means that it was run, a refusal of a call that is sent only once means that it was not and will not
be, and a failure means nothing. Of a call that has become confused with another one, because both have
the same id, it may believe nothing.

### AgentClient

| Variable | Code |
|---|---|
| `retries`, `peer`, `token` | `self.retries`, `self.sock` (as the kernel it leads to), `self.token` |
| `ids` | the request id of every call, named by the first call that has it |
| `call` | the call or `read_frame` in progress, its attempt, whether it has refreshed the token |
| `inbox` | frames that have arrived and were not read |
| `linked`, `requests` | the kernel's end of the connection, and what kernels have accepted |
| `log`, `dead`, `mixed` | history: the method, the end and the runs of each call; a call failed on this connection; calls sent while an answer to another call of their id was to come |

`Connect`, `ConnectFails` and `LoadToken` are `open`; `SendRequest`, `TakeAnswer`, `SkipEvent` and
`HearNothing` are `send_rpc`; `RefreshToken` and `TransportError` are what `raw_call` does with an
`invalid_token` and with a transport error. A connection that is given up takes its inbox along, but the
kernel still runs what was sent over it (`Orphaned`, `Execute`). Answers come in any order that the queues
allow, and events come without bound, each within the timeout of the next `recv`. A call without an id of its
caller has a fresh uuid, but `batch` numbers its lines anew in every batch and callers may give an id, so
`ids` is any assignment (`RequestIds`), and an answer is taken by its id (`Matches`). A call in `mixed` is the
"confused" one of `CallContract`; `StaleFramesAreAbandoned` says that it takes a failed call with the same id
to become one. `Begin` chooses a read or a mutation because
`max_retries` does: a client created without retries repeats a read once and a mutation never.

Abstractions: answers beyond the size limit, two threads on one client, and the subscription to events,
which is lost on a reconnect.

What the model shows besides its properties. The timeout is that of one `recv` (709) and `send_rpc` reads on
after every event (808-809), so a call whose answer was lost never ends while events keep coming, although
the help of `--request-timeout` (1524) speaks of waiting "for one RPC response"; `CallEnds` excepts exactly this.
A later call with the id of a call that timed out, such as `batch:1` of the next batch (1012), takes the late
answer for its own and is reported as done without having been run, although `kernel-rpc.md:27` shows the id of a
request as "unique-id"; `ImplementsCallContract` lets only calls in `mixed` be answered like that.

### AgentCommand

One invocation of the client's `main`: `flags` choose the mode (`CommandMode`, in the order in which `main`
looks at them), `lines` and `todo` are what is to be sent, `printed`, `code` and `phase` what comes of it.
`Refuse` is what is refused before a connection is made. `SkipLine` and `SendLine` are `batch`, in which a line
that fails or is lost does not keep the next one from being sent. A line is a request, a request under an id
that was used before, something malformed, or an object that carries a `localError` key: such a line is never
sent, and what it says of itself is reported as its answer. After a line that got no answer, a line with its
id may take that answer for its own (`MayBeTold`). `Subscribe`, `PrintEvent` and
`Unsubscribe` are `--listen`. An invocation with `--listen` exits with 0 also when the socket was closed on
it, so `ExitZeroMeansAllRan` leaves it out; of the lines with a `localError` it says that they are the only
ones that exit code 0 may hide.

### OneEdit

What `recover_and_apply_patch` promises: one write at most, and a result that is certain is true.

### CoherenceRecovery

| Variable | Code |
|---|---|
| `step`, `attempt`, `seen`, `params` | where the function is, the text its patch came from, and the parameters |
| `late` | a request that the client gave up and the kernel still has |
| `coherence`, `tracked`, `counters`, `parked` | of the kernel: the token of the task, the anchors of the drift gate, the revisions, the approval of this patch |
| `underway` | the patch while `applyPatch` has it, and the text it has read |
| `wrote`, `world` | history: the texts that the patch replaced; what others did |

A step is one RPC with what the client makes of the answer: `HashFirst`, `Apply`, `RefreshAndCite` and the
second apply of `_complete_after_workspace_drift`, `ResolveApproval`, and after a mismatch `Reread`, `Issue`,
`Reanchor`, `Revalidate`. `file.read` is split into the text and the token (`Reread`, `Issue`) because the
kernel is. Between two steps others edit, patch, verify, refresh, decide on the approval or let the token
expire, up to `MaxChanges` times (`WorldDoes`). Any RPC may raise (`Raise`); the request may then still run
(`Late`). A patch that passes the gates (`Admit`) is read and compared with its hash (`ReadBase`) and then
written (`Write`) or refused (`RefusePatch`); outside edits come in between, and the editor, which reads
the file once more, may or may not see them. A client that gives up leaves a patch that is under way to the
kernel (`Abandon`). The kernel is the part of `Coherence` and `MutationGates` that this client meets.

### AgentAudit

The four snapshots of a run in the order of the tests (`Stage`), each visiting one file per step
(`HashEntry`, `ListEntry`, `TextEntry`), while the bridge (`BridgePatch`) and others (`RawWrite`) write.
`AuditMutation` compares the manifests with the log and `AuditDiff` the texts. A file is one of the six
kinds that the two ways of reading can tell apart. The harness is not in the repository; its order of calls
is that of the tests.

### VerificationRecord

`runDir` is the directory of a run, `authority` the verdict that `execute_verification_authority` returned,
`running` the execution in progress. `Begin` resolves the command, `CommandEnds` runs it, `WriteLog` twice
and `WriteJson` write the directory, `Audit` is the audit. `Die`, `Mutate`, `SetClock` and `Tamper` are the
world. The command is resolved the way the code does it (an override, an executable `verify.sh`, a
fallback from the environment); the list of `verify-gate.md:65` also has `make test` and two scripts of
`package.json`, which the program does not look for.

### VerifyLadder

`jobs` is the stack of scripts that run, each with the steps it has left and whether one has failed;
`build` and `told` say of each kernel which build it runs and whether it was told to stop. `Build`, `Kill`,
`Ensure` and `WaitReady` are `make restart-agent-server`; `Meets` is a live step that talks to whatever
kernel `control.sock` leads to; `Nested`, `NestedEnds` and `FinishTestRun` are the ladders inside ladders
and the exit codes.

### DiffHunks

One pass of `parse_unified_diff_hunks`, one line per step (`ReadLine`, then `EndOfDiff`). A line is one of
twelve kinds, and `LooksLike` says which test of the parser it meets first: a removed line whose text begins
with `-- ` looks like a path line, and one whose text begins with `--` and goes on otherwise is a line of no kind, like
`meta`; the same goes for added lines, such as `+++i;`. None of these four is counted, and `LinesAreCounted` says
that no others are missed. `page` holds the arguments as they are clamped, `total`, `listed`, `file` and
`hunk` the parser's counters, `truth` what the lines really were.

### MCParts

`RecoveryStore`, `CoherenceRecovery`, `DiffHunks`, `AgentAudit`, `VerificationRecord`, `VerifyLadder` and
`AgentCommand` share no variable and no action. `MCParts` puts them beside each other as a choice: a
behaviour is a behaviour of one of them, and the others stay in one of their initial states. A run of it
checks what seven runs would.

## Runs

| Run | Instance | Shows |
|---|---|---|
| `coherence_registry` | 3 tasks, 2 overlapping reads, room for 2 tasks and 1 anchor, 4 token numbers | the registry's collections agree, token numbers keep their owner, eviction is FIFO at the cap, a dead number is revived only by a read under way |
| `coherence_commit` | 2 tasks that patch, 2 files of which others edit 1, 2 contents, approvals, ungoverned patches, a verification, 3 revisions; tokens come from `workspace.status` alone | mutations are serial, a cited revision stays current up to the record, no update is lost, refinement of `OptimisticCommit` |
| `coherence_observed` | 1 task, 1 file | **violated**: a token can anchor a text its client never saw |
| `nested_calls` | 3 requests out of 7 calls, at most 2 of them combos, 1 file, 2 contents, outside edits, fairness | locks follow combos; no writer touches a file that another combo has locked; every queued request is answered |
| `nested_calls_late` | 2 combos with one patch step | **violated**: the step runs after its combo gave up |
| `nested_calls_stuck` | 2 approved combos | **violated**: the main queue waits for itself |
| `mutation_gates` | 1 read-queue block, 1 file and the HEAD, 1 approval, 1 override, 1 refresh; 2 contents, and 3 where nothing is parked or overridden | the override is one-shot, drift is not missed, refinement of `SupervisedEdit` |
| `mutation_gates_refresh` | the same with 2 contents | **violated**: citing the current `contextRefreshId` passes a drifted workspace without a refresh |
| `agent_client` | 2 kernels, 2 calls of a client without retries, of the same id or not, events without end, fairness | the token fits the connection, stale frames come from failed calls or mixed-up ids, reads leave dead connections, every call ends unless events never do, refinement of `CallContract` |
| `recovery_undeclared` | `RecoveryStore` with 2 files, 1 combo, no mishaps | **violated**: a rollback restores what the steps of the combo have written |
| `parts` | 7 machines side by side (`MCParts`): a store with 2 files, 1 id, 2 combos and 2 mishaps; a recovery with 2 files and 2 changes; diffs of 6 lines; audits of 2 files with 2 writes; 2 executions of a verification; ladders among 2 kernels; 3 flags and batches of 3 lines | the properties of those seven modules, among them the refinement of `OneEdit` |
| `coherence_recovery` | 2 files, 2 changes | **violated**: an operator is asked for although nobody disturbed the recovery |

Bounds. Eviction needs one task more than `MaxTasks`, and a revival needs a read that spans an eviction
and a newcomer that takes the slot: three tasks, two reads and four numbers do. Two tasks are enough
for two patches that cite one revision; the winner makes the second revision and a loser that got
through would make the third. Reads never change a revision, so that run has no read block; the two
read blocks of `coherence_registry` cover them. Two files, of which outside writers reach one, are
enough for an edit between the check and the write of a patch. `MaxVerify` is 1 where
verification matters. With three requests one combo can hold its locks, one can wait with a nested
block behind it, and a third, which is no combo, can cancel, roll back or patch; all combos patch the same file,
which is when they are in each other's way. A patch that was approved goes the way of one that needed no approval
and is not among the calls. `MaxTokens`, `MaxRevision` and `MaxVerify` are bounds of the models;
`MaxTasks` and `MaxAnchors` are constants of the code made small. For the gates one file and the HEAD
are two things to compare, so the gate can have seen one and not the other when either changes; one
block is enough to anchor between two comparisons and to store an old hash, and one refresh makes a
cited id old. With three contents a file can be edited and anchored anew in the middle of a comparison and
be drifted throughout; where an approval is open or an override was given, two contents are in use at once
(`Small`). One approval and one override meet every order of decision, expiry and use.
`MaxRefresh`, `MaxApprovals` and `MaxOverrides` are bounds of the model.

A client with two calls can take the answer of the first for that of the second; two kernels are
what it takes for a token of one and a connection to the other, also when they overlap. A read is retried
once although `Retries` is `{0}`, so both a call with and one without a retry occur. One event is enough to
stand before an answer (`MaxInbox` bounds the inbox; the number of events has no bound). The two calls have one
id or two. In the store one mishap can tear a manifest and the second
can come during what follows; the second combo can reuse the id of the first. Two changes let one make
the patch stale and the other disturb the recovery. Six lines hold two files with a hunk each, or one file
with more hunks than a page of one, two or three; the defaults and caps are the code's, made small. Two
writes split a pair of snapshots or fall on one file twice. Two executions share a run id. Two kernels let
an old one linger while a new one is up. Three flags are a mode, a format and a contradiction. What more
of all these would add is covered by the proofs, which bound nothing, except where "Only model-checked"
below says otherwise.

`CHECK_DEADLOCK FALSE` is set since a run ends when its bounds are reached or all requests are answered.

Symmetry. Tasks, reads and contents are never compared except for equality; the one `CHOOSE` of a
task picks by token number. It is not used with liveness: in `nested_calls` the requests are numbers that are sent in
their order, and the first content of the file is fixed (`SpecInTurn`).

Fairness. `NestedCalls` assumes weak fairness of what a queue does for a request, of a nested
block and of the end of a nested wait: GCD runs the head of a serial queue when its block can go on,
and `dispatch_semaphore_wait` with a deadline returns. A wait without a deadline, on a block that
cannot start, has no such action, and `nested_calls_stuck` shows what becomes of it. Clients are not
fair there: they may send nothing. Outside edits are not fair either. `AgentClient` assumes weak fairness
of the client's own steps: every wait of it has a timeout (`sock.settimeout`, the deadline of
`ensure_socket`), so it goes on whether or not a kernel answers. The timeout is that of one `recv`, and an
event starts it anew, so `CallEnds` excepts behaviours in which events are skipped for ever. Nothing is
assumed of the kernels.

Every property of a passing run has a mutated definition in the module, next to the original and
marked "Mutant" or "Mutated", under which TLC finds it violated.

## Findings

1. **A token can anchor a text its client never saw** (`coherence_observed`). `file.read` reads the
   text, then issues the token, which hashes the file again (`categories/MacControlServer+File.mm:18`).
   `docs/coherence-tokens.md:5` promises that agents "can only mutate the workspace they actually
   observed". `expectBeforeHash`, when a client derives it from the text it has, closes the gap.
2. **A nested patch outlives its combo** (`nested_calls_late`). `executeNestedMethod` times out but
   does not withdraw its block (`MacControlServer.mm:451`); the patch is applied after the
   rollback, without locks and without a checkpoint.
3. **An approved combo stops the kernel** (`nested_calls_stuck`). `approval.resolve` runs the combo
   on the main queue, where a UI-bound step waits for the main queue without a timeout
   (`services/MacControlComboRuntime.mm:389`).
4. **The current `contextRefreshId` is not proof of a refresh** (`mutation_gates_refresh`). Drift does
   not change the id, so a client that learned it before the drift, or from the answer that blocked
   its edit, passes the gate (`services/MacControlWorkspaceState.mm:357`); `docs/workspace-drift.md:36` says
   that edits are blocked "until context is refreshed".
5. **A second stale file needs an operator** (`coherence_recovery`). The recovery reads only the file of
   its patch again (`scripts/dietcode_coherence.py:300`), so the token keeps the stale anchor of
   any other file and the one retry is refused for it; `coherence-tokens.md:120` and
   `agent-ergonomics.md:30` say that `changedPaths` are read again.
6. **A rollback leaves out what some steps wrote** (`recovery_undeclared`). `mutationPathsForChip` returns no
   path for `file.write` and `file.create` (`services/MacControlComboRuntime.mm:108`), so the checkpoint has no
   preimage of their files; the rollback leaves them as they are and reports success (584-590).
   `services/MacControlMethodCatalog.mm:206-207` declares `content_preimage` as the rollback of both methods.

## Proofs

Nothing is assumed but the named `ASSUME`s of the modules (null values are no members of the sets they
are used with, tasks and files are finite, bounds are naturals); no theorem depends on the size of an
instance.

### CoherenceProofs

| Theorem | Statement |
|---|---|
| `TypeCorrect`, `RegistryStaysConsistent`, `TokensKeepTheirOwner` | `[]TypeOK`, `[]RegistryConsistent`, `[]OwnTokenNeverMismatched`, from `Invariance` |
| `EvictionIsFIFO`, `DeadTokensStayDead` | the two action properties of the registry |
| `CitedRevisionStaysCurrent`, `UpdatesAreNotLost` | `[]CitedRevisionIsCurrent`, `[]NoUpdateIsLost`, on top of `CommitInvariance` |
| `CommitIsOptimistic` | `Coherence` implements `OptimisticCommit` |

The argument. `IInv` is `TypeOK /\ RegistryConsistent /\ OwnTokenNeverMismatched`. Types need
consistency, because the number that `tokenRecordForTask` returns is only a token number if a task
that is mapped has a live record. Consistency needs types for its arithmetic, and it is preserved by
a late store only because a number below `seq` that no task maps to disturbs none of the clauses.
Ownership is stated with an owner function that only grows: `TypeOK` bounds every number that anyone
holds by `seq`, so the number of a new token has no owner yet. `evictTasksIfNeeded` is a loop in
the code; the bound of `RegistryConsistent` is what allows the model to drop one task. The operators of
the registry are treated in lemmas of their own (`PruneIsConsistent`, `EvictIsConsistent`,
`RecordIsConsistent`, `StoreIsConsistent`, ...), and each step cites them.

`CommitInv` adds that revisions in flight are of the past and that at most one request is on the
kernel. The refinement maps the abstract claim to the revision frozen in a request; `Record` is the
commit, and everything before it is a stutter or a drop.

### MutationGatesProofs

| Theorem | Statement |
|---|---|
| `TypeCorrect` | `[]TypeOK`; inductive as it stands, because it says that an approval is approved exactly while its edit is past the gates |
| `OverrideOnce` | `[]OverrideIsOneShot`, from `OverrideInv` |
| `DriftStops` | `DriftIsNotMissed`, from `GateInv` |
| `EditsAreSupervised` | `MutationGates` implements `SupervisedEdit` |

`OverrideInv` counts an override that was given and not used yet: the flag, or the edit that has seen
it and not taken it back. It is one for both together, because taking the flag back also loses a call
that came in between. `GateInv` says that what is due has drifted and, while the gate has found
nothing, is still to be compared: among the files to look at, in hand with an anchor that differs from what the
file will hash to (`FileInHand`), or the HEAD as it was read (`HeadInHand`). For the refinement, expiring an approval maps to a stutter: it was closed from the
moment it was too old.

### NestedCallsProofs

| Theorem | Statement |
|---|---|
| `TypeCorrect` | `[]TypeOK` |
| `LocksAreNotLeaked` | `[]LocksFollowCombos` |
| `WritersAreSerial` | `LockedFilesAreLeftAlone` |
| `QueuesServeEachOther` | `[]WaitsAreServed`: a queue that waits waits for the block that the other one runs, but for the step of an approved combo |
| `ApprovedStepsStopTheQueues` | `NobodyIsAnsweredAgain`: from the step of an approved combo on, no request is ever answered |
| `RequestsTakeFewSteps` | `RequestsDrawNearer`: no step sets a request back, and its own bring it nearer to its answer |

The inductive invariant is `TypeOK /\ Turn /\ Busy /\ LocksFollowCombos`. `Turn` says that a request
that is being served is the block at the head of the execution queue, `Busy` that a combo is active only
while its request is being served; together they make two active combos at once impossible, and only then
do the locks, which are taken and given back in different steps, follow the combos.

The last three theorems are the safety half of `EveryRequestIsAnswered`; their statements stand beside their
proofs. `MainInv` says what the main queue holds: nothing while no request is dispatched, and else the
method of the dispatched request, if it runs there, and after it the step that its combo has posted. So the
execution queue always waits for the head of the main queue, unless the combo itself runs on the main queue:
then its step stands behind the method that waits for it (`WaitsAreServed`). That this one case is
final is `NobodyIsAnsweredAgain`, the finding of `nested_calls_stuck` for every constant. `StepsLeft` counts the
steps that a request has before it, at most `8 + 4 * Len(Plan(r))`; the proof that nothing increases it
goes through cancellations, time-outs, rollbacks and late steps. What TLC adds is that some step is always enabled.

### RecoveryStoreProofs

| Theorem | Statement |
|---|---|
| `WhatWasOverwrittenIsKept` | `[]PreimagesAreKept` |
| `ScanAndRollbackAgree` | `[]ScanForetellsRollback` |
| `RevertedIsRestored` | `RevertedMeansRestored` |

`StoreInv` is `StoreType /\ JobInv /\ KeptInv /\ RestoreInv`: types; what holds at each place of a job
(which files are copied, which manifest is on the disk); that what a combo has touched of the files that its
patch steps declare is in the manifest and the blobs of its directory unless it is torn or deleted; and that a file the restore has left behind holds
its preimage unless it was spoilt. Of the files that no step declares nothing is claimed: see finding 6. The scan and
the rollback agree but for rotten blobs, which only the rollback opens.

### AgentClientProofs

| Theorem | Statement |
|---|---|
| `TypeCorrect`, `TokensFit` | `[]TypeOK`, `[]TokenFitsConnection` |
| `StaleFramesFailed` | `[]StaleFramesAreAbandoned` |
| `CallsKeepTheirContract` | `AgentClient` implements `CallContract` |
| `MutationsAreRunOnce` | `[]MutationsRunOnce`: a mutation of a client without retries runs once at most, unless its id was mixed up |
| `DeadConnectionsAreLeft` | `ReadsLeaveDeadConnections` |
| `CallsTakeFewSteps` | `CallsDrawNearer`: every step of the client uses up something of its call |

`ClientInv` relates the socket, the token and the two files of the kernels: a kernel that a client is
connected to wrote its token before it listened, so the file still names it unless another one overlapped.
`FramesInv` says that a call that is not mixed up waits for at most one frame, on the wire or in the inbox, and none when it is
not waiting, and that a frame which matches such a call is its own (`MatchIsOwn`); therefore a call that ended with
its own answer leaves nothing behind. `RunsInv` counts: the
runs of a call together with its requests that can still be run never exceed its attempts. An attempt
may send twice, before and after the token was refreshed, but it sends again only what was refused, and
what was refused is never run; hence the count is one lower while a refusal is on its way (`Denied`). The
second half of `RunsInv` is that a call that may run only once has no request left on an abandoned
connection, so that its refusal is final. The refinement maps the attempts that `max_retries` allows to the
limit of the contract, and a call to "confused" when it is sent as a mixed one. `MutationsRunOnce` is what `RunsInv` says of a limit of one.

`DeadInv` says that a connection on which a call has failed was closed by its kernel and that a call which
meets it is at its first attempt; a read has a second one, because `max_retries` gives it one, and leaves the
connection. `CallBudget` counts the attempts, the refresh and the phases that are left to a call, and is the
safety half of `CallEnds`: the client never works at a call without using up one of them, or an event of its
inbox. What is left to TLC is that the client can always take a step.

### CoherenceRecoveryProofs

| Theorem | Statement |
|---|---|
| `NothingUnseenIsReplaced` | `[]WritesWhatWasSeen` |
| `RecoveryIsOneEdit` | `CoherenceRecovery` implements `OneEdit` |
| `RetrySucceeds` | `[]UndisturbedRecoverySucceeds` |

`Inv` is `Typed /\ Flow /\ Anchored /\ WritesWhatWasSeen`: `Flow` says when a patch can still be on its way
(not applied yet, in a request given up, or parked), which is what bounds the writes by one; `Anchored`
that the anchor of the token which it cites is the text it was computed from, and that the file still holds it while
the kernel has the patch. There are two ways around, and both are in the statement: an edit between the text and the
token of a `file.read` (`raced`), and one that the kernel does not make itself between the checks of `applyPatch` and
its write (`slipped`). `RetryInv` follows an undisturbed
second attempt from step to step and says what each will find.

### ScriptProofs and DiffHunksProofs

| Theorem | Statement |
|---|---|
| `ClockAloneMisorders` (`RecordInv`) | `[]OnlyTheClockMisorders` of `VerificationRecord` |
| `AuditsAreExact` (`DirectoryKept`) | `[]AuditsSeeTheirExecution` of `VerificationRecord` |
| `RawWritesNeverPass` (`AuditInv`) | `[]RawWritesAreSuspected` of `AgentAudit` |
| `AuditsDifferForAReason` (`SnapshotsAgree`) | `[]DiffAuditDiffersForAReason` of `AgentAudit` |
| `ZeroIsEarned` (`LadderInv`) | `[]ExitZeroIsEarned` of `VerifyLadder` |
| `OldBuildsAreTold` (`RestartInv`) | `[]RestartOutlivesOldBuilds` of `VerifyLadder` |
| `ZeroMeansAllRan`, `BatchesReportEveryLine` (`CommandInv`) | `[]ExitZeroMeansAllRan`, `[]BatchReportsEveryLine` of `AgentCommand` |
| `EveryLineIsCounted`, `RowsAreThoseOfThePage`, `PagesMeet` (`DiffInv`) | `[]LinesAreCounted`, `[]RowsFollowPage`, `[]PageIsExact` of `DiffHunks` |
| `FilesAreCountedOnce` (`FilesInv`) | `[]FilesAreCounted` of `DiffHunks` |

`RecordInv` orders the times of an execution; `AuditInv` says that the verdict comes after the run and the log
no longer changes, and what it found of each file that no patch event names;
`LadderInv` says that scripts nest at most twice (`Nesting`) and that a flaw is noted by a script that still
runs or has shown in the exit code (`FlawNoted`). The other four follow what is kept from step to step.
`DirectoryKept` follows the directory of a run: a log is there unless somebody removed it since it was
written, and what an earlier execution left is not counted on before it is overwritten. `SnapshotsAgree` says
of every file that nobody wrote between two snapshots that what each of the four snapshots has recorded
of it is one content. `RestartInv` lists the four states of a ladder that restarts the server, before its
build, before its kill, after both, and when it gave up; only the third one meets kernels, and there every kernel that
serves or starts is of the new build or was told to stop. `CommandInv` relates what a batch has printed to the
lines it has sent and to the number of failures that the exit code is taken from, the lines with an answer of their
own set apart. The invariant of the parser treats a pass as a pipeline
of operators on one record (`PassOk`), so that the lemmas about `FinishHunk` and `FinishFile` serve every kind
of line. For the files, an open file is a named one, and those counted with the one that is open are
those that the diff has named.

### Only model-checked

Liveness is out of the proof system's reach: `EveryRequestIsAnswered` and `CallEnds` need that the fair action
is enabled whenever there is something left to do, which is a statement about ENABLED. Their safety halves are
proved: nobody waits for a block that does not run (`QueuesServeEachOther`) and each step takes from a count
that nothing increases (`RequestsTakeFewSteps`, `CallsTakeFewSteps`). The six violations are single behaviours, which
only a run can show; of `nested_calls_stuck`, `ApprovedStepsStopTheQueues` proves that it cannot end.
Every invariant and every action property of the passing runs is stated by a theorem.

## Not modelled

`PROJECT.json` has the list with reasons. In short:

- Of the patch pipeline: `applyBatchPatch`, `patch.revertLast` and the store of idempotency keys. A batch
  is a series of patches inside one block of the execution queue.
- Of the recovery store: binary files, older schemas, path escapes, and what `recovery.prune` chooses.
- Of the verification: the verify gate, which compares one counter, and the pipes of the subprocess, whose
  hazard lies in the size of a pipe.
- The task runtime: its steps are nested calls like those of combos; what it adds is counting inside one
  block.
- Connections and events of the kernel: what is hard about them is the reuse of descriptors by the
  operating system. The client's end of a connection is in `AgentClient`.
- The memory service, which persists what has already been answered, and BroccoliQ, a library of general
  use in a child process that is not on the path of an edit.
- Contracts, safety checks, search, the agent shell, git, editor, catalogs and JSON: queries, tables and
  formatting without a state that another component depends on.
- The data race on the registry's own collections, whose outcome is undefined and could be any state.
