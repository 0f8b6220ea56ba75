------------------------- MODULE CoherenceRecovery --------------------------
(***************************************************************************)
(* recover_and_apply_patch of scripts/dietcode_coherence.py: an agent      *)
(* replaces one line of Target with a patch computed from a text it read   *)
(* earlier, and, when the kernel answers coherence_mismatch, reads again   *)
(* and retries once.                                                       *)
(*                                                                         *)
(* A step is one call to the kernel with what the client makes of its      *)
(* answer; a patch that the kernel lets in takes two more, the read of the *)
(* file and the write.  The rest of the world moves between the steps.  Of *)
(* the kernel there is what this client meets: the token of its task, the  *)
(* anchors of the drift gate, and its own patch with its approval.         *)
(* Coherence and MutationGates have the kernel in full.                    *)
(***************************************************************************)
EXTENDS Naturals, Sequences

CONSTANTS
    Path, Target,   \* files of the workspace, and the one that is patched
    Line, Wanted,   \* what the line may be, and what the agent wants it to be
    Rest,           \* what the remainder of a file may be
    NoText,         \* "no anchor", "no hash yet"
    MaxChanges      \* bound of the model on what others do

ASSUME RecoveryAssumption ==
    /\ Target \in Path
    /\ Wanted \in Line
    /\ NoText \notin [line : Line, rest : Rest]
    /\ MaxChanges \in Nat

VARIABLES
    disk,      \* the text of every file
    counters,  \* revision, verify and contextRefreshId of the kernel
    coherence, \* the kernel's token of the task
    tracked,   \* the anchors of the drift gate
    parked,    \* the patch waits for its approval
    underway,  \* the patch while applyPatch has it
    step,      \* what the client does next
    attempt,   \* 1, or 2 after a mismatch
    seen,      \* the text the patch was computed from
    params,    \* what the patch cites
    late,      \* a request that the client gave up and the kernel still has
    result,    \* what the caller is told
    wrote,     \* history: the texts that the patch has replaced
    world      \* history of what the others did

kernelState == <<disk, counters, coherence, tracked, parked, underway>>
clientState == <<step, attempt, seen, params, late, result>>
recoveryVars == <<kernelState, clientState, wrote, world>>

-----------------------------------------------------------------------------
Text == [line : Line, rest : Rest]

Steps == {"hash", "apply", "refresh", "again", "resolve",
          "reread", "issue", "reanchor", "revalidate", "over"}

\* base is the text that applyPatch has read; client, whether this client waits
\* for the answer; slipped, history: Target was edited meanwhile.
NoPatch == [at |-> "-", client |-> FALSE, base |-> NoText, slipped |-> FALSE]

AnchorsAt(paths) == [p \in Path |-> IF p \in paths THEN disk[p] ELSE NoText]

\* The caller has read some files, Target last, and computed its patch; the
\* hash of Target may be known (stale_expect_before_hash).
RecoveryInit ==
    /\ disk \in {[p \in Path |-> t] : t \in Text}
    /\ counters = [revision |-> 1, verify |-> 0, refresh |-> 1]
    /\ \E read \in SUBSET Path :
        /\ Target \in read
        /\ tracked = AnchorsAt(read)
        /\ coherence = [id |-> 1, alive |-> TRUE, verify |-> 0, anchors |-> AnchorsAt(read)]
    /\ parked = FALSE /\ underway = NoPatch
    /\ step \in {"hash", "apply"}
    /\ attempt = 1
    /\ seen = disk[Target]
    /\ params = [id |-> 1, revision |-> 1, refresh |-> 0,
                 hash |-> IF step = "apply" THEN disk[Target] ELSE NoText]
    /\ late = "none"
    /\ result = "none"
    /\ wrote = <<>>
    /\ world = [changes |-> 0, raced |-> FALSE, disturbed |-> FALSE, others |-> FALSE]

-----------------------------------------------------------------------------
(* The kernel.                                                             *)

\* validateMutationParams.
Coherent ==
    /\ coherence.alive /\ params.id = coherence.id
    /\ params.revision = counters.revision
    /\ coherence.verify = counters.verify
    /\ \A p \in Path : coherence.anchors[p] \in {NoText, disk[p]}

\* statusPayload and validateContextRefreshForParams.
DriftBlocks ==
    /\ \E p \in Path : tracked[p] \notin {NoText, disk[p]}
    /\ params.refresh # counters.refresh

\* A file that the task has read, other than Target, has changed since.
OthersStale ==
    \E p \in Path \ {Target} : coherence.anchors[p] \notin {NoText, disk[p]}

Mismatch ==
    /\ ~Coherent
    /\ world' = [world EXCEPT !.others = @ \/ OthersStale]
    /\ UNCHANGED underway

Admit(client) ==
    /\ Coherent
    /\ underway' = [at |-> "admitted", client |-> client, base |-> NoText, slipped |-> FALSE]
    /\ UNCHANGED world

\* processRequest: coherence before drift before approval.  The answer is
\* "none" when the patch is let in.
Gates(answer, client) ==
    /\ underway.at = "-"
    /\ \/ answer = "coherence_mismatch" /\ Mismatch /\ UNCHANGED parked
       \/ answer = "drift" /\ Coherent /\ DriftBlocks /\ UNCHANGED <<parked, underway, world>>
       \/ answer = "parked" /\ Coherent /\ ~DriftBlocks /\ parked' = TRUE
          /\ UNCHANGED <<underway, world>>
       \/ answer = "none" /\ ~DriftBlocks /\ Admit(client) /\ UNCHANGED parked
    /\ UNCHANGED <<disk, counters, coherence, tracked, wrote>>

\* approval.resolve of an approval that is still pending.
Grants(answer, client) ==
    /\ underway.at = "-"
    /\ parked /\ parked' = FALSE
    /\ \/ answer = "coherence_mismatch" /\ Mismatch
       \/ answer = "none" /\ Admit(client)
    /\ UNCHANGED <<disk, counters, coherence, tracked, wrote>>

-----------------------------------------------------------------------------
(* The client.                                                             *)

Goto(next) == step' = next /\ UNCHANGED <<attempt, seen, params, late, result>>

Return(what) ==
    /\ step' = "over" /\ result' = what
    /\ UNCHANGED <<attempt, seen, params, late>>

\* What recover_and_apply_patch makes of an answer to patch.apply.  A drift
\* answer is "ok": the first one is retried, the second one returned.
Takes(answer) ==
    CASE answer = "coherence_mismatch" /\ attempt = 1 -> Goto("reread")
      [] answer = "coherence_mismatch" /\ attempt = 2 -> Return("operator")
      [] answer = "drift" -> IF step = "apply" THEN Goto("refresh") ELSE Return("drift")
      [] answer = "parked" -> Goto("resolve")
      [] answer = "none" -> UNCHANGED clientState
      [] OTHER -> Return(answer)

\* patch.validate, for the hash of the file as it is now.
HashFirst ==
    /\ step = "hash"
    /\ params' = [params EXCEPT !.hash = disk[Target]]
    /\ step' = "apply"
    /\ UNCHANGED <<kernelState, attempt, seen, late, result, wrote, world>>

Apply ==
    /\ step \in {"apply", "again"}
    /\ \E answer \in {"coherence_mismatch", "drift", "parked", "none"} :
         Gates(answer, TRUE) /\ Takes(answer)

\* workspace.refreshAnchor hashes every tracked file again.
Refreshes ==
    /\ tracked' = [p \in Path |-> IF tracked[p] = NoText THEN NoText ELSE disk[p]]
    /\ counters' = [counters EXCEPT !.refresh = @ + 1]
    /\ UNCHANGED <<disk, coherence, parked, wrote>>

\* _complete_after_workspace_drift: when the refresh fails, its answer is
\* taken for that of the patch.
RefreshAndCite ==
    /\ step = "refresh"
    /\ \/ /\ Refreshes
          /\ params' = [params EXCEPT !.refresh = counters'.refresh]
          /\ step' = "again"
          /\ UNCHANGED <<underway, attempt, seen, late, result>>
       \/ Return("refused") /\ UNCHANGED <<kernelState, wrote>>
    /\ UNCHANGED world

\* resolve_kernel_approval: the patch runs now, and its answer is taken for
\* the answer to patch.apply, unless somebody else has decided.
ResolveApproval ==
    /\ step = "resolve"
    /\ \/ \E answer \in {"coherence_mismatch", "none"} :
            Grants(answer, TRUE) /\ Takes(answer)
       \/ /\ ~parked /\ underway.at = "-"
          /\ Return("unresolved")
          /\ UNCHANGED <<kernelState, wrote, world>>

\* Mutant: the retry sends the patch that was refused.
RereadKeepsPatch ==
    /\ step = "reread"
    /\ attempt' = 2 /\ step' = "issue"
    /\ UNCHANGED <<kernelState, seen, params, late, result, wrote, world>>

\* read_with_coherence: file.read reads the text ...
Reread ==
    /\ step = "reread"
    /\ attempt' = 2 /\ step' = "issue"
    /\ seen' = disk[Target]
    /\ UNCHANGED <<kernelState, params, late, result, wrote, world>>

\* Mutant: the retry cites the revision of the first read.
IssueKeepsRevision ==
    /\ step = "issue" /\ step' = "reanchor"
    /\ coherence' = [coherence EXCEPT !.alive = TRUE, !.verify = counters.verify,
                        !.anchors = [@ EXCEPT ![Target] = disk[Target]]]
    /\ tracked' = [tracked EXCEPT ![Target] = disk[Target]]
    /\ UNCHANGED <<disk, counters, parked, underway, attempt, seen, params, late, result, wrote, world>>

\* ... and then issues the token: one of the task that is alive keeps the
\* anchors of its other files.
Issue ==
    /\ step = "issue" /\ step' = "reanchor"
    /\ LET id == IF coherence.alive THEN coherence.id ELSE coherence.id + 1
           anchors == IF coherence.alive THEN coherence.anchors ELSE AnchorsAt({})
       IN  /\ coherence' = [id |-> id, alive |-> TRUE, verify |-> counters.verify,
                            anchors |-> [anchors EXCEPT ![Target] = disk[Target]]]
           /\ params' = [id |-> id, revision |-> counters.revision, refresh |-> 0, hash |-> NoText]
    /\ tracked' = [tracked EXCEPT ![Target] = disk[Target]]
    /\ UNCHANGED <<disk, counters, parked, underway, attempt, seen, late, result, wrote, world>>

\* The answer to this refresh is not looked at.
Reanchor ==
    /\ step = "reanchor" /\ Goto("revalidate")
    /\ Refreshes
    /\ UNCHANGED <<underway, world>>

Revalidate ==
    /\ step = "revalidate"
    /\ params' = [params EXCEPT !.hash = disk[Target]]
    /\ step' = "apply"
    /\ UNCHANGED <<kernelState, attempt, seen, late, result, wrote, world>>

\* The kernel keeps a request that it has let in, and one that it has not
\* looked at yet.
Abandon ==
    /\ late' = IF step \in {"apply", "again", "resolve"} /\ ~underway.client THEN step ELSE "none"
    /\ underway' = [underway EXCEPT !.client = FALSE]
    /\ UNCHANGED <<disk, counters, coherence, tracked, parked>>

\* Mutant: a call that gets no answer is treated like a mismatch.
RaiseRetries ==
    /\ step # "over" /\ Abandon
    /\ IF attempt = 1
       THEN step' = "reread" /\ UNCHANGED result
       ELSE step' = "over" /\ result' = "raised"
    /\ world' = [world EXCEPT !.disturbed = TRUE]
    /\ UNCHANGED <<attempt, seen, params, wrote>>

\* A call gets no answer in time or an unexpected one, or the new text has no
\* line to replace.
Raise ==
    /\ step # "over" /\ step' = "over" /\ Abandon
    /\ result' = "raised"
    /\ world' = [world EXCEPT !.disturbed = TRUE]
    /\ UNCHANGED <<attempt, seen, params, wrote>>

ClientDoes ==
    \/ HashFirst \/ Apply \/ RefreshAndCite \/ ResolveApproval
    \/ Reread \/ Issue \/ Reanchor \/ Revalidate \/ Raise

-----------------------------------------------------------------------------
(* applyPatch, behind its own validation of the token.                     *)

Ends(answer) ==
    /\ underway' = NoPatch
    /\ IF underway.client THEN Takes(answer) ELSE UNCHANGED clientState

\* The text is read, and compared with the hash that the patch cites.
ReadBase ==
    /\ underway.at = "admitted" /\ disk[Target] = params.hash
    /\ underway' = [underway EXCEPT !.at = "checked", !.base = disk[Target]]
    /\ UNCHANGED <<disk, counters, coherence, tracked, parked, clientState, wrote, world>>

\* The hash is another one, the lines around the patched one do not fit, or
\* the write fails.
RefusePatch ==
    /\ underway.at # "-" /\ Ends("refused")
    /\ world' = [world EXCEPT !.disturbed = @ \/ (disk[Target] = seen /\ params.hash = seen)]
    /\ UNCHANGED <<disk, counters, coherence, tracked, parked, wrote>>

\* The editor reads the file once more before it writes (and may be overtaken
\* there as well), the disk channel patches the text that was read.
Write ==
    /\ underway.at = "checked" /\ Ends("applied")
    /\ \E base \in {underway.base, disk[Target]} :
        /\ base.line = seen.line
        /\ disk' = [disk EXCEPT ![Target] = [base EXCEPT !.line = Wanted]]
    /\ tracked' = [tracked EXCEPT ![Target] = disk'[Target]]
    /\ counters' = [counters EXCEPT !.revision = @ + 1]
    /\ wrote' = Append(wrote, [text |-> disk[Target], seen |-> seen, raced |-> world.raced,
                               slipped |-> underway.slipped])
    /\ UNCHANGED <<coherence, parked, world>>

-----------------------------------------------------------------------------
(* Everybody else.                                                         *)

Late ==
    /\ late # "none" /\ late' = "none"
    /\ \E answer \in {"coherence_mismatch", "drift", "parked", "none"} :
         IF late = "resolve" THEN Grants(answer, FALSE) ELSE Gates(answer, FALSE)
    /\ UNCHANGED <<step, attempt, seen, params, result>>

\* Recovering begins with the first mismatch; an edit races with file.read
\* when it comes between the text and the token, and slips into a patch when
\* it comes between the checks of applyPatch and its write.
Disturbs ==
    LET edited == disk'[Target] # disk[Target]
    IN  /\ world.changes < MaxChanges
        /\ world' = [world EXCEPT !.changes = @ + 1,
                       !.raced = @ \/ (step = "issue" /\ edited),
                       !.disturbed = @ \/ attempt = 2 \/ step = "reread"]
        /\ underway' = [underway EXCEPT !.slipped = @ \/ (underway.at # "-" /\ edited)]
        /\ UNCHANGED clientState

Edits(p) == \E t \in Text \ {disk[p]} : disk' = [disk EXCEPT ![p] = t]

\* A person or another program.
OutsideEdit(p) ==
    /\ Edits(p) /\ Disturbs
    /\ UNCHANGED <<counters, coherence, tracked, parked, wrote>>

\* Another patch or file.write: the execution queue runs one at a time.
OtherPatch(p) ==
    /\ underway.at = "-" /\ Edits(p) /\ Disturbs
    /\ tracked' = [tracked EXCEPT ![p] = disk'[p]]
    /\ counters' = [counters EXCEPT !.revision = @ + 1]
    /\ UNCHANGED <<coherence, parked, wrote>>

OtherVerification ==
    /\ counters' = [counters EXCEPT !.verify = @ + 1]
    /\ UNCHANGED <<disk, coherence, tracked, parked, wrote>>
    /\ Disturbs

OtherRefresh == Refreshes /\ Disturbs

\* The token expires, or other tasks evict it.
TokenDies ==
    /\ coherence' = [coherence EXCEPT !.alive = FALSE]
    /\ UNCHANGED <<disk, counters, tracked, parked, wrote>>
    /\ Disturbs

\* Somebody else approves, rejects or lets the approval expire.
OtherDecides ==
    /\ parked
    /\ \/ \E answer \in {"coherence_mismatch", "none"} : Grants(answer, FALSE)
       \/ parked' = FALSE /\ UNCHANGED <<disk, counters, coherence, tracked, underway, wrote, world>>
    /\ UNCHANGED clientState

WorldDoes ==
    \/ \E p \in Path : OutsideEdit(p) \/ OtherPatch(p)
    \/ OtherVerification \/ OtherRefresh \/ TokenDies \/ OtherDecides \/ Late

RecoveryNext == ClientDoes \/ ReadBase \/ RefusePatch \/ Write \/ WorldDoes

RecoverySpec == RecoveryInit /\ [][RecoveryNext]_recoveryVars

-----------------------------------------------------------------------------
(* Properties.                                                             *)

\* The text that a patch replaces is the text it was computed from, in the
\* first attempt, in the retry, through an approval and when it runs after
\* the client gave up.  There are two ways around: an edit while file.read is
\* between the text and the token, and one that the kernel does not make
\* itself while applyPatch is between its checks and the write
\* (recover_and_apply_patch, applyPatch).
WritesWhatWasSeen ==
    \A i \in DOMAIN wrote :
        wrote[i].text = wrote[i].seen \/ wrote[i].raced \/ wrote[i].slipped

\* Whatever fails, is retried, parked, resolved by others or answered late:
\* the edit is written at most once, and a result that is certain is true.
Edit == INSTANCE OneEdit WITH writes <- Len(wrote)

ImplementsOneEdit == Edit!Spec

\* When nobody disturbs the recovery and Target alone was stale, the retry
\* succeeds, unless somebody else decides on its approval: the token, the
\* hash and the anchors of the drift gate are all as the kernel wants them
\* (recover_and_apply_patch).
UndisturbedRecoverySucceeds ==
    attempt = 2 /\ result # "none" /\ ~world.disturbed /\ ~world.others
      => result \in {"applied", "unresolved"}

\* "file.read changedPaths (taskId) -> context.refreshed -> ... one automatic
\* attempt -> success OR coherence.operator_required" (coherence-tokens.md):
\* an operator is needed only when somebody disturbs the recovery.
OperatorNeedsDisturbance == result = "operator" => world.disturbed
=============================================================================
