----------------------------- MODULE AgentAudit ------------------------------
(***************************************************************************)
(* The audits of one agent run: workspace_manifest before and after the    *)
(* run, the log of the bridge's patches, and audit_mutation_authority      *)
(* (scripts/dietcode_mutation_authority.py); snapshot_text_files before    *)
(* and after, and audit_diff_authority (scripts/dietcode_diff_authority.py *)
(* ).  The harness takes the four snapshots at four different times, file  *)
(* by file, while the bridge and others write.                             *)
(*                                                                         *)
(* The harness and the bridge are not in the repository: the order of the  *)
(* calls is that of the tests.                                             *)
(***************************************************************************)
EXTENDS Naturals, FiniteSets

CONSTANTS
    File,       \* files of the workspace
    Outside,    \* a path that is not in the workspace
    MaxWrites   \* bound of the model on the writes during the audit

ASSUME AuditAssumption == Outside \notin File /\ MaxWrites \in Nat

VARIABLES
    tree,      \* what each file is
    scan,      \* what the harness is doing, and the files it has still to visit
    manifests, \* the manifest before and after the run
    texts,     \* the text snapshot before and after
    eventLog,  \* the lines of the bridge's log
    audit,     \* the verdict of audit_mutation_authority
    matches,   \* matchesMutationAuthority
    writes,    \* writes so far
    rawWrote,  \* history: files that were written without the bridge
    unsettled  \* history: files written between two snapshots that are compared

auditVars == <<tree, scan, manifests, texts, eventLog, audit, matches,
               writes, rawWrote, unsettled>>

-----------------------------------------------------------------------------
\* "crlf" is another file that reads as the text "a"; "big" is longer than
\* MAX_MANIFEST_FILE_BYTES; hidden files are no files of the model.
Content == {"none", "a", "b", "crlf", "binary", "big"}
TextContent == {"a", "b", "crlf"}

\* The entry of a file in a manifest and in a text snapshot.
DigestOf(c) == IF c = "big" THEN "none" ELSE c
TextOf(c) == CASE c \in {"big", "binary"} -> "none" [] c = "crlf" -> "a" [] OTHER -> c

Nothing == [f \in File |-> "none"]

\* The stages of an audit, in the order of the tests.
Stage == <<"manifest", "list", "texts", "run", "manifest", "audit", "list", "texts", "diff", "over">>

StageName == Stage[scan.at]
Second == scan.at > 4
Side == IF Second THEN "after" ELSE "before"

AuditInit ==
    /\ tree \in [File -> Content]
    /\ scan = [at |-> 1, todo |-> File, listed |-> {}]
    /\ manifests = [before |-> Nothing, after |-> Nothing]
    /\ texts = [before |-> Nothing, after |-> Nothing]
    /\ eventLog = {}
    /\ audit = [mode |-> "none", mutated |-> {}, suspected |-> FALSE]
    /\ matches = FALSE
    /\ writes = 0
    /\ rawWrote = {} /\ unsettled = {}

-----------------------------------------------------------------------------
(* The harness.                                                            *)

Visits(stage, f) == StageName = stage /\ f \in scan.todo

Visited(f) == scan' = [scan EXCEPT !.todo = @ \ {f}]

\* workspace_manifest: one file of the walk.
HashEntry(f) ==
    /\ Visits("manifest", f)
    /\ manifests' = [manifests EXCEPT ![Side][f] = DigestOf(tree[f])]
    /\ Visited(f)
    /\ UNCHANGED <<tree, texts, eventLog, audit, matches, writes, rawWrote, unsettled>>

\* snapshot_text_files walks the manifest first, and reads every file again.
ListEntry(f) ==
    /\ Visits("list", f)
    /\ scan' = [scan EXCEPT !.todo = @ \ {f},
                            !.listed = IF DigestOf(tree[f]) = "none" THEN @ ELSE @ \cup {f}]
    /\ UNCHANGED <<tree, manifests, texts, eventLog, audit, matches, writes, rawWrote, unsettled>>

\* The size is not looked at again: a file that has grown is taken.
Grown(c) == IF c = "big" THEN "big" ELSE TextOf(c)

TextEntry(f) ==
    /\ Visits("texts", f)
    /\ texts' = [texts EXCEPT ![Side][f] = IF f \in scan.listed THEN Grown(tree[f]) ELSE "none"]
    /\ Visited(f)
    /\ UNCHANGED <<tree, manifests, eventLog, audit, matches, writes, rawWrote, unsettled>>

\* Mutant: every line of the log counts.
PatchEventsOfAnyType(lines) == {l.path : l \in lines}

\* read_mutation_event_log: lines that are no patch events are skipped.
PatchEvents(lines) == {l.path : l \in {x \in lines : x.patch}}

Changed == {f \in File : manifests.before[f] # manifests.after[f]}

\* Mutant: a bridge event vouches for every file.
UnmatchedUnlessBridge(events) == IF events = {} THEN Changed ELSE {}

Unmatched(events) == Changed \ events

\* audit_mutation_authority.
AuditMode(events) ==
    IF Outside \in events THEN "violated"
    ELSE IF Changed = {} THEN "no_mutation"
    ELSE IF events = {} THEN "violated"
    ELSE IF Unmatched(events) = {} THEN "bridge_only" ELSE "unknown"

AuditMutation ==
    /\ StageName = "audit"
    /\ LET events == PatchEvents(eventLog)
       IN  audit' = [mode |-> AuditMode(events), mutated |-> Changed,
                     suspected |-> \/ Outside \in events
                                   \/ Unmatched(events) # {}]
    /\ scan' = [at |-> scan.at + 1, todo |-> File, listed |-> {}]
    /\ UNCHANGED <<tree, manifests, texts, eventLog, matches, writes, rawWrote, unsettled>>

\* Mutant: only the files of the later snapshot are compared.
TextChangedOfPresent ==
    {f \in File : texts.after[f] # "none" /\ texts.before[f] # texts.after[f]}

\* The changed files of build_unified_diff.
TextChanged == {f \in File : texts.before[f] # texts.after[f]}

AuditDiff ==
    /\ StageName = "diff"
    /\ matches' = (audit.mutated = TextChanged)
    /\ scan' = [scan EXCEPT !.at = @ + 1]
    /\ UNCHANGED <<tree, manifests, texts, eventLog, audit, writes, rawWrote, unsettled>>

\* A walk is over, or the agent has ended its run.
NextStage ==
    /\ StageName \in {"manifest", "list", "texts", "run"}
    /\ StageName # "run" => scan.todo = {}
    /\ scan' = [scan EXCEPT !.at = @ + 1, !.todo = File]
    /\ UNCHANGED <<tree, manifests, texts, eventLog, audit, matches, writes, rawWrote, unsettled>>

-----------------------------------------------------------------------------
(* The writers.                                                            *)

\* The write falls between the snapshots of the two audits, so that they
\* compare different files.
Splits(f) ==
    CASE StageName = "run" -> FALSE
      [] StageName = "manifest" -> f \notin scan.todo
      [] OTHER -> TRUE

Writes(f, c) ==
    /\ writes < MaxWrites
    /\ StageName # "over"
    /\ tree[f] # c
    /\ tree' = [tree EXCEPT ![f] = c]
    /\ writes' = writes + 1
    /\ unsettled' = IF Splits(f) THEN unsettled \cup {f} ELSE unsettled
    /\ UNCHANGED <<scan, manifests, texts, audit, matches>>

\* A patch of the bridge, and its line in the log; a line that is torn does
\* not parse.
BridgePatch(f, c) ==
    /\ StageName = "run"
    /\ tree[f] \in TextContent /\ c \in TextContent
    /\ Writes(f, c)
    /\ \E torn \in BOOLEAN :
          eventLog' = eventLog \cup {[path |-> f, patch |-> ~torn]}
    /\ UNCHANGED rawWrote

\* Other events are logged too, and a patch may have left the workspace.
LogOther ==
    /\ StageName = "run" /\ writes < MaxWrites
    /\ \E l \in {[path |-> Outside, patch |-> TRUE]}
              \cup [path : File, patch : {FALSE}] : eventLog' = eventLog \cup {l}
    /\ writes' = writes + 1
    /\ UNCHANGED <<tree, scan, manifests, texts, audit, matches, rawWrote, unsettled>>

RawWrite(f, c) ==
    /\ Writes(f, c)
    /\ rawWrote' = rawWrote \cup {f}
    /\ UNCHANGED eventLog

AuditNext ==
    \/ \E f \in File : HashEntry(f) \/ ListEntry(f) \/ TextEntry(f)
    \/ NextStage \/ AuditMutation \/ AuditDiff
    \/ LogOther
    \/ \E f \in File, c \in Content : BridgePatch(f, c) \/ RawWrite(f, c)

AuditSpec == AuditInit /\ [][AuditNext]_auditVars

-----------------------------------------------------------------------------
(* Properties.                                                             *)

PatchedFiles == {l.path : l \in {x \in eventLog : x.patch}}

\* A file that something else than the bridge has written, and that the bridge
\* has not patched, is not passed over: when its manifest entry differs, the
\* run is suspected and neither "bridge_only" nor "no_mutation"
\* (audit_mutation_authority).  Of a file that both have written the audit
\* says nothing: it compares paths.
RawWritesAreSuspected ==
    audit.mode # "none" =>
        \A f \in rawWrote \ PatchedFiles :
            f \in audit.mutated =>
                audit.suspected /\ audit.mode \in {"violated", "unknown"}

\* The two audits differ only over files that were written between their
\* snapshots, or whose change is not one of its text: to or from a binary or
\* a file that reads the same (audit_diff_authority).
DiffAuditDiffersForAReason ==
    StageName = "over" =>
        \A f \in (audit.mutated \ TextChanged) \cup (TextChanged \ audit.mutated) :
            \/ f \in unsettled
            \/ TextOf(manifests.before[f]) = TextOf(manifests.after[f])
=============================================================================
