--------------------------- MODULE RecoveryStore ----------------------------
(***************************************************************************)
(* MacControlRecoveryStore.mm, and what runComboWithPlan, combo.rollback   *)
(* and the recovery methods do with it.  Before its first step a combo     *)
(* copies the files that it will change into a directory of its own, and   *)
(* describes them in manifest.json, whose checksum is a second file.       *)
(* After each step the manifest is written again, with the texts to expect *)
(* when the combo is rolled back.                                          *)
(*                                                                         *)
(* One combo or rollback is under way at a time (the global mutation lock  *)
(* and the serial queue: NestedCalls); the kernel may die in each of its   *)
(* steps.  A hash stands for its text.  Every directory is of the current  *)
(* workspace and schema, and its blobs are whole when they are written     *)
(* (atomically and synchronised) but may rot later; binary files, which    *)
(* are never restored, are left out.                                       *)
(*                                                                         *)
(* Only the steps patch.apply and patch.applyBatch say which files they    *)
(* will change.  file.write and file.create say nothing, so that a combo   *)
(* may write files that are not in its manifest.                           *)
(***************************************************************************)
EXTENDS Naturals

CONSTANTS
    Managed,  \* the files that combos change
    Contents, \* what a file may hold
    Missing,  \* "the file does not exist", and the hash ""
    ComboId,  \* callers may choose the id of a combo, and choose it again
    MaxRuns, MaxMishaps \* bounds of the model on combos, and on deaths, failed
                        \* writes, rotten blobs and outside edits together

\* The files of a manifest, with their texts before the combo and now.
Entry == [pre : Contents \cup {Missing}, post : Contents \cup {Missing}]
Manifests == UNION {[files -> Entry] : files \in SUBSET Managed}

ASSUME StoreAssumption ==
    /\ Missing \notin Contents /\ Missing \notin Manifests
    /\ ComboId # {}
    /\ MaxRuns \in Nat /\ MaxMishaps \in Nat

VARIABLES
    onDisk,   \* the text of every file
    backup,   \* the directory of every combo
    combos,   \* the ids of this kernel
    job,      \* what is in progress
    reply,    \* what the last rollback returned
    declared, \* history: the files that the last combo of an id said it would patch
    touched,  \* history: the files that it has written
    torn,     \* history: ids with a new manifest and an old checksum
    deleted,  \* history: ids whose backup was deleted
    spoilt,   \* history: files edited or not written during the restore
    runs,     \* combos so far
    mishaps   \* mishaps so far

storeVars == <<onDisk, backup, combos, job, reply, declared, touched, torn, deleted,
               spoilt, runs, mishaps>>
history == <<declared, touched, torn, deleted, spoilt, runs, mishaps>>

-----------------------------------------------------------------------------
NoEntries == [f \in {} |-> Missing]

\* A blob has the name of its text; a rotten one does not hold it any more.
NoBackup == [there |-> FALSE, blobs |-> {}, rotten |-> {},
             manifest |-> Missing, checksum |-> Missing]

NoJob == [kind |-> "none", id |-> CHOOSE i \in ComboId : TRUE, at |-> "-",
          manifest |-> NoEntries, left |-> {}]

StoreInit ==
    /\ onDisk \in [Managed -> Contents \cup {Missing}]
    /\ backup = [i \in ComboId |-> NoBackup]
    /\ combos = {} /\ job = NoJob /\ reply = "none"
    /\ declared = [i \in ComboId |-> {}]
    /\ touched = [i \in ComboId |-> {}]
    /\ torn = {} /\ deleted = {} /\ spoilt = {}
    /\ runs = 0 /\ mishaps = 0

Mishap == mishaps < MaxMishaps /\ mishaps' = mishaps + 1

\* loadManifestFromPath.
Readable(b) == b.there /\ b.manifest # Missing /\ b.checksum = b.manifest

-----------------------------------------------------------------------------
(* createCheckpointForPaths.                                               *)

\* runComboWithPlan up to the checkpoint of the files of its patch steps, which
\* may be none; an id of an earlier combo finds the directory of that combo.
RunCombo(i, files) ==
    /\ job.kind = "none" /\ runs < MaxRuns /\ runs' = runs + 1
    /\ combos' = combos \cup {i}
    /\ backup' = [backup EXCEPT ![i].there = TRUE]
    /\ job' = [kind |-> "combo", id |-> i, at |-> IF files = {} THEN "manifest" ELSE "blobs",
               manifest |-> NoEntries, left |-> files]
    /\ declared' = [declared EXCEPT ![i] = files]
    /\ touched' = [touched EXCEPT ![i] = {}]
    /\ deleted' = deleted \ {i}
    /\ UNCHANGED <<onDisk, reply, torn, spoilt, mishaps>>

Described(f) == [g \in DOMAIN job.manifest \cup {f} |->
                   IF g = f THEN [pre |-> onDisk[f], post |-> onDisk[f]] ELSE job.manifest[g]]

\* Mutant: the text is described and not copied.
BackUpHash(f) ==
    /\ job.at = "blobs" /\ f \in job.left
    /\ job' = [job EXCEPT !.manifest = Described(f), !.left = @ \ {f},
                          !.at = IF job.left = {f} THEN "manifest" ELSE @]
    /\ UNCHANGED <<onDisk, backup, combos, reply, history>>

\* A file that does not exist has no blob; a blob that is there is replaced.
BackUp(f) ==
    /\ job.at = "blobs" /\ f \in job.left
    /\ backup' = [backup EXCEPT ![job.id].blobs = @ \cup ({onDisk[f]} \ {Missing}),
                                ![job.id].rotten = @ \ {onDisk[f]}]
    /\ job' = [job EXCEPT !.manifest = Described(f), !.left = @ \ {f},
                          !.at = IF job.left = {f} THEN "manifest" ELSE @]
    /\ UNCHANGED <<onDisk, combos, reply, history>>

\* writeManifest renames manifest.json ...
RenameManifest ==
    /\ job.at \in {"manifest", "rewrite"}
    /\ backup' = [backup EXCEPT ![job.id].manifest = job.manifest]
    /\ job' = [job EXCEPT !.at = IF @ = "manifest" THEN "checksum" ELSE "recheck"]
    /\ UNCHANGED <<onDisk, combos, reply, history>>

\* ... and then manifest.sha256.
RenameChecksum ==
    /\ job.at \in {"checksum", "recheck"}
    /\ backup' = [backup EXCEPT ![job.id].checksum = job.manifest]
    /\ job' = [job EXCEPT !.at = "steps"]
    /\ torn' = torn \ {job.id}
    /\ UNCHANGED <<onDisk, combos, reply, declared, touched, deleted, spoilt, runs, mishaps>>

\* A checkpoint that cannot be written is removed, with what an earlier combo
\* of the same id had in it.
CheckpointFails ==
    /\ job.at \in {"blobs", "manifest", "checksum"}
    /\ Mishap
    /\ backup' = [backup EXCEPT ![job.id] = NoBackup]
    /\ job' = NoJob
    /\ torn' = torn \ {job.id}
    /\ UNCHANGED <<onDisk, combos, reply, declared, touched, deleted, spoilt, runs>>

\* After the first step nobody looks at the result of writeManifest.
RewriteFails ==
    /\ job.at \in {"rewrite", "recheck"}
    /\ Mishap
    /\ job' = [job EXCEPT !.at = "steps"]
    /\ torn' = IF job.at = "recheck" THEN torn \cup {job.id} ELSE torn
    /\ UNCHANGED <<onDisk, backup, combos, reply, declared, touched, deleted, spoilt, runs>>

-----------------------------------------------------------------------------
(* The steps of the combo.                                                 *)

\* A patch of a file of the manifest, or file.write and file.create of any.
StepWrites(f, text) ==
    /\ job.at = "steps" /\ text # onDisk[f]
    /\ onDisk' = [onDisk EXCEPT ![f] = text]
    /\ touched' = [touched EXCEPT ![job.id] = @ \cup {f}]
    /\ job' = [job EXCEPT !.at = "stepped"]
    /\ UNCHANGED <<backup, combos, reply, declared, torn, deleted, spoilt, runs, mishaps>>

\* Every file of the manifest that exists is hashed again.
Rehashed ==
    [f \in DOMAIN job.manifest |->
        [pre |-> job.manifest[f].pre,
         post |-> IF onDisk[f] = Missing THEN job.manifest[f].post ELSE onDisk[f]]]

StepCompletes ==
    /\ job.at = "stepped"
    /\ job' = [job EXCEPT !.at = "rewrite", !.manifest = Rehashed]
    /\ UNCHANGED <<onDisk, backup, combos, reply, history>>

\* A step fails before it writes or, when its call times out, after it; or
\* the combo is cancelled, or over its budget.
ComboAborts ==
    /\ job.at \in {"steps", "stepped"}
    /\ job' = [job EXCEPT !.at = "check"]
    /\ UNCHANGED <<onDisk, backup, combos, reply, history>>

ComboEnds ==
    /\ job.at = "steps"
    /\ job' = NoJob
    /\ UNCHANGED <<onDisk, backup, combos, reply, history>>

-----------------------------------------------------------------------------
(* restorePatchFromManifest.                                               *)

\* combo.rollback, of a combo of this kernel or of an earlier one.
Rollback(i) ==
    /\ job.kind = "none"
    /\ IF Readable(backup[i])
       THEN /\ job' = [kind |-> "rollback", id |-> i, at |-> "check",
                       manifest |-> backup[i].manifest, left |-> {}]
            /\ reply' = "none"
       ELSE reply' = "refused" /\ UNCHANGED job
    /\ UNCHANGED <<onDisk, backup, combos, history>>

\* Mutant: a created file that is gone again counts as a mismatch.
RestorableThere(f, entry, blobs) ==
    /\ onDisk[f] # Missing /\ onDisk[f] = entry.post
    /\ entry.pre = Missing \/ entry.pre \in blobs

\* The blobs that can be read and have the hash of their name.
Sound(b) == b.blobs \ b.rotten

\* The file can be restored: it holds the expected text, or was to be removed
\* and is gone already, and its blob is sound.
Restorable(f, entry, blobs) ==
    IF entry.pre = Missing
    THEN onDisk[f] \in {Missing, entry.post}
    ELSE onDisk[f] # Missing /\ onDisk[f] = entry.post /\ entry.pre \in blobs

AllRestorable(manifest, blobs) ==
    \A f \in DOMAIN manifest : Restorable(f, manifest[f], blobs)

\* Nothing is written before every file has been looked at.
Check ==
    /\ job.at = "check"
    /\ IF AllRestorable(job.manifest, Sound(backup[job.id]))
       THEN /\ job' = [job EXCEPT !.at = "restore", !.left = DOMAIN job.manifest]
            /\ UNCHANGED reply
       ELSE job' = NoJob /\ reply' = "refused"
    /\ spoilt' = {}
    /\ UNCHANGED <<onDisk, backup, combos, declared, touched, torn, deleted, runs, mishaps>>

\* Mutant: a file that the combo created is emptied and stays.
RestoreKeepsNew(f) ==
    /\ job.at = "restore" /\ f \in job.left
    /\ onDisk' = [onDisk EXCEPT ![f] = IF job.manifest[f].pre = Missing
                                       THEN @ ELSE job.manifest[f].pre]
    /\ job' = [job EXCEPT !.left = @ \ {f}]
    /\ UNCHANGED <<backup, combos, reply, history>>

Restore(f) ==
    /\ job.at = "restore" /\ f \in job.left
    /\ onDisk' = [onDisk EXCEPT ![f] = job.manifest[f].pre]
    /\ job' = [job EXCEPT !.left = @ \ {f}]
    /\ UNCHANGED <<backup, combos, reply, history>>

\* Nobody looks at the errors of the writes and removals.
RestoreFails(f) ==
    /\ job.at = "restore" /\ f \in job.left
    /\ Mishap
    /\ job' = [job EXCEPT !.left = @ \ {f}]
    /\ spoilt' = spoilt \cup {f}
    /\ UNCHANGED <<onDisk, backup, combos, reply, declared, touched, torn, deleted, runs>>

RestoreEnds ==
    /\ job.at = "restore" /\ job.left = {}
    /\ job' = NoJob /\ reply' = "reverted"
    /\ UNCHANGED <<onDisk, backup, combos, history>>

-----------------------------------------------------------------------------
(* recovery.deleteBackup and recovery.prune, which deletes one by one.      *)

\* Mutant: only a combo that has not ended is active.
DeleteFinished(i, confirm) ==
    /\ job.kind = "none"
    /\ backup[i].there /\ (Readable(backup[i]) \/ confirm)
    /\ backup' = [backup EXCEPT ![i] = NoBackup]
    /\ deleted' = deleted \cup {i}
    /\ UNCHANGED <<onDisk, combos, job, reply, declared, touched, torn, spoilt, runs, mishaps>>

\* deleteBackupWithId: every combo that the kernel remembers is active, and a
\* backup that cannot be read is deleted only when the caller insists.
Delete(i, confirm) ==
    /\ job.kind = "none"
    /\ i \notin combos
    /\ backup[i].there /\ (Readable(backup[i]) \/ confirm)
    /\ backup' = [backup EXCEPT ![i] = NoBackup]
    /\ deleted' = deleted \cup {i}
    /\ UNCHANGED <<onDisk, combos, job, reply, declared, touched, torn, spoilt, runs, mishaps>>

-----------------------------------------------------------------------------
(* The rest of the world.                                                  *)

\* The kernel dies and another one is started.
KernelDies ==
    /\ Mishap
    /\ job' = NoJob /\ combos' = {} /\ reply' = "none"
    /\ torn' = IF job.at \in {"checksum", "recheck"} THEN torn \cup {job.id} ELSE torn
    /\ UNCHANGED <<onDisk, backup, declared, touched, deleted, spoilt, runs>>

BlobRots(i, text) ==
    /\ Mishap /\ text \in Sound(backup[i])
    /\ backup' = [backup EXCEPT ![i].rotten = @ \cup {text}]
    /\ UNCHANGED <<onDisk, combos, job, reply, declared, touched, torn, deleted, spoilt, runs>>

EditOutside(f, text) ==
    /\ Mishap /\ text # onDisk[f]
    /\ onDisk' = [onDisk EXCEPT ![f] = text]
    /\ spoilt' = IF job.at = "restore" THEN spoilt \cup {f} ELSE spoilt
    /\ UNCHANGED <<backup, combos, job, reply, declared, touched, torn, deleted, runs>>

StoreNext ==
    \/ \E i \in ComboId, files \in SUBSET Managed : RunCombo(i, files)
    \/ \E f \in Managed : BackUp(f) \/ Restore(f) \/ RestoreFails(f)
    \/ RenameManifest \/ RenameChecksum \/ CheckpointFails \/ RewriteFails
    \/ \E f \in Managed, text \in Contents : StepWrites(f, text)
    \/ StepCompletes \/ ComboAborts \/ ComboEnds
    \/ \E i \in ComboId : Rollback(i)
    \/ Check \/ RestoreEnds
    \/ \E i \in ComboId, confirm \in BOOLEAN : Delete(i, confirm)
    \/ KernelDies
    \/ \E i \in ComboId, text \in Contents : BlobRots(i, text)
    \/ \E f \in Managed, text \in Contents \cup {Missing} : EditOutside(f, text)

StoreSpec == StoreInit /\ [][StoreNext]_storeVars

-----------------------------------------------------------------------------
(* performRecoveryScan.                                                    *)

\* What the scan says of a file, in terms of its own.
ScanOfFile(f, entry) ==
    CASE entry.pre = Missing /\ onDisk[f] = Missing -> "match"
      [] onDisk[f] # Missing /\ onDisk[f] = entry.post -> "match"
      [] OTHER -> "mismatch"

Scan(b) ==
    CASE ~Readable(b) -> "invalid_manifest"
      [] Readable(b) /\ (\E f \in DOMAIN b.manifest :
           b.manifest[f].pre \notin b.blobs \cup {Missing}) -> "blob_missing"
      [] OTHER -> IF \E f \in DOMAIN b.manifest : ScanOfFile(f, b.manifest[f]) = "mismatch"
                  THEN "postimage_mismatch" ELSE "postimage_match"

-----------------------------------------------------------------------------
(* Properties.                                                             *)

\* What a combo has overwritten in a file that its patch steps declare has been
\* copied into its backup, whatever died or failed since, until somebody
\* deletes the backup, which nobody can while the kernel of the combo lives.
\* Only a death or a failed write between manifest.json and manifest.sha256
\* makes the backup of a combo unreadable (createCheckpointForPaths,
\* writeManifest, deleteBackupWithId).
PreimagesAreKept ==
    /\ deleted \cap combos = {}
    /\ \A i \in ComboId \ deleted : touched[i] # {} =>
         /\ \/ Readable(backup[i])
            \/ i \in torn
            \/ job.id = i /\ job.at = "recheck"
         /\ touched[i] \cap declared[i] \subseteq DOMAIN backup[i].manifest
         /\ \A f \in touched[i] \cap declared[i] :
              backup[i].manifest[f].pre \in backup[i].blobs \cup {Missing}


\* recovery.scan says postimage_match of the backups that a combo.rollback would
\* accept, and of no others but those with a rotten blob, which it does not
\* open: the two look at the files in code of their own (performRecoveryScan,
\* restorePatchFromManifest).
ScanForetellsRollback ==
    \A i \in ComboId :
        LET b == backup[i]
            foretold == Scan(b) = "postimage_match"
            accepted == Readable(b) /\ AllRestorable(b.manifest, Sound(b))
        IN  /\ accepted => foretold
            /\ foretold => accepted \/ \E f \in DOMAIN b.manifest : b.manifest[f].pre \in b.rotten

\* After a rollback that reports success every file of its manifest holds its
\* text from before the combo again, and those that the combo created are gone,
\* but for files that could not be written or that somebody edited meanwhile
\* (restorePatchFromManifest).
RevertedMeansRestored ==
    [][RestoreEnds =>
         \A f \in DOMAIN job.manifest \ spoilt : onDisk[f] = job.manifest[f].pre]_storeVars
=============================================================================
