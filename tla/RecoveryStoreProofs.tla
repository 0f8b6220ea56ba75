------------------------ MODULE RecoveryStoreProofs -------------------------
(***************************************************************************)
(* The recovery store keeps what combos overwrite, for any number of       *)
(* files, texts, combos and mishaps.  The invariant follows a combo from   *)
(* its blobs over the two renames of its manifest to its steps.            *)
(***************************************************************************)
EXTENDS RecoveryStore, TLAPS

-----------------------------------------------------------------------------
(* Types.                                                                  *)

Text == Contents \cup {Missing}
Backups == [there : BOOLEAN, blobs : SUBSET Text, rotten : SUBSET Text,
            manifest : Manifests \cup {Missing}, checksum : Manifests \cup {Missing}]
Places == {"-", "blobs", "manifest", "checksum", "steps", "stepped", "rewrite", "recheck",
           "check", "restore"}
Jobs == [kind : {"none", "combo", "rollback"}, id : ComboId, at : Places,
         manifest : Manifests, left : SUBSET Managed]

StoreType ==
    /\ onDisk \in [Managed -> Text]
    /\ backup \in [ComboId -> Backups]
    /\ job \in Jobs
    /\ declared \in [ComboId -> SUBSET Managed]
    /\ touched \in [ComboId -> SUBSET Managed]

LEMMA ManifestIs ==
    ASSUME NEW m \in Manifests
    PROVE  DOMAIN m \subseteq Managed /\ m \in [DOMAIN m -> Entry]
  BY DEF Manifests

LEMMA ManifestMade ==
    ASSUME NEW S \in SUBSET Managed, NEW m \in [S -> Entry]
    PROVE  m \in Manifests
  BY DEF Manifests

LEMMA NoEntriesIs == NoEntries \in Manifests /\ DOMAIN NoEntries = {}
  <1>1. {} \in SUBSET Managed /\ NoEntries \in [{} -> Entry] /\ DOMAIN NoEntries = {}
    BY DEF NoEntries
  <1> QED BY <1>1, ManifestMade

LEMMA NoBackupIs == NoBackup \in Backups
  BY DEF NoBackup, Backups

LEMMA NoJobIs == NoJob \in Jobs /\ NoJob.kind = "none" /\ NoJob.at = "-"
  BY StoreAssumption, NoEntriesIs DEF NoJob, Jobs, Places

-----------------------------------------------------------------------------
(* The invariant.                                                          *)

\* Every text that the manifest describes has been copied.
Backed(m, blobs) == \A f \in DOMAIN m : m[f].pre \in blobs \cup {Missing}

SamePre(m, n) == DOMAIN m = DOMAIN n /\ \A f \in DOMAIN m : m[f].pre = n[f].pre

Own == backup[job.id]

InCombo == {"blobs", "manifest", "checksum", "steps", "stepped", "rewrite", "recheck"}

\* From the blobs to the steps, and what each rename finds.
JobInv ==
    /\ job.kind = "none" => job.at = "-"
    /\ job.at \in {"blobs", "manifest", "checksum"} => touched[job.id] = {}
    /\ job.at \in InCombo => Own.there /\ Backed(job.manifest, Own.blobs)
    /\ job.at = "blobs" => declared[job.id] \subseteq DOMAIN job.manifest \cup job.left
    /\ job.at \in InCombo \ {"blobs"} => declared[job.id] \subseteq DOMAIN job.manifest
    /\ job.at \in {"checksum", "recheck"} => Own.manifest = job.manifest
    /\ job.at \in {"steps", "stepped", "rewrite", "recheck"} => SamePre(job.manifest, Own.manifest)
    /\ job.at \in {"steps", "stepped", "rewrite"} => Readable(Own) \/ job.id \in torn

\* What the backup of one id has kept.
Kept(i) ==
    /\ Readable(backup[i]) \/ i \in torn \/ (job.id = i /\ job.at = "recheck")
    /\ touched[i] \cap declared[i] \subseteq DOMAIN backup[i].manifest
    /\ \A f \in touched[i] \cap declared[i] : backup[i].manifest[f].pre \in backup[i].blobs \cup {Missing}

KeptInv ==
    /\ deleted \cap combos = {}
    /\ \A i \in ComboId \ deleted : touched[i] # {} => Kept(i)

\* What the restore has done is there.
RestoreInv ==
    job.at = "restore" =>
      /\ job.left \subseteq DOMAIN job.manifest
      /\ \A f \in (DOMAIN job.manifest \ job.left) \ spoilt : onDisk[f] = job.manifest[f].pre

StoreInv == StoreType /\ JobInv /\ KeptInv /\ RestoreInv

\* The step leaves what the invariant says of backups and combos alone.
LEMMA Untouched ==
    ASSUME StoreInv, UNCHANGED <<backup, combos, deleted, declared, touched>>,
           torn \subseteq torn', job.at = "recheck" => job.id \in torn' \/ UNCHANGED job
    PROVE  KeptInv'
  BY DEF StoreInv, KeptInv, Kept, Readable

\* The job is over.
LEMMA JobOver ==
    ASSUME StoreInv, job' = NoJob, StoreType', KeptInv'
    PROVE  StoreInv'
  BY NoJobIs DEF StoreInv, JobInv, RestoreInv, InCombo

-----------------------------------------------------------------------------
(* The checkpoint.                                                         *)

LEMMA RunComboStep ==
    ASSUME StoreInv, NEW i \in ComboId, NEW files \in SUBSET Managed, RunCombo(i, files)
    PROVE  StoreInv'
  <1> DEFINE b == [backup[i] EXCEPT !.there = TRUE]
             at == IF files = {} THEN "manifest" ELSE "blobs"
  <1>1. /\ declared \in [ComboId -> SUBSET Managed]
        /\ backup \in [ComboId -> Backups] /\ touched \in [ComboId -> SUBSET Managed]
        /\ job.kind = "none" /\ job.at = "-"
    BY DEF StoreInv, StoreType, JobInv, RunCombo
  <1>2. b \in Backups /\ b.there /\ b.manifest = backup[i].manifest /\ b.blobs = backup[i].blobs
    BY <1>1 DEF Backups
  <1>3. /\ backup' = [backup EXCEPT ![i] = b] /\ combos' = combos \cup {i}
        /\ touched' = [touched EXCEPT ![i] = {}] /\ deleted' = deleted \ {i}
        /\ declared' = [declared EXCEPT ![i] = files]
        /\ job' = [kind |-> "combo", id |-> i, at |-> at, manifest |-> NoEntries, left |-> files]
        /\ UNCHANGED <<onDisk, torn, spoilt>>
    BY <1>1 DEF RunCombo, Backups
  <1>at. at \in {"blobs", "manifest"} /\ (at = "manifest" => files = {})
    OBVIOUS
  <1> HIDE DEF b, at
  <1>4. /\ job'.at = at /\ job'.kind = "combo" /\ job'.id = i /\ job'.manifest = NoEntries
        /\ job'.left = files /\ job' \in Jobs
    BY <1>3, <1>at, NoEntriesIs DEF Jobs, Places
  <1>5. StoreType'
    BY <1>1, <1>2, <1>3, <1>4 DEF StoreInv, StoreType
  <1>6. JobInv'
    <2>1. Own'.there /\ touched'[i] = {} /\ declared'[i] = files
      BY <1>1, <1>2, <1>3, <1>4 DEF Own
    <2>2. Backed(NoEntries, Own'.blobs)
      BY NoEntriesIs DEF Backed
    <2> QED BY <1>4, <1>at, <2>1, <2>2 DEF JobInv, InCombo
  <1>7. KeptInv'
    <2>1. deleted' \cap combos' = {}
      BY <1>3 DEF StoreInv, KeptInv
    <2>2. ASSUME NEW j \in ComboId, j \notin deleted', touched'[j] # {} PROVE Kept(j)'
      <3>1. /\ j # i /\ touched'[j] = touched[j] /\ declared'[j] = declared[j]
            /\ backup'[j] = backup[j] /\ j \notin deleted
        BY <1>1, <1>3, <2>2
      <3>2. Kept(j)
        BY <2>2, <3>1 DEF StoreInv, KeptInv
      <3>3. Readable(backup[j]) \/ j \in torn
        BY <1>1, <3>2 DEF Kept
      <3> QED BY <1>3, <3>1, <3>2, <3>3 DEF Kept, Readable
    <2> QED BY <2>1, <2>2 DEF KeptInv
  <1>8. RestoreInv'
    BY <1>4, <1>at DEF RestoreInv
  <1> QED BY <1>5, <1>6, <1>7, <1>8 DEF StoreInv

LEMMA BackUpStep ==
    ASSUME StoreInv, NEW f \in Managed, BackUp(f)
    PROVE  StoreInv'
  <1> DEFINE m == Described(f)
             b == [Own EXCEPT !.blobs = @ \cup ({onDisk[f]} \ {Missing}),
                              !.rotten = @ \ {onDisk[f]}]
             at == IF job.left = {f} THEN "manifest" ELSE job.at
  <1>1. /\ backup \in [ComboId -> Backups] /\ job \in Jobs /\ job.at = "blobs" /\ job.id \in ComboId
        /\ onDisk[f] \in Text /\ Own \in Backups /\ job.manifest \in Manifests
        /\ touched[job.id] = {} /\ Own.there /\ Backed(job.manifest, Own.blobs)
        /\ job.kind # "none" /\ touched \in [ComboId -> SUBSET Managed]
        /\ declared[job.id] \subseteq DOMAIN job.manifest \cup job.left
    BY DEF StoreInv, StoreType, JobInv, BackUp, Jobs, Own, InCombo
  <1>2. /\ m \in Manifests /\ DOMAIN m = DOMAIN job.manifest \cup {f} /\ m[f].pre = onDisk[f]
        /\ \A g \in DOMAIN job.manifest \ {f} : m[g] = job.manifest[g]
    <2>1. DOMAIN job.manifest \subseteq Managed /\ \A g \in DOMAIN job.manifest : job.manifest[g] \in Entry
      BY <1>1, ManifestIs
    <2>2. [pre |-> onDisk[f], post |-> onDisk[f]] \in Entry
      BY <1>1 DEF Entry, Text
    <2>3. m \in [DOMAIN job.manifest \cup {f} -> Entry]
      BY <2>1, <2>2 DEF Described
    <2>4. m \in Manifests
      BY <2>1, <2>3, ManifestMade
    <2> QED BY <2>4 DEF Described
  <1>3. /\ b \in Backups /\ b.there = Own.there /\ b.manifest = Own.manifest
        /\ Own.blobs \subseteq b.blobs /\ onDisk[f] \in b.blobs \cup {Missing}
        /\ b.checksum = Own.checksum
    BY <1>1 DEF Backups
  <1>4. /\ backup' = [backup EXCEPT ![job.id] = b]
        /\ job' = [job EXCEPT !.manifest = m, !.left = @ \ {f}, !.at = at]
        /\ UNCHANGED <<onDisk, combos, declared, touched, torn, deleted, spoilt>>
    BY <1>1 DEF BackUp, history, Own, Backups
  <1>5. at \in {"blobs", "manifest"} /\ at \in Places /\ (at = "manifest" => job.left = {f})
    BY <1>1 DEF Places
  <1> HIDE DEF m, b, at
  <1>6. /\ job' \in Jobs /\ job'.at = at /\ job'.manifest = m /\ job'.id = job.id
        /\ job'.kind = job.kind /\ job'.left = job.left \ {f}
    BY <1>1, <1>2, <1>4, <1>5 DEF Jobs
  <1>7. backup' \in [ComboId -> Backups] /\ Own' = b
    BY <1>1, <1>3, <1>4, <1>6 DEF Own
  <1>8. StoreType'
    BY <1>4, <1>6, <1>7 DEF StoreInv, StoreType
  <1>9. JobInv'
    <2>1. Backed(m, b.blobs)
      BY <1>1, <1>2, <1>3 DEF Backed
    <2> QED BY <1>1, <1>2, <1>3, <1>4, <1>5, <1>6, <1>7, <2>1 DEF JobInv, InCombo
  <1>10. KeptInv'
    <2>1. ASSUME NEW j \in ComboId, j \notin deleted, touched[j] # {} PROVE Kept(j)'
      <3>1. j # job.id /\ backup'[j] = backup[j] /\ Kept(j)
        BY <1>1, <1>4, <2>1 DEF StoreInv, KeptInv
      <3> QED BY <1>4, <3>1 DEF Kept, Readable
    <2> QED BY <1>4, <2>1 DEF StoreInv, KeptInv
  <1>11. RestoreInv'
    BY <1>5, <1>6 DEF RestoreInv
  <1> QED BY <1>8, <1>9, <1>10, <1>11 DEF StoreInv

LEMMA RenameManifestStep ==
    ASSUME StoreInv, RenameManifest
    PROVE  StoreInv'
  <1> DEFINE b == [Own EXCEPT !.manifest = job.manifest]
             at == IF job.at = "manifest" THEN "checksum" ELSE "recheck"
  <1>1. /\ backup \in [ComboId -> Backups] /\ job \in Jobs /\ job.at \in {"manifest", "rewrite"}
        /\ Own \in Backups /\ job.manifest \in Manifests /\ job.id \in ComboId
        /\ Own.there /\ Backed(job.manifest, Own.blobs)
        /\ declared[job.id] \subseteq DOMAIN job.manifest /\ job.kind # "none"
    BY DEF StoreInv, StoreType, JobInv, RenameManifest, Jobs, Own, InCombo
  <1>2. b \in Backups /\ b.there = Own.there /\ b.manifest = job.manifest /\ b.blobs = Own.blobs
    BY <1>1 DEF Backups
  <1>3. /\ backup' = [backup EXCEPT ![job.id] = b] /\ job' = [job EXCEPT !.at = at]
        /\ UNCHANGED <<onDisk, combos, declared, touched, torn, deleted, spoilt>>
    BY <1>1 DEF RenameManifest, history, Own, Backups
  <1>4. at \in {"checksum", "recheck"} /\ at \in Places /\ (at = "checksum" <=> job.at = "manifest")
    BY <1>1 DEF Places
  <1> HIDE DEF b, at
  <1>5. /\ job' \in Jobs /\ job'.at = at /\ job'.manifest = job.manifest /\ job'.id = job.id
        /\ job'.kind = job.kind
    BY <1>1, <1>3, <1>4 DEF Jobs
  <1>6. backup' \in [ComboId -> Backups] /\ Own' = b
    BY <1>1, <1>2, <1>3, <1>5 DEF Own
  <1>7. StoreType'
    BY <1>3, <1>5, <1>6 DEF StoreInv, StoreType
  <1>8. JobInv'
    <2>1. at = "checksum" => touched'[job.id] = {}
      BY <1>1, <1>3, <1>4 DEF StoreInv, JobInv
    <2>2. SamePre(job.manifest, job.manifest)
      BY DEF SamePre
    <2> QED BY <1>1, <1>2, <1>3, <1>4, <1>5, <1>6, <2>1, <2>2 DEF JobInv, InCombo
  <1>9. KeptInv'
    <2>1. ASSUME NEW j \in ComboId, j \notin deleted, touched[j] # {} PROVE Kept(j)'
      <3>1. Kept(j)
        BY <2>1 DEF StoreInv, KeptInv
      <3>2. CASE j # job.id
        <4>1. backup'[j] = backup[j]
          BY <1>1, <1>3, <3>2
        <4>2. Readable(backup[j]) \/ j \in torn
          BY <3>1, <3>2 DEF Kept
        <4> QED BY <1>3, <3>1, <4>1, <4>2 DEF Kept, Readable
      <3>3. CASE j = job.id
        <4>1. job.at = "rewrite"
          BY <1>1, <2>1, <3>3 DEF StoreInv, JobInv
        <4>2. SamePre(job.manifest, Own.manifest) /\ at = "recheck"
          BY <1>4, <4>1 DEF StoreInv, JobInv
        <4>3. touched[j] \cap declared[j] \subseteq DOMAIN job.manifest
              /\ \A f \in touched[j] \cap declared[j] : job.manifest[f].pre \in Own.blobs \cup {Missing}
          BY <3>1, <3>3, <4>2 DEF Kept, SamePre, Own
        <4>4. backup'[j] = b
          BY <1>1, <1>3, <3>3
        <4> QED BY <1>2, <1>3, <1>5, <3>3, <4>2, <4>3, <4>4 DEF Kept
      <3> QED BY <3>2, <3>3
    <2> QED BY <1>3, <2>1 DEF StoreInv, KeptInv
  <1>10. RestoreInv'
    BY <1>4, <1>5 DEF RestoreInv
  <1> QED BY <1>7, <1>8, <1>9, <1>10 DEF StoreInv

LEMMA RenameChecksumStep ==
    ASSUME StoreInv, RenameChecksum
    PROVE  StoreInv'
  <1> DEFINE b == [Own EXCEPT !.checksum = job.manifest]
  <1>1. /\ backup \in [ComboId -> Backups] /\ job \in Jobs /\ job.at \in {"checksum", "recheck"}
        /\ Own \in Backups /\ job.manifest \in Manifests /\ job.id \in ComboId
        /\ Own.there /\ Backed(job.manifest, Own.blobs)
        /\ declared[job.id] \subseteq DOMAIN job.manifest
        /\ Own.manifest = job.manifest /\ job.kind # "none"
    BY DEF StoreInv, StoreType, JobInv, RenameChecksum, Jobs, Own, InCombo
  <1>2. /\ b \in Backups /\ b.there = Own.there /\ b.manifest = Own.manifest
        /\ b.blobs = Own.blobs /\ b.checksum = job.manifest
    BY <1>1 DEF Backups
  <1>3. /\ backup' = [backup EXCEPT ![job.id] = b] /\ job' = [job EXCEPT !.at = "steps"]
        /\ torn' = torn \ {job.id}
        /\ UNCHANGED <<onDisk, combos, declared, touched, deleted, spoilt>>
    BY <1>1 DEF RenameChecksum, Own, Backups
  <1>4. Readable(b)
    BY <1>1, <1>2, StoreAssumption DEF Readable
  <1> HIDE DEF b
  <1>5. /\ job' \in Jobs /\ job'.at = "steps" /\ job'.manifest = job.manifest /\ job'.id = job.id
        /\ job'.kind = job.kind
    BY <1>1, <1>3 DEF Jobs, Places
  <1>6. backup' \in [ComboId -> Backups] /\ Own' = b
    BY <1>1, <1>2, <1>3, <1>5 DEF Own
  <1>7. StoreType'
    BY <1>3, <1>5, <1>6 DEF StoreInv, StoreType
  <1>8. SamePre(job.manifest, b.manifest) /\ Readable(Own')
    BY <1>1, <1>2, <1>4, <1>6 DEF SamePre
  <1>9. JobInv'
    BY <1>1, <1>2, <1>3, <1>5, <1>6, <1>8 DEF JobInv, InCombo, Readable
  <1>10. KeptInv'
    <2>1. ASSUME NEW j \in ComboId, j \notin deleted, touched[j] # {} PROVE Kept(j)'
      <3>1. Kept(j)
        BY <2>1 DEF StoreInv, KeptInv
      <3>2. CASE j # job.id
        <4>1. backup'[j] = backup[j]
          BY <1>1, <1>3, <3>2
        <4>2. Readable(backup[j]) \/ j \in torn'
          BY <1>3, <3>1, <3>2 DEF Kept
        <4> QED BY <1>3, <3>1, <4>1, <4>2 DEF Kept, Readable
      <3>3. CASE j = job.id
        <4>1. backup'[j] = b /\ backup[j] = Own
          BY <1>1, <1>3, <3>3 DEF Own
        <4> QED BY <1>2, <1>3, <1>4, <3>1, <4>1 DEF Kept, Readable
      <3> QED BY <3>2, <3>3
    <2> QED BY <1>3, <2>1 DEF StoreInv, KeptInv
  <1>11. RestoreInv'
    BY <1>5 DEF RestoreInv
  <1> QED BY <1>7, <1>9, <1>10, <1>11 DEF StoreInv

LEMMA CheckpointFailsStep ==
    ASSUME StoreInv, CheckpointFails
    PROVE  StoreInv'
  <1>1. /\ backup \in [ComboId -> Backups] /\ job.id \in ComboId /\ touched[job.id] = {}
        /\ backup' = [backup EXCEPT ![job.id] = NoBackup] /\ job' = NoJob
        /\ torn' = torn \ {job.id} /\ job.at # "recheck"
        /\ UNCHANGED <<onDisk, combos, declared, touched, deleted>>
    BY DEF StoreInv, StoreType, JobInv, CheckpointFails, Jobs
  <1>2. StoreType'
    <2>1. backup' \in [ComboId -> Backups]
      BY <1>1, NoBackupIs
    <2> QED BY <1>1, <2>1, NoJobIs DEF StoreInv, StoreType
  <1>3. KeptInv'
    <2>1. ASSUME NEW j \in ComboId, j \notin deleted, touched[j] # {} PROVE Kept(j)'
      <3>1. Kept(j) /\ j # job.id /\ backup'[j] = backup[j]
        BY <1>1, <2>1 DEF StoreInv, KeptInv
      <3> QED BY <1>1, <3>1 DEF Kept, Readable
    <2> QED BY <1>1, <2>1 DEF StoreInv, KeptInv
  <1> QED BY <1>1, <1>2, <1>3, JobOver

LEMMA RewriteFailsStep ==
    ASSUME StoreInv, RewriteFails
    PROVE  StoreInv'
  <1>1. /\ job \in Jobs /\ job' = [job EXCEPT !.at = "steps"] /\ job.at \in {"rewrite", "recheck"}
        /\ torn' = (IF job.at = "recheck" THEN torn \cup {job.id} ELSE torn)
        /\ UNCHANGED <<onDisk, backup, combos, declared, touched, deleted, spoilt>>
    BY DEF StoreInv, StoreType, RewriteFails
  <1>2. /\ job' \in Jobs /\ job'.at = "steps" /\ job'.manifest = job.manifest /\ job'.id = job.id
        /\ job'.kind = job.kind /\ Own' = Own
    BY <1>1 DEF Jobs, Places, Own
  <1>3. StoreType'
    BY <1>1, <1>2 DEF StoreInv, StoreType
  <1>4. Readable(Own) \/ job.id \in torn'
    BY <1>1 DEF StoreInv, JobInv
  <1>5. JobInv'
    BY <1>1, <1>2, <1>4 DEF StoreInv, JobInv, InCombo, Readable
  <1>6. KeptInv'
    BY <1>1, Untouched
  <1>7. RestoreInv'
    BY <1>2 DEF RestoreInv
  <1> QED BY <1>3, <1>5, <1>6, <1>7 DEF StoreInv

-----------------------------------------------------------------------------
(* The steps.                                                              *)

LEMMA StepWritesStep ==
    ASSUME StoreInv, NEW f \in Managed, NEW text \in Contents, StepWrites(f, text)
    PROVE  StoreInv'
  <1>1. /\ job \in Jobs /\ job.id \in ComboId /\ job.at = "steps"
        /\ job' = [job EXCEPT !.at = "stepped"]
        /\ onDisk' = [onDisk EXCEPT ![f] = text]
        /\ touched' = [touched EXCEPT ![job.id] = touched[job.id] \cup {f}]
        /\ UNCHANGED <<backup, combos, declared, torn, deleted, spoilt>>
        /\ onDisk \in [Managed -> Text] /\ touched \in [ComboId -> SUBSET Managed]
    BY DEF StoreInv, StoreType, StepWrites, Jobs
  <1>2. /\ job' \in Jobs /\ job'.at = "stepped" /\ job'.manifest = job.manifest /\ job'.id = job.id
        /\ job'.kind = job.kind /\ Own' = Own
    BY <1>1 DEF Jobs, Places, Own
  <1>3. StoreType'
    <2>1. onDisk' \in [Managed -> Text] /\ touched' \in [ComboId -> SUBSET Managed]
      BY <1>1 DEF Text
    <2> QED BY <1>1, <1>2, <2>1 DEF StoreInv, StoreType
  <1>4. JobInv'
    BY <1>1, <1>2 DEF StoreInv, JobInv, InCombo, Readable
  <1>5. /\ Readable(Own) \/ job.id \in torn
        /\ Backed(job.manifest, Own.blobs) /\ SamePre(job.manifest, Own.manifest)
        /\ declared[job.id] \subseteq DOMAIN job.manifest
    BY <1>1 DEF StoreInv, JobInv, InCombo
  <1>6. KeptInv'
    <2>1. ASSUME NEW j \in ComboId, j \notin deleted, touched'[j] # {} PROVE Kept(j)'
      <3>1. CASE j # job.id
        <4>1. touched'[j] = touched[j] /\ Kept(j)
          BY <1>1, <2>1, <3>1 DEF StoreInv, KeptInv
        <4> QED BY <1>1, <4>1, <3>1 DEF Kept, Readable
      <3>2. CASE j = job.id
        <4>1. touched'[j] = touched[j] \cup {f} /\ Own = backup[j]
          BY <1>1, <3>2 DEF Own
        <4>2. declared[j] \subseteq DOMAIN Own.manifest
              /\ \A g \in declared[j] : Own.manifest[g].pre \in Own.blobs \cup {Missing}
          BY <1>5, <3>2 DEF SamePre, Backed
        <4> QED BY <1>1, <1>5, <3>2, <4>1, <4>2 DEF Kept, Readable
      <3> QED BY <3>1, <3>2
    <2> QED BY <1>1, <2>1 DEF StoreInv, KeptInv
  <1>7. RestoreInv'
    BY <1>2 DEF RestoreInv
  <1> QED BY <1>3, <1>4, <1>6, <1>7 DEF StoreInv

LEMMA StepCompletesStep ==
    ASSUME StoreInv, StepCompletes
    PROVE  StoreInv'
  <1> DEFINE m == Rehashed
  <1>1. /\ job \in Jobs /\ job.at = "stepped" /\ job.manifest \in Manifests
        /\ job' = [job EXCEPT !.at = "rewrite", !.manifest = m]
        /\ UNCHANGED <<onDisk, backup, combos, declared, touched, torn, deleted, spoilt>>
        /\ onDisk \in [Managed -> Text]
    BY DEF StoreInv, StoreType, StepCompletes, Jobs, history
  <1>2. /\ DOMAIN job.manifest \subseteq Managed
        /\ \A f \in DOMAIN job.manifest : job.manifest[f] \in Entry
    BY <1>1, ManifestIs
  <1>3. ASSUME NEW f \in DOMAIN job.manifest
        PROVE  m[f] \in Entry /\ m[f].pre = job.manifest[f].pre
    <2> DEFINE post == IF onDisk[f] = Missing THEN job.manifest[f].post ELSE onDisk[f]
    <2>1. f \in Managed /\ onDisk[f] \in Text /\ job.manifest[f] \in Entry
      BY <1>1, <1>2
    <2>2. post \in Text
      BY <2>1 DEF Entry, Text
    <2>3. m[f] = [pre |-> job.manifest[f].pre, post |-> post]
      BY DEF Rehashed
    <2> HIDE DEF post, m
    <2> QED BY <2>1, <2>2, <2>3 DEF Entry, Text
  <1>4. /\ m \in Manifests /\ DOMAIN m = DOMAIN job.manifest
        /\ \A f \in DOMAIN m : m[f].pre = job.manifest[f].pre
    <2>1. m \in [DOMAIN job.manifest -> Entry]
      BY <1>3 DEF Rehashed
    <2> QED BY <1>2, <1>3, <2>1, ManifestMade
  <1> HIDE DEF m
  <1>5. /\ job' \in Jobs /\ job'.at = "rewrite" /\ job'.manifest = m /\ job'.id = job.id
        /\ job'.kind = job.kind /\ Own' = Own
    BY <1>1, <1>4 DEF Jobs, Places, Own
  <1>6. StoreType'
    BY <1>1, <1>5 DEF StoreInv, StoreType
  <1>7. /\ Own.there /\ Backed(job.manifest, Own.blobs) /\ SamePre(job.manifest, Own.manifest)
        /\ declared[job.id] \subseteq DOMAIN job.manifest /\ job.kind # "none"
        /\ Readable(Own) \/ job.id \in torn
    BY <1>1 DEF StoreInv, JobInv, InCombo
  <1>8. /\ Backed(m, Own.blobs) /\ SamePre(m, Own.manifest)
        /\ declared[job.id] \subseteq DOMAIN m
    BY <1>4, <1>7 DEF Backed, SamePre
  <1>9. JobInv'
    BY <1>1, <1>5, <1>7, <1>8 DEF JobInv, InCombo, Readable
  <1>10. KeptInv'
    BY <1>1, Untouched
  <1>11. RestoreInv'
    BY <1>5 DEF RestoreInv
  <1> QED BY <1>6, <1>9, <1>10, <1>11 DEF StoreInv

LEMMA ComboAbortsStep ==
    ASSUME StoreInv, ComboAborts
    PROVE  StoreInv'
  <1>1. /\ job \in Jobs /\ job.at \in {"steps", "stepped"} /\ job' = [job EXCEPT !.at = "check"]
        /\ UNCHANGED <<onDisk, backup, combos, declared, touched, torn, deleted, spoilt>>
    BY DEF StoreInv, StoreType, ComboAborts, history
  <1>2. job' \in Jobs /\ job'.at = "check" /\ job'.kind = job.kind /\ job.kind # "none"
    BY <1>1 DEF Jobs, Places, StoreInv, JobInv
  <1>3. StoreType'
    BY <1>1, <1>2 DEF StoreInv, StoreType
  <1>4. JobInv' /\ RestoreInv'
    BY <1>2 DEF JobInv, InCombo, RestoreInv
  <1>5. KeptInv'
    BY <1>1, Untouched
  <1> QED BY <1>3, <1>4, <1>5 DEF StoreInv

LEMMA ComboEndsStep ==
    ASSUME StoreInv, ComboEnds
    PROVE  StoreInv'
  <1>1. /\ job.at = "steps" /\ job' = NoJob
        /\ UNCHANGED <<onDisk, backup, combos, declared, touched, torn, deleted>>
    BY DEF ComboEnds, history
  <1>2. StoreType'
    BY <1>1, NoJobIs DEF StoreInv, StoreType
  <1>3. KeptInv'
    BY <1>1, Untouched
  <1> QED BY <1>1, <1>2, <1>3, JobOver

-----------------------------------------------------------------------------
(* The rollback.                                                           *)

LEMMA RollbackStep ==
    ASSUME StoreInv, NEW i \in ComboId, Rollback(i)
    PROVE  StoreInv'
  <1>1. /\ backup \in [ComboId -> Backups] /\ job.kind = "none" /\ job.at = "-"
        /\ UNCHANGED <<onDisk, backup, combos, declared, touched, torn, deleted, spoilt>>
    BY DEF StoreInv, StoreType, JobInv, Rollback, history
  <1>2. CASE UNCHANGED job
    BY <1>1, <1>2 DEF StoreInv, StoreType, JobInv, KeptInv, Kept, RestoreInv, Own, Readable
  <1>3. CASE /\ Readable(backup[i])
             /\ job' = [kind |-> "rollback", id |-> i, at |-> "check",
                        manifest |-> backup[i].manifest, left |-> {}]
    <2>1. job' \in Jobs /\ job'.at = "check" /\ job'.kind = "rollback"
      BY <1>1, <1>3 DEF Jobs, Backups, Places, Readable
    <2>2. StoreType' /\ JobInv' /\ RestoreInv'
      BY <1>1, <2>1 DEF StoreInv, StoreType, JobInv, InCombo, RestoreInv
    <2>3. KeptInv'
      BY <1>1, Untouched
    <2> QED BY <2>2, <2>3 DEF StoreInv
  <1> QED BY <1>2, <1>3 DEF Rollback

LEMMA CheckStep ==
    ASSUME StoreInv, Check
    PROVE  StoreInv'
  <1>1. /\ job \in Jobs /\ job.at = "check" /\ job.kind # "none" /\ job.manifest \in Manifests
        /\ UNCHANGED <<onDisk, backup, combos, declared, touched, torn, deleted>> /\ spoilt' = {}
    BY DEF StoreInv, StoreType, JobInv, Check, Jobs
  <1>2. KeptInv'
    BY <1>1, Untouched
  <1>3. CASE job' = NoJob
    <2>1. StoreType'
      BY <1>1, <1>3, NoJobIs DEF StoreInv, StoreType
    <2> QED BY <1>2, <1>3, <2>1, JobOver
  <1>4. CASE job' = [job EXCEPT !.at = "restore", !.left = DOMAIN job.manifest]
    <2>1. DOMAIN job.manifest \subseteq Managed
      BY <1>1, ManifestIs
    <2>2. /\ job' \in Jobs /\ job'.at = "restore" /\ job'.kind = job.kind
          /\ job'.left = DOMAIN job.manifest /\ job'.manifest = job.manifest
      BY <1>1, <1>4, <2>1 DEF Jobs, Places
    <2>3. StoreType' /\ JobInv' /\ RestoreInv'
      BY <1>1, <2>2 DEF StoreInv, StoreType, JobInv, InCombo, RestoreInv
    <2> QED BY <1>2, <2>3 DEF StoreInv
  <1> QED BY <1>3, <1>4 DEF Check

LEMMA RestoreStep ==
    ASSUME StoreInv, NEW f \in Managed, Restore(f) \/ RestoreFails(f)
    PROVE  StoreInv'
  <1>1. /\ job \in Jobs /\ job.at = "restore" /\ f \in job.left /\ job.kind # "none"
        /\ job' = [job EXCEPT !.left = job.left \ {f}] /\ job.manifest \in Manifests
        /\ UNCHANGED <<backup, combos, declared, touched, torn, deleted>>
        /\ onDisk \in [Managed -> Text]
    BY DEF StoreInv, StoreType, JobInv, Restore, RestoreFails, history, Jobs
  <1>2. /\ job' \in Jobs /\ job'.at = "restore" /\ job'.kind = job.kind
        /\ job'.left = job.left \ {f} /\ job'.manifest = job.manifest
    BY <1>1 DEF Jobs
  <1>3. KeptInv'
    BY <1>1, Untouched
  <1>4. JobInv'
    BY <1>1, <1>2 DEF JobInv, InCombo
  <1>5. /\ job.left \subseteq DOMAIN job.manifest
        /\ \A g \in (DOMAIN job.manifest \ job.left) \ spoilt : onDisk[g] = job.manifest[g].pre
    BY <1>1 DEF StoreInv, RestoreInv
  <1>6. CASE Restore(f)
    <2>1. onDisk' = [onDisk EXCEPT ![f] = job.manifest[f].pre] /\ spoilt' = spoilt
      BY <1>6 DEF Restore, history
    <2>2. onDisk'[f] = job.manifest[f].pre
          /\ \A g \in Managed \ {f} : onDisk'[g] = onDisk[g]
      BY <1>1, <2>1
    <2>3. DOMAIN job.manifest \subseteq Managed
      BY <1>1, ManifestIs
    <2>4. RestoreInv'
      BY <1>2, <1>5, <2>1, <2>2, <2>3 DEF RestoreInv
    <2>5. onDisk' \in [Managed -> Text]
      <3>1. f \in DOMAIN job.manifest
        BY <1>1 DEF StoreInv, RestoreInv
      <3>2. job.manifest[f].pre \in Text
        BY <1>1, <3>1, ManifestIs DEF Entry, Text
      <3> QED BY <1>1, <2>1, <3>2
    <2>6. StoreType'
      BY <1>1, <1>2, <2>5 DEF StoreInv, StoreType
    <2> QED BY <1>3, <1>4, <2>4, <2>6 DEF StoreInv
  <1>7. CASE RestoreFails(f)
    <2>1. onDisk' = onDisk /\ spoilt' = spoilt \cup {f}
      BY <1>7 DEF RestoreFails
    <2>2. StoreType'
      BY <1>1, <1>2, <2>1 DEF StoreInv, StoreType
    <2>3. RestoreInv'
      BY <1>2, <1>5, <2>1 DEF RestoreInv
    <2> QED BY <1>3, <1>4, <2>2, <2>3 DEF StoreInv
  <1> QED BY <1>6, <1>7

LEMMA RestoreEndsStep ==
    ASSUME StoreInv, RestoreEnds
    PROVE  StoreInv'
  <1>1. /\ job.at = "restore" /\ job' = NoJob
        /\ UNCHANGED <<onDisk, backup, combos, declared, touched, torn, deleted>>
    BY DEF RestoreEnds, history
  <1>2. StoreType'
    BY <1>1, NoJobIs DEF StoreInv, StoreType
  <1>3. KeptInv'
    BY <1>1, Untouched
  <1> QED BY <1>1, <1>2, <1>3, JobOver

-----------------------------------------------------------------------------
(* The rest.                                                               *)

LEMMA DeleteStep ==
    ASSUME StoreInv, NEW i \in ComboId, NEW confirm \in BOOLEAN, Delete(i, confirm)
    PROVE  StoreInv'
  <1>1. /\ backup \in [ComboId -> Backups] /\ job.kind = "none" /\ job.at = "-"
        /\ i \notin combos /\ backup' = [backup EXCEPT ![i] = NoBackup]
        /\ deleted' = deleted \cup {i}
        /\ UNCHANGED <<onDisk, combos, job, declared, touched, torn, spoilt>>
    BY DEF StoreInv, StoreType, JobInv, Delete
  <1>2. backup' \in [ComboId -> Backups]
    BY <1>1, NoBackupIs
  <1>3. StoreType'
    BY <1>1, <1>2 DEF StoreInv, StoreType
  <1>4. JobInv' /\ RestoreInv'
    BY <1>1 DEF JobInv, InCombo, RestoreInv
  <1>5. ASSUME NEW j \in ComboId, j \notin deleted', touched[j] # {} PROVE Kept(j)'
    <2>1. Kept(j) /\ backup'[j] = backup[j]
      BY <1>1, <1>5 DEF StoreInv, KeptInv
    <2> QED BY <1>1, <2>1 DEF Kept, Readable
  <1>6. KeptInv'
    BY <1>1, <1>5 DEF StoreInv, KeptInv
  <1> QED BY <1>3, <1>4, <1>6 DEF StoreInv

LEMMA KernelDiesStep ==
    ASSUME StoreInv, KernelDies
    PROVE  StoreInv'
  <1>1. /\ job' = NoJob /\ combos' = {} /\ torn \subseteq torn'
        /\ job.at = "recheck" => job.id \in torn'
        /\ UNCHANGED <<onDisk, backup, declared, touched, deleted>>
    BY DEF KernelDies
  <1>2. StoreType'
    BY <1>1, NoJobIs DEF StoreInv, StoreType
  <1>3. KeptInv'
    BY <1>1 DEF StoreInv, KeptInv, Kept, Readable
  <1> QED BY <1>1, <1>2, <1>3, JobOver

LEMMA BlobRotsStep ==
    ASSUME StoreInv, NEW i \in ComboId, NEW text \in Contents, BlobRots(i, text)
    PROVE  StoreInv'
  <1> DEFINE b == [backup[i] EXCEPT !.rotten = @ \cup {text}]
  <1>1. /\ backup \in [ComboId -> Backups] /\ backup[i] \in Backups
        /\ backup' = [backup EXCEPT ![i] = b]
        /\ UNCHANGED <<onDisk, combos, job, declared, touched, torn, deleted, spoilt>>
    BY DEF StoreInv, StoreType, BlobRots
  <1>2. /\ b \in Backups /\ b.there = backup[i].there /\ b.blobs = backup[i].blobs
        /\ b.manifest = backup[i].manifest /\ b.checksum = backup[i].checksum
    BY <1>1 DEF Backups, Text
  <1> HIDE DEF b
  <1>3. ASSUME NEW j \in ComboId
        PROVE  /\ backup'[j].there = backup[j].there /\ backup'[j].blobs = backup[j].blobs
               /\ backup'[j].manifest = backup[j].manifest
               /\ backup'[j].checksum = backup[j].checksum
    BY <1>1, <1>2
  <1>4. StoreType'
    <2>1. backup' \in [ComboId -> Backups]
      BY <1>1, <1>2
    <2> QED BY <1>1, <2>1 DEF StoreInv, StoreType
  <1>5. job.id \in ComboId
    BY DEF StoreInv, StoreType, Jobs
  <1>6. JobInv'
    BY <1>1, <1>3, <1>5 DEF StoreInv, JobInv, Own, Readable
  <1>7. KeptInv'
    BY <1>1, <1>3 DEF StoreInv, KeptInv, Kept, Readable
  <1>8. RestoreInv'
    BY <1>1 DEF StoreInv, RestoreInv
  <1> QED BY <1>4, <1>6, <1>7, <1>8 DEF StoreInv

LEMMA EditOutsideStep ==
    ASSUME StoreInv, NEW f \in Managed, NEW text \in Text, EditOutside(f, text)
    PROVE  StoreInv'
  <1>1. /\ onDisk \in [Managed -> Text] /\ onDisk' = [onDisk EXCEPT ![f] = text]
        /\ spoilt' = (IF job.at = "restore" THEN spoilt \cup {f} ELSE spoilt)
        /\ UNCHANGED <<backup, combos, job, declared, touched, torn, deleted>>
    BY DEF StoreInv, StoreType, EditOutside
  <1>2. onDisk' \in [Managed -> Text] /\ \A g \in Managed \ {f} : onDisk'[g] = onDisk[g]
    BY <1>1
  <1>3. StoreType'
    BY <1>1, <1>2 DEF StoreInv, StoreType
  <1>4. JobInv' /\ KeptInv'
    BY <1>1 DEF StoreInv, JobInv, KeptInv, Kept, Own, Readable
  <1>5. DOMAIN job.manifest \subseteq Managed
    BY ManifestIs DEF StoreInv, StoreType, Jobs
  <1>6. RestoreInv'
    BY <1>1, <1>2, <1>5 DEF StoreInv, RestoreInv
  <1> QED BY <1>3, <1>4, <1>6 DEF StoreInv

-----------------------------------------------------------------------------
(* The theorems.                                                           *)

LEMMA StoreStart == StoreInit => StoreInv
  <1> SUFFICES ASSUME StoreInit PROVE StoreInv
    OBVIOUS
  <1>1. StoreType
    BY NoBackupIs, NoJobIs DEF StoreInit, StoreType, Text
  <1>2. JobInv /\ RestoreInv
    BY NoJobIs DEF StoreInit, JobInv, InCombo, RestoreInv
  <1>3. KeptInv
    BY DEF StoreInit, KeptInv
  <1> QED BY <1>1, <1>2, <1>3 DEF StoreInv

LEMMA StoreKept == StoreSpec => []StoreInv
  <1>1. StoreInv /\ [StoreNext]_storeVars => StoreInv'
    <2> SUFFICES ASSUME StoreInv, [StoreNext]_storeVars PROVE StoreInv'
      OBVIOUS
    <2>1. CASE UNCHANGED storeVars
      BY <2>1 DEF storeVars, StoreInv, StoreType, JobInv, KeptInv, Kept, RestoreInv, Own, Readable
    <2>2. CASE StoreNext
      BY <2>2, RunComboStep, BackUpStep, RenameManifestStep, RenameChecksumStep,
         CheckpointFailsStep, RewriteFailsStep, StepWritesStep, StepCompletesStep,
         ComboAbortsStep, ComboEndsStep, RollbackStep, CheckStep, RestoreStep,
         RestoreEndsStep, DeleteStep, KernelDiesStep, BlobRotsStep, EditOutsideStep
      DEF StoreNext, Text
    <2> QED BY <2>1, <2>2
  <1> QED BY <1>1, StoreStart, PTL DEF StoreSpec

\* What a combo has overwritten of the files that its patch steps declare stays
\* in its backup through every death and failed write, until somebody deletes
\* the backup, whatever its other steps write.
THEOREM WhatWasOverwrittenIsKept == StoreSpec => []PreimagesAreKept
  <1>1. StoreInv => PreimagesAreKept
    BY DEF StoreInv, KeptInv, Kept, PreimagesAreKept
  <1> QED BY <1>1, StoreKept, PTL

\* The scan foretells the rollback of every backup, in every state of the
\* files, but for the blobs that have rotted.
THEOREM ScanAndRollbackAgree == StoreSpec => []ScanForetellsRollback
  <1>1. ASSUME NEW b, NEW f, f \in DOMAIN b.manifest
        PROVE  Restorable(f, b.manifest[f], Sound(b)) <=>
                 /\ b.manifest[f].pre \in Sound(b) \cup {Missing}
                 /\ ScanOfFile(f, b.manifest[f]) # "mismatch"
    BY DEF Restorable, ScanOfFile
  <1>2. ScanForetellsRollback
    <2> SUFFICES ASSUME NEW i \in ComboId
                 PROVE  LET b == backup[i]
                            foretold == Scan(b) = "postimage_match"
                            accepted == Readable(b) /\ AllRestorable(b.manifest, Sound(b))
                        IN  /\ accepted => foretold
                            /\ foretold =>
                                 accepted \/ \E f \in DOMAIN b.manifest : b.manifest[f].pre \in b.rotten
      BY DEF ScanForetellsRollback
    <2> DEFINE b == backup[i]
    <2>1. CASE ~Readable(b)
      BY <2>1 DEF Scan
    <2>2. CASE Readable(b)
      BY <2>2, <1>1 DEF Scan, AllRestorable, Sound
    <2> QED BY <2>1, <2>2
  <1> QED BY <1>2, PTL

\* A rollback that says it reverted has brought every file back, but for those
\* that failed or were edited while it ran.
THEOREM RevertedIsRestored == StoreSpec => RevertedMeansRestored
  <1>1. StoreInv /\ [StoreNext]_storeVars =>
          [RestoreEnds => \A f \in DOMAIN job.manifest \ spoilt :
                            onDisk[f] = job.manifest[f].pre]_storeVars
    BY DEF StoreInv, RestoreInv, RestoreEnds
  <1> QED BY <1>1, StoreKept, PTL DEF StoreSpec, RevertedMeansRestored
=============================================================================
