---------------------- MODULE CoherenceRecoveryProofs -----------------------
(***************************************************************************)
(* Proofs about CoherenceRecovery, for any files, texts and number of      *)
(* changes by others: what a patch replaces is what it was computed from,  *)
(* the recovery implements OneEdit, and undisturbed it succeeds.           *)
(***************************************************************************)
EXTENDS CoherenceRecovery, TLAPS

Answers == {"coherence_mismatch", "drift", "parked", "none"}
Ended == {"refused", "applied"}
Results == {"none", "applied", "refused", "operator", "drift", "raised", "unresolved"}
Anchors == [Path -> Text \cup {NoText}]
Written == [text : Text, seen : Text, raced : BOOLEAN, slipped : BOOLEAN]
Patches == [at : {"-", "admitted", "checked"}, client : BOOLEAN, base : Text \cup {NoText},
            slipped : BOOLEAN]
Counters == [revision : Nat, verify : Nat, refresh : Nat]
World == [changes : Nat, raced : BOOLEAN, disturbed : BOOLEAN, others : BOOLEAN]

KernelTyped ==
    /\ disk \in [Path -> Text]
    /\ counters \in Counters
    /\ coherence \in [id : Nat, alive : BOOLEAN, verify : Nat, anchors : Anchors]
    /\ tracked \in Anchors
    /\ parked \in BOOLEAN

ClientTyped ==
    /\ step \in Steps
    /\ attempt \in {1, 2}
    /\ seen \in Text
    /\ params \in [id : Nat, revision : Nat, refresh : Nat, hash : Text \cup {NoText}]
    /\ late \in {"none", "apply", "again", "resolve"}
    /\ result \in Results

HistoryTyped == wrote \in Seq(Written) /\ world \in World

Typed == KernelTyped /\ underway \in Patches /\ ClientTyped /\ HistoryTyped

\* Where the one patch is: with the client, parked, underway, or late.  Once it
\* is written nobody has it any more.
Flow ==
    /\ parked => step \in {"resolve", "over"} /\ result \in {"none", "raised"}
    /\ late # "none" => step = "over" /\ result = "raised"
    /\ late \in {"apply", "again"} => ~parked
    /\ (result = "none") = (step # "over")
    /\ underway.at # "-" => /\ ~parked /\ late \notin {"apply", "again"}
                            /\ step \in {"apply", "again", "resolve", "over"}
                            /\ result \in {"none", "raised"}
    /\ underway.client => underway.at # "-" /\ step # "over"
    /\ underway.at # "-" /\ step \in {"apply", "again"} => underway.client
    /\ step \notin {"resolve", "over"} => wrote = <<>>
    /\ parked \/ late \in {"apply", "again"} \/ underway.at # "-" => wrote = <<>>

\* A patch that has not been let in yet.
Pending == step \notin {"reread", "issue", "over"} \/ parked \/ late # "none"

\* The anchor of the token it cites is the text it was computed from.
Anchored ==
    /\ step = "issue" => world.raced \/ disk[Target] = seen
    /\ Pending /\ coherence.alive /\ coherence.id = params.id =>
         coherence.anchors[Target] = seen \/ world.raced

\* What was let in fits the file until somebody edits it.
Admitted ==
    /\ underway.at # "-" /\ ~underway.slipped => disk[Target] = seen \/ world.raced
    /\ underway.at = "checked" => underway.base \in Text

Inv == Typed /\ Flow /\ Anchored /\ Admitted /\ WritesWhatWasSeen

-----------------------------------------------------------------------------
(* What the kernel does with a patch.                                       *)

LEMMA NoTextIsNone == NoText \notin Text
  BY RecoveryAssumption DEF Text

LEMMA WriteIsGood ==
    ASSUME wrote \in Seq(Written), WritesWhatWasSeen, NEW e \in Written,
           e.text = e.seen \/ e.raced \/ e.slipped, wrote' = Append(wrote, e)
    PROVE  WritesWhatWasSeen' /\ wrote' \in Seq(Written) /\ Len(wrote') = Len(wrote) + 1
  <1>1. wrote' \in Seq(Written) /\ Len(wrote') = Len(wrote) + 1
    OBVIOUS
  <1>2. ASSUME NEW i \in DOMAIN wrote' 
        PROVE  wrote'[i].text = wrote'[i].seen \/ wrote'[i].raced \/ wrote'[i].slipped
    <2>1. CASE i = Len(wrote) + 1
      <3>1. wrote'[i] = e BY <2>1
      <3> QED BY <3>1
    <2>2. CASE i # Len(wrote) + 1
      <3>1. i \in DOMAIN wrote /\ wrote'[i] = wrote[i] BY <1>1, <2>2
      <3> QED BY <3>1 DEF WritesWhatWasSeen
    <2> QED BY <2>1, <2>2
  <1> QED BY <1>1, <1>2 DEF WritesWhatWasSeen

\* The effect of a request on its way in; the answer "none" lets it in.
Sent(answer, client) ==
    /\ UNCHANGED <<disk, counters, coherence, tracked, wrote>>
    /\ world' \in World
    /\ world'.raced = world.raced
    /\ world.disturbed => world'.disturbed
    /\ world.others => world'.others
    /\ underway.at = "-"
    /\ answer = "none" =>
         /\ Coherent /\ UNCHANGED world
         /\ underway' = [at |-> "admitted", client |-> client, base |-> NoText, slipped |-> FALSE]
    /\ answer # "none" => UNCHANGED underway
    /\ answer = "coherence_mismatch" =>
         ~Coherent /\ (world'.others <=> world.others \/ OthersStale)
    /\ answer = "drift" => DriftBlocks

LEMMA MismatchSent ==
    ASSUME Inv, underway.at = "-", Mismatch, UNCHANGED <<disk, counters, coherence, tracked, wrote>>
    PROVE  Sent("coherence_mismatch", TRUE) /\ Sent("coherence_mismatch", FALSE)
  <1> DEFINE others == world.others \/ OthersStale
  <1>1. ~Coherent /\ UNCHANGED underway /\ world' = [world EXCEPT !.others = others]
    BY DEF Mismatch
  <1>2. world \in World /\ others \in BOOLEAN /\ (others <=> world.others \/ OthersStale)
    BY DEF Inv, Typed, HistoryTyped, World, OthersStale
  <1> HIDE DEF others
  <1>3. /\ world' \in World /\ world'.raced = world.raced /\ world'.disturbed = world.disturbed
        /\ world'.others = others
    BY <1>1, <1>2 DEF World
  <1> QED BY <1>1, <1>2, <1>3 DEF Sent

LEMMA GatesSent ==
    ASSUME Inv, NEW answer, NEW client \in BOOLEAN, Gates(answer, client)
    PROVE  /\ Sent(answer, client) /\ answer \in Answers
           /\ parked' = (parked \/ answer = "parked")
  <1>0. /\ underway.at = "-" /\ UNCHANGED <<disk, counters, coherence, tracked, wrote>>
        /\ world \in World /\ parked \in BOOLEAN
    BY DEF Gates, Inv, Typed, KernelTyped, HistoryTyped
  <1>1. CASE answer = "coherence_mismatch" /\ Mismatch /\ UNCHANGED parked
    BY <1>0, <1>1, MismatchSent DEF Answers
  <1>2. CASE answer = "drift" /\ Coherent /\ DriftBlocks /\ UNCHANGED <<parked, underway, world>>
    BY <1>0, <1>2 DEF Sent, Answers
  <1>3. CASE answer = "parked" /\ parked' = TRUE /\ UNCHANGED <<underway, world>>
    BY <1>0, <1>3 DEF Sent, Answers
  <1>4. CASE answer = "none" /\ Admit(client) /\ UNCHANGED parked
    BY <1>0, <1>4 DEF Sent, Answers, Admit
  <1> QED BY <1>1, <1>2, <1>3, <1>4 DEF Gates

LEMMA GrantsSent ==
    ASSUME Inv, NEW answer, NEW client \in BOOLEAN, Grants(answer, client)
    PROVE  /\ Sent(answer, client) /\ answer \in {"coherence_mismatch", "none"}
           /\ parked /\ ~parked' /\ parked' \in BOOLEAN
  <1>0. /\ underway.at = "-" /\ UNCHANGED <<disk, counters, coherence, tracked, wrote>>
        /\ world \in World /\ parked /\ parked' = FALSE
    BY DEF Grants, Inv, Typed, HistoryTyped
  <1>1. CASE answer = "coherence_mismatch" /\ Mismatch
    BY <1>0, <1>1, MismatchSent
  <1>2. CASE answer = "none" /\ Admit(client)
    BY <1>0, <1>2 DEF Sent, Admit
  <1> QED BY <1>1, <1>2 DEF Grants

\* The token is that of the text, or somebody raced with its read.
LEMMA CoherentIsSeen ==
    ASSUME Inv, Pending, Coherent
    PROVE  disk[Target] = seen \/ world.raced
  <1>1. disk[Target] \in Text /\ Target \in Path /\ seen \in Text
    BY RecoveryAssumption DEF Inv, Typed, KernelTyped, ClientTyped
  <1> QED BY <1>1, NoTextIsNone DEF Coherent, Inv, Anchored

\* What is known of a patch that was sent.
LEMMA SentAdmitted ==
    ASSUME Inv, Pending, NEW answer, NEW client \in BOOLEAN, Sent(answer, client), UNCHANGED seen
    PROVE  /\ underway' \in Patches /\ Admitted'
           /\ underway'.at # "-" <=> answer = "none"
           /\ underway'.client <=> answer = "none" /\ client
  <1>1. CASE answer = "none"
    <2>1. /\ underway' = [at |-> "admitted", client |-> client, base |-> NoText, slipped |-> FALSE]
          /\ Coherent /\ UNCHANGED <<disk, world>>
      BY <1>1 DEF Sent
    <2>2. underway' \in Patches
      BY <2>1 DEF Patches
    <2>3. Admitted'
      BY <2>1, CoherentIsSeen DEF Admitted
    <2> QED BY <1>1, <2>1, <2>2, <2>3
  <1>2. CASE answer # "none"
    BY <1>2 DEF Sent, Inv, Typed, Flow, Admitted
  <1> QED BY <1>1, <1>2

LEMMA RefreshTyped ==
    ASSUME KernelTyped, Refreshes
    PROVE  KernelTyped'
  BY DEF KernelTyped, Refreshes, Anchors, Counters

-----------------------------------------------------------------------------
(* The steps of the client.                                                 *)

\* The client takes an answer to its patch.
Taken(answer) ==
    /\ UNCHANGED <<attempt, seen, params, late>>
    /\ \/ answer = "coherence_mismatch" /\ attempt = 1 /\ step' = "reread" /\ UNCHANGED result
       \/ answer = "coherence_mismatch" /\ attempt = 2 /\ step' = "over" /\ result' = "operator"
       \/ answer = "drift" /\ step = "apply" /\ step' = "refresh" /\ UNCHANGED result
       \/ answer = "drift" /\ step # "apply" /\ step' = "over" /\ result' = "drift"
       \/ answer = "parked" /\ step' = "resolve" /\ UNCHANGED result
       \/ answer = "none" /\ UNCHANGED <<step, result>>
       \/ answer \in Ended /\ step' = "over" /\ result' = answer

LEMMA TakesTaken ==
    ASSUME Inv, NEW answer \in Answers \cup Ended, Takes(answer)
    PROVE  Taken(answer)
  BY DEF Takes, Taken, Answers, Ended, Goto, Return, Inv, Typed, ClientTyped, clientState

\* A patch is sent or granted, and its answer taken.
LEMMA AnswerKeeps ==
    ASSUME Inv, NEW answer \in Answers, Sent(answer, TRUE), Taken(answer),
           step \in {"apply", "again", "resolve"},
           step = "resolve" => parked /\ answer \in {"coherence_mismatch", "none"},
           step # "resolve" => parked' = (parked \/ answer = "parked"),
           step = "resolve" => parked' = FALSE
    PROVE  Inv'
  <1>1. late = "none" /\ result = "none" /\ wrote = <<>> /\ (step # "resolve" => ~parked)
    BY DEF Inv, Flow, Typed, ClientTyped
  <1>2. KernelTyped'
    BY DEF Sent, Inv, Typed, KernelTyped
  <1>3. ClientTyped'
    BY DEF Taken, Answers, Ended, Inv, Typed, ClientTyped, Steps, Results
  <1>4. HistoryTyped' /\ WritesWhatWasSeen'
    BY DEF Sent, HistoryTyped, WritesWhatWasSeen, Inv, Typed
  <1>5. /\ underway' \in Patches /\ Admitted'
        /\ underway'.at # "-" <=> answer = "none"
        /\ underway'.client <=> answer = "none"
    BY SentAdmitted DEF Pending, Taken
  <1>6. Flow'
    <2>1. late' = "none"
      BY <1>1 DEF Taken
    <2>2. parked' => step' = "resolve" /\ result' = "none" /\ answer = "parked"
      <3>1. parked' => answer = "parked" /\ step # "resolve"
        BY <1>1
      <3> QED BY <1>1, <3>1 DEF Taken, Ended
    <2>3. (result' = "none") = (step' # "over")
      BY <1>1 DEF Taken, Ended
    <2>4. wrote' = <<>>
      BY <1>1 DEF Sent
    <2>5. answer = "none" => step' = step /\ result' = "none" /\ ~parked'
      BY <1>1, <2>2 DEF Taken, Ended
    <2> QED BY <1>5, <2>1, <2>2, <2>3, <2>4, <2>5 DEF Flow
  <1>7. Anchored'
    <2>1. Pending /\ step' # "issue" /\ world'.raced = world.raced
      BY DEF Pending, Taken, Sent, Ended
    <2> QED BY <2>1 DEF Anchored, Inv, Taken, Sent
  <1> QED BY <1>2, <1>3, <1>4, <1>5, <1>6, <1>7 DEF Inv, Typed

LEMMA ApplyKeeps == ASSUME Inv, Apply PROVE Inv'
  <1>1. PICK answer \in Answers : Gates(answer, TRUE) /\ Takes(answer)
    BY DEF Apply, Answers
  <1>2. step \in {"apply", "again"}
    BY DEF Apply
  <1>3. Sent(answer, TRUE) /\ parked' = (parked \/ answer = "parked")
    BY <1>1, GatesSent
  <1>4. Taken(answer)
    BY <1>1, TakesTaken
  <1> QED BY <1>2, <1>3, <1>4, AnswerKeeps

LEMMA ResolveKeeps == ASSUME Inv, ResolveApproval PROVE Inv'
  <1>1. step = "resolve"
    BY DEF ResolveApproval
  <1>2. ASSUME NEW answer \in {"coherence_mismatch", "none"}, Grants(answer, TRUE), Takes(answer)
        PROVE  Inv'
    <2>1. answer \in Answers /\ parked /\ parked' = FALSE
      BY <1>2 DEF Grants, Answers
    <2>2. Sent(answer, TRUE)
      BY <1>2, GrantsSent
    <2>3. Taken(answer)
      BY <1>2, <2>1, TakesTaken
    <2> QED BY <1>1, <1>2, <2>1, <2>2, <2>3, AnswerKeeps
  <1>3. CASE /\ ~parked /\ underway.at = "-" /\ Return("unresolved")
             /\ UNCHANGED <<kernelState, wrote, world>>
    <2>1. Typed'
      BY <1>1, <1>3 DEF Inv, Typed, KernelTyped, ClientTyped, HistoryTyped, Return, Steps, Results,
         kernelState
    <2>2. late = "none"
      BY <1>1 DEF Inv, Flow, Typed, ClientTyped
    <2>3. Flow'
      BY <1>1, <1>3, <2>2 DEF Inv, Flow, Return, kernelState
    <2>4. Anchored' /\ Admitted' /\ WritesWhatWasSeen'
      BY <1>1, <1>3, <2>2 DEF Inv, Anchored, Admitted, Pending, WritesWhatWasSeen, Return, kernelState
    <2> QED BY <2>1, <2>3, <2>4 DEF Inv
  <1> QED BY <1>2, <1>3 DEF ResolveApproval

\* The steps that only read or prepare.
LEMMA QuietKeeps ==
    ASSUME Inv, KernelTyped', ClientTyped', Anchored',
           step \notin {"apply", "again", "resolve", "over"}, step' \notin {"resolve", "over"},
           UNCHANGED <<parked, underway, late, result, wrote, world>>
    PROVE  Inv'
  <1>1. HistoryTyped' /\ WritesWhatWasSeen' /\ underway' \in Patches
    BY DEF Inv, Typed, HistoryTyped, WritesWhatWasSeen
  <1>2. Flow'
    BY DEF Inv, Flow
  <1>3. Admitted'
    BY DEF Inv, Flow, Admitted
  <1> QED BY <1>1, <1>2, <1>3 DEF Inv, Typed

LEMMA QuietFlow ==
    ASSUME Inv, step \notin {"apply", "again", "resolve", "over"}
    PROVE  ~parked /\ late = "none"
  BY DEF Inv, Flow, Typed, ClientTyped

LEMMA HashFirstKeeps == ASSUME Inv, HashFirst PROVE Inv'
  <1>1. disk[Target] \in Text
    BY RecoveryAssumption DEF Inv, Typed, KernelTyped
  <1>2. KernelTyped' /\ ClientTyped'
    BY <1>1 DEF HashFirst, kernelState, Inv, Typed, KernelTyped, ClientTyped, Steps
  <1>3. Anchored'
    BY DEF HashFirst, kernelState, Inv, Typed, ClientTyped, Anchored, Pending
  <1> QED BY <1>2, <1>3, QuietKeeps DEF HashFirst, kernelState

LEMMA RevalidateKeeps == ASSUME Inv, Revalidate PROVE Inv'
  <1>1. disk[Target] \in Text
    BY RecoveryAssumption DEF Inv, Typed, KernelTyped
  <1>2. KernelTyped' /\ ClientTyped'
    BY <1>1 DEF Revalidate, kernelState, Inv, Typed, KernelTyped, ClientTyped, Steps
  <1>3. Anchored'
    BY DEF Revalidate, kernelState, Inv, Typed, ClientTyped, Anchored, Pending
  <1> QED BY <1>2, <1>3, QuietKeeps DEF Revalidate, kernelState

LEMMA RefreshKeeps == ASSUME Inv, RefreshAndCite PROVE Inv'
  <1>1. CASE /\ Refreshes
             /\ params' = [params EXCEPT !.refresh = counters'.refresh]
             /\ step' = "again"
             /\ UNCHANGED <<underway, attempt, seen, late, result>>
    <2>1. KernelTyped'
      BY <1>1, RefreshTyped DEF Inv, Typed
    <2>2. counters'.refresh \in Nat
      BY <2>1 DEF KernelTyped, Counters
    <2>3. ClientTyped'
      BY <1>1, <2>2 DEF Inv, Typed, ClientTyped, Steps
    <2>4. step = "refresh" /\ UNCHANGED <<parked, wrote, world>>
      BY <1>1 DEF RefreshAndCite, Refreshes
    <2>5. Anchored'
      BY <1>1, <2>4 DEF Refreshes, Inv, Typed, ClientTyped, Anchored, Pending
    <2> QED BY <1>1, <2>1, <2>3, <2>4, <2>5, QuietKeeps
  <1>2. CASE Return("refused") /\ UNCHANGED <<kernelState, wrote>>
    <2>1. step = "refresh" /\ UNCHANGED <<kernelState, wrote, world, attempt, seen, params, late>>
          /\ step' = "over" /\ result' = "refused"
      BY <1>2 DEF RefreshAndCite, Return
    <2>2. ~parked /\ late = "none" /\ underway.at = "-" /\ ~underway.client
      BY <2>1, QuietFlow DEF Inv, Flow
    <2>3. Typed'
      BY <2>1 DEF Inv, Typed, KernelTyped, ClientTyped, HistoryTyped, kernelState, Steps, Results
    <2>4. Flow'
      BY <2>1, <2>2 DEF Flow, kernelState
    <2>5. Anchored' /\ Admitted' /\ WritesWhatWasSeen'
      BY <2>1, <2>2 DEF Inv, Anchored, Admitted, Pending, WritesWhatWasSeen, kernelState
    <2> QED BY <2>3, <2>4, <2>5 DEF Inv
  <1> QED BY <1>1, <1>2 DEF RefreshAndCite

LEMMA ReanchorKeeps == ASSUME Inv, Reanchor PROVE Inv'
  <1>1. KernelTyped'
    BY RefreshTyped DEF Reanchor, Inv, Typed
  <1>2. ClientTyped'
    BY DEF Reanchor, Goto, Inv, Typed, ClientTyped, Steps
  <1>3. Anchored'
    BY DEF Reanchor, Goto, Refreshes, Inv, Anchored, Pending
  <1> QED BY <1>1, <1>2, <1>3, QuietKeeps DEF Reanchor, Goto, Refreshes

LEMMA RereadKeeps == ASSUME Inv, Reread PROVE Inv'
  <1>1. disk[Target] \in Text
    BY RecoveryAssumption DEF Inv, Typed, KernelTyped
  <1>2. KernelTyped' /\ ClientTyped'
    BY <1>1 DEF Reread, kernelState, Inv, Typed, KernelTyped, ClientTyped, Steps
  <1>3. ~parked /\ late = "none"
    BY QuietFlow DEF Reread
  <1>4. Anchored'
    BY <1>3 DEF Reread, kernelState, Anchored, Pending
  <1> QED BY <1>2, <1>4, QuietKeeps DEF Reread, kernelState

LEMMA IssueKeeps == ASSUME Inv, Issue PROVE Inv'
  <1> DEFINE id == IF coherence.alive THEN coherence.id ELSE coherence.id + 1
             anchors == IF coherence.alive THEN coherence.anchors ELSE AnchorsAt({})
             new == [anchors EXCEPT ![Target] = disk[Target]]
  <1>1. disk[Target] \in Text /\ Target \in Path
    BY RecoveryAssumption DEF Inv, Typed, KernelTyped
  <1>2. id \in Nat
    BY DEF Inv, Typed, KernelTyped
  <1>3. anchors \in Anchors
    BY DEF Inv, Typed, KernelTyped, Anchors, AnchorsAt
  <1>4. /\ step = "issue" /\ step' = "reanchor"
        /\ coherence' = [id |-> id, alive |-> TRUE, verify |-> counters.verify, anchors |-> new]
        /\ params' = [id |-> id, revision |-> counters.revision, refresh |-> 0, hash |-> NoText]
        /\ tracked' = [tracked EXCEPT ![Target] = disk[Target]]
        /\ UNCHANGED <<disk, counters, parked, underway, attempt, seen, late, result, wrote, world>>
    BY DEF Issue
  <1> HIDE DEF id, anchors
  <1>5. new \in Anchors /\ new[Target] = disk[Target]
    BY <1>1, <1>3 DEF Anchors
  <1> HIDE DEF new
  <1>6. counters.verify \in Nat /\ counters.revision \in Nat
    BY DEF Inv, Typed, KernelTyped, Counters
  <1>7. tracked' \in Anchors
    BY <1>1, <1>4 DEF Inv, Typed, KernelTyped, Anchors
  <1>8. KernelTyped'
    BY <1>2, <1>4, <1>5, <1>6, <1>7 DEF Inv, Typed, KernelTyped
  <1>9. ClientTyped'
    BY <1>2, <1>4, <1>6 DEF Inv, Typed, ClientTyped, Steps
  <1>10. Anchored'
    BY <1>4, <1>5 DEF Inv, Anchored
  <1> QED BY <1>4, <1>8, <1>9, <1>10, QuietKeeps

LEMMA RaiseKeeps == ASSUME Inv, Raise PROVE Inv'
  <1>1. /\ late' \in {"none", "apply", "again", "resolve"} /\ step # "over" /\ step' = "over"
        /\ late' # "none" => late' = step /\ ~underway.client
        /\ underway' = [underway EXCEPT !.client = FALSE] /\ result' = "raised"
        /\ UNCHANGED <<disk, counters, coherence, tracked, parked, attempt, seen, params, wrote>>
    BY DEF Raise, Abandon
  <1>2. KernelTyped' /\ ClientTyped' /\ HistoryTyped'
    BY <1>1 DEF Raise, Inv, Typed, KernelTyped, ClientTyped, HistoryTyped, Steps, Results, World
  <1>3. /\ underway' \in Patches /\ underway'.at = underway.at /\ ~underway'.client
        /\ underway'.base = underway.base /\ underway'.slipped = underway.slipped
    BY <1>1 DEF Inv, Typed, Patches
  <1>4. Flow'
    BY <1>1, <1>3 DEF Inv, Flow
  <1>5. world'.raced = world.raced /\ (Pending' => Pending)
    <2>1. world'.raced = world.raced
      BY DEF Raise, Inv, Typed, HistoryTyped, World
    <2>2. Pending' => Pending
      BY <1>1 DEF Pending
    <2> QED BY <2>1, <2>2
  <1>6. Anchored' /\ Admitted' /\ WritesWhatWasSeen'
    BY <1>1, <1>3, <1>5 DEF Inv, Anchored, Admitted, WritesWhatWasSeen
  <1> QED BY <1>2, <1>3, <1>4, <1>6 DEF Inv, Typed

-----------------------------------------------------------------------------
(* The steps of applyPatch.                                                 *)

\* The patch is answered, and somebody may be told.
Told(answer) ==
    /\ underway.at # "-" /\ underway' = NoPatch
    /\ UNCHANGED <<attempt, seen, params, late>>
    /\ underway.client => step' = "over" /\ result' = answer
    /\ ~underway.client => UNCHANGED <<step, result>>

LEMMA EndsTold ==
    ASSUME Inv, underway.at # "-", NEW answer \in Ended, Ends(answer)
    PROVE  Told(answer)
  <1>1. CASE underway.client
    <2>1. Takes(answer) /\ underway' = NoPatch
      BY <1>1 DEF Ends
    <2> QED BY <1>1, <2>1, TakesTaken DEF Taken, Told, Ended
  <1>2. CASE ~underway.client
    BY <1>2 DEF Ends, Told, clientState
  <1> QED BY <1>1, <1>2

LEMMA TheEndKeeps ==
    ASSUME Inv, NEW answer \in Ended, Told(answer), UNCHANGED <<coherence, parked>>,
           disk' \in [Path -> Text], counters' \in Counters, tracked' \in Anchors, HistoryTyped',
           world'.raced = world.raced, WritesWhatWasSeen'
    PROVE  Inv'
  <1>1. /\ underway' \in Patches /\ underway'.at = "-" /\ ~underway'.client
    BY DEF Told, NoPatch, Patches
  <1>2. KernelTyped' /\ ClientTyped'
    BY DEF Inv, Typed, KernelTyped, ClientTyped, Told, Ended, Steps, Results
  <1>3. step' # "issue" /\ step' \in {"resolve", "over"} /\ (Pending' => Pending)
    BY DEF Inv, Flow, Told, Pending
  <1>4. Flow'
    BY <1>1, <1>3 DEF Inv, Flow, Told, Ended
  <1>5. Anchored' /\ Admitted'
    BY <1>1, <1>3 DEF Inv, Anchored, Admitted, Told
  <1> QED BY <1>1, <1>2, <1>4, <1>5 DEF Inv, Typed

LEMMA ReadBaseKeeps == ASSUME Inv, ReadBase PROVE Inv'
  <1>1. disk[Target] \in Text
    BY RecoveryAssumption DEF Inv, Typed, KernelTyped
  <1>2. /\ underway.at = "admitted"
        /\ underway' = [underway EXCEPT !.at = "checked", !.base = disk[Target]]
        /\ UNCHANGED <<disk, counters, coherence, tracked, parked, step, attempt, seen, params, late,
                       result, wrote, world>>
    BY DEF ReadBase, clientState
  <1>3. /\ underway' \in Patches /\ underway'.at = "checked" /\ underway'.base = disk[Target]
        /\ underway'.client = underway.client /\ underway'.slipped = underway.slipped
    BY <1>1, <1>2 DEF Inv, Typed, Patches
  <1>4. Typed'
    BY <1>2, <1>3 DEF Inv, Typed, KernelTyped, ClientTyped, HistoryTyped
  <1>5. Flow' /\ Anchored' /\ Admitted' /\ WritesWhatWasSeen'
    BY <1>1, <1>2, <1>3 DEF Inv, Flow, Anchored, Admitted, Pending, WritesWhatWasSeen
  <1> QED BY <1>4, <1>5 DEF Inv

LEMMA RefusePatchTold ==
    ASSUME Inv, RefusePatch
    PROVE  /\ Told("refused") /\ UNCHANGED <<disk, counters, coherence, tracked, parked, wrote>>
           /\ world' \in World /\ world'.raced = world.raced /\ world'.others = world.others
           /\ world'.disturbed <=> world.disturbed \/ (disk[Target] = seen /\ params.hash = seen)
  <1> DEFINE now == world.disturbed \/ (disk[Target] = seen /\ params.hash = seen)
  <1>1. /\ underway.at # "-" /\ Ends("refused") /\ world' = [world EXCEPT !.disturbed = now]
        /\ UNCHANGED <<disk, counters, coherence, tracked, parked, wrote>>
    BY DEF RefusePatch
  <1>2. world \in World /\ now \in BOOLEAN
        /\ (now <=> world.disturbed \/ (disk[Target] = seen /\ params.hash = seen))
    BY DEF Inv, Typed, HistoryTyped, World
  <1> HIDE DEF now
  <1>3. /\ world' \in World /\ world'.raced = world.raced /\ world'.others = world.others
        /\ world'.disturbed = now
    BY <1>1, <1>2 DEF World
  <1>4. Told("refused")
    BY <1>1, EndsTold DEF Ended
  <1> QED BY <1>1, <1>2, <1>3, <1>4

LEMMA RefuseKeeps == ASSUME Inv, RefusePatch PROVE Inv'
  <1>1. HistoryTyped' /\ WritesWhatWasSeen'
    BY RefusePatchTold DEF Inv, Typed, HistoryTyped, WritesWhatWasSeen
  <1> QED BY <1>1, RefusePatchTold, TheEndKeeps DEF Inv, Typed, KernelTyped, Ended

LEMMA WriteTold ==
    ASSUME Inv, Write
    PROVE  /\ Told("applied") /\ UNCHANGED <<coherence, parked, world>>
           /\ disk' \in [Path -> Text] /\ counters' \in Counters /\ tracked' \in Anchors
           /\ wrote' \in Seq(Written) /\ Len(wrote') = 1 /\ WritesWhatWasSeen'
  <1> DEFINE e == [text |-> disk[Target], seen |-> seen, raced |-> world.raced,
                   slipped |-> underway.slipped]
  <1>1. disk[Target] \in Text /\ seen \in Text /\ Target \in Path /\ Wanted \in Line
    BY RecoveryAssumption DEF Inv, Typed, KernelTyped, ClientTyped
  <1>2. PICK base \in {underway.base, disk[Target]} :
          disk' = [disk EXCEPT ![Target] = [base EXCEPT !.line = Wanted]]
    BY DEF Write
  <1>3. base \in Text
    BY <1>1, <1>2 DEF Write, Inv, Admitted
  <1>4. [base EXCEPT !.line = Wanted] \in Text
    BY <1>1, <1>3 DEF Text
  <1>5. disk' \in [Path -> Text] /\ disk'[Target] \in Text
    BY <1>1, <1>2, <1>4 DEF Inv, Typed, KernelTyped
  <1>6. tracked' \in Anchors
    BY <1>1, <1>5 DEF Write, Inv, Typed, KernelTyped, Anchors
  <1>7. counters' \in Counters
    <2>1. counters' = [counters EXCEPT !.revision = @ + 1] /\ counters \in Counters
      BY DEF Write, Inv, Typed, KernelTyped
    <2> QED BY <2>1 DEF Counters
  <1>8. e \in Written /\ (e.text = e.seen \/ e.raced \/ e.slipped)
    <2>1. underway.slipped \/ disk[Target] = seen \/ world.raced
      BY DEF Write, Inv, Admitted
    <2>2. world.raced \in BOOLEAN /\ underway.slipped \in BOOLEAN
      BY DEF Inv, Typed, HistoryTyped, World, Patches
    <2> QED BY <1>1, <2>1, <2>2 DEF Written
  <1>9. wrote' = Append(wrote, e) /\ wrote = <<>> /\ UNCHANGED <<coherence, parked, world>>
    BY DEF Write, Inv, Flow
  <1> HIDE DEF e
  <1>10. WritesWhatWasSeen' /\ wrote' \in Seq(Written) /\ Len(wrote') = 1
    BY <1>8, <1>9, WriteIsGood DEF Inv, Typed, HistoryTyped
  <1>11. Told("applied")
    BY EndsTold DEF Write, Ended
  <1> QED BY <1>5, <1>6, <1>7, <1>9, <1>10, <1>11

LEMMA WriteKeeps == ASSUME Inv, Write PROVE Inv'
  <1>1. HistoryTyped' /\ world'.raced = world.raced
    BY WriteTold DEF Inv, Typed, HistoryTyped
  <1> QED BY <1>1, WriteTold, TheEndKeeps DEF Ended

-----------------------------------------------------------------------------
(* The steps of the others.                                                 *)

\* A patch that the client no longer waits for, or that somebody else
\* decides, is let in or is not.
LEMMA ElsewhereKeeps ==
    ASSUME Inv, NEW answer, Sent(answer, FALSE), Pending, wrote = <<>>,
           step \in {"resolve", "over"}, result \in {"none", "raised"},
           late' \in {"none", late}, parked' \in BOOLEAN,
           late' # "none" => late = "resolve",
           parked' => late' = "none" /\ answer = "parked",
           UNCHANGED <<step, attempt, seen, params, result>>
    PROVE  Inv'
  <1>1. KernelTyped' /\ ClientTyped' /\ HistoryTyped' /\ WritesWhatWasSeen'
    BY DEF Sent, Inv, Typed, KernelTyped, ClientTyped, HistoryTyped, WritesWhatWasSeen
  <1>2. /\ underway' \in Patches /\ Admitted' /\ ~underway'.client
        /\ underway'.at # "-" <=> answer = "none"
    BY SentAdmitted
  <1>3. wrote' = <<>>
    BY DEF Sent
  <1>4. Flow'
    BY <1>2, <1>3 DEF Inv, Flow
  <1>5. Anchored'
    BY DEF Sent, Inv, Anchored
  <1> QED BY <1>1, <1>2, <1>4, <1>5 DEF Inv, Typed

LEMMA LateSent ==
    ASSUME Inv, Late
    PROVE  \E answer \in Answers :
             /\ Sent(answer, FALSE) /\ Pending /\ wrote = <<>> /\ late' = "none"
             /\ step = "over" /\ result = "raised"
             /\ parked' \in BOOLEAN /\ (parked' => answer = "parked")
             /\ UNCHANGED <<step, attempt, seen, params, result>>
  <1>1. /\ late # "none" /\ late' = "none" /\ step = "over" /\ result = "raised" /\ Pending
        /\ UNCHANGED <<step, attempt, seen, params, result>>
    BY DEF Late, Inv, Flow, Pending
  <1>2. PICK answer \in Answers :
          IF late = "resolve" THEN Grants(answer, FALSE) ELSE Gates(answer, FALSE)
    BY DEF Late, Answers
  <1>3. CASE late = "resolve"
    <2>1. Sent(answer, FALSE) /\ parked /\ ~parked' /\ parked' \in BOOLEAN
      BY <1>2, <1>3, GrantsSent
    <2>2. wrote = <<>>
      BY <2>1 DEF Inv, Flow
    <2> QED BY <1>1, <2>1, <2>2
  <1>4. CASE late # "resolve"
    <2>1. late \in {"apply", "again"} /\ ~parked /\ wrote = <<>>
      BY <1>1, <1>4 DEF Inv, Typed, ClientTyped, Flow
    <2>2. Sent(answer, FALSE) /\ parked' = (parked \/ answer = "parked")
      BY <1>2, <1>4, GatesSent
    <2>3. parked' \in BOOLEAN /\ (parked' => answer = "parked")
      BY <2>1, <2>2
    <2> QED BY <1>1, <2>1, <2>2, <2>3
  <1> QED BY <1>3, <1>4

LEMMA LateKeeps == ASSUME Inv, Late PROVE Inv'
  BY LateSent, ElsewhereKeeps

LEMMA DecidedSent ==
    ASSUME Inv, OtherDecides
    PROVE  \E answer \in Answers :
             /\ Sent(answer, FALSE) /\ Pending /\ wrote = <<>>
             /\ step \in {"resolve", "over"} /\ result \in {"none", "raised"}
             /\ late' = late /\ (late # "none" => late = "resolve")
             /\ ~parked' /\ parked' \in BOOLEAN
             /\ UNCHANGED <<step, attempt, seen, params, result>>
  <1>1. /\ parked /\ step \in {"resolve", "over"} /\ wrote = <<>> /\ Pending
        /\ late' = late /\ result \in {"none", "raised"} /\ underway.at = "-"
        /\ late \notin {"apply", "again"}
        /\ UNCHANGED <<step, attempt, seen, params, result>>
    BY DEF OtherDecides, clientState, Inv, Flow, Pending
  <1>2. late # "none" => late = "resolve"
    BY <1>1 DEF Inv, Typed, ClientTyped
  <1>3. ~parked' /\ parked' \in BOOLEAN
    BY DEF OtherDecides, Grants
  <1>4. ASSUME NEW answer \in {"coherence_mismatch", "none"}, Grants(answer, FALSE)
        PROVE  Sent(answer, FALSE) /\ answer \in Answers
    BY <1>4, GrantsSent DEF Answers
  <1>5. CASE \E answer \in {"coherence_mismatch", "none"} : Grants(answer, FALSE)
    BY <1>1, <1>2, <1>3, <1>4, <1>5
  <1>6. CASE UNCHANGED <<disk, counters, coherence, tracked, underway, wrote, world>>
    <2>1. Sent("parked", FALSE) /\ "parked" \in Answers
      BY <1>1, <1>6 DEF Sent, Answers, Inv, Typed, HistoryTyped
    <2> QED BY <1>1, <1>2, <1>3, <2>1
  <1> QED BY <1>5, <1>6 DEF OtherDecides

LEMMA OtherDecidesKeeps == ASSUME Inv, OtherDecides PROVE Inv'
  BY DecidedSent, ElsewhereKeeps

LEMMA WorldGrows ==
    ASSUME NEW w \in World, NEW raced \in BOOLEAN, NEW disturbed \in BOOLEAN
    PROVE  [w EXCEPT !.changes = @ + 1, !.raced = raced, !.disturbed = disturbed] \in World
  <1> DEFINE w1 == [w EXCEPT !.changes = @ + 1]
             w2 == [w1 EXCEPT !.raced = raced]
             w3 == [w2 EXCEPT !.disturbed = disturbed]
  <1>1. w1 \in World
    BY DEF World
  <1>2. [w EXCEPT !.changes = @ + 1, !.raced = raced, !.disturbed = disturbed] = w3
    OBVIOUS
  <1> HIDE DEF w1
  <1>3. w2 \in World
    BY <1>1 DEF World
  <1> HIDE DEF w2
  <1>4. w3 \in World
    BY <1>3 DEF World
  <1> HIDE DEF w3
  <1> QED BY <1>2, <1>4

\* Others change what the kernel holds; no anchor of a token becomes newer.
Raced == step = "issue" /\ disk'[Target] # disk[Target]
Slips == underway.at # "-" /\ disk'[Target] # disk[Target]

LEMMA Disturbed ==
    ASSUME Inv, Disturbs
    PROVE  /\ world' \in World /\ (world'.raced <=> world.raced \/ Raced)
           /\ (world'.disturbed <=> world.disturbed \/ attempt = 2 \/ step = "reread")
           /\ underway' \in Patches /\ underway'.at = underway.at
           /\ underway'.client = underway.client /\ underway'.base = underway.base
           /\ (underway'.slipped <=> underway.slipped \/ Slips)
           /\ UNCHANGED <<step, attempt, seen, params, late, result>>
  <1> DEFINE nowRaced == world.raced \/ Raced
             nowDisturbed == world.disturbed \/ attempt = 2 \/ step = "reread"
             nowSlipped == underway.slipped \/ Slips
  <1>1. world \in World /\ underway \in Patches
    BY DEF Inv, Typed, HistoryTyped
  <1>2. nowRaced \in BOOLEAN /\ nowDisturbed \in BOOLEAN /\ nowSlipped \in BOOLEAN
    BY <1>1 DEF World, Patches, Raced, Slips
  <1>3. /\ nowRaced <=> world.raced \/ Raced
        /\ nowDisturbed <=> world.disturbed \/ attempt = 2 \/ step = "reread"
        /\ nowSlipped <=> underway.slipped \/ Slips
    OBVIOUS
  <1>4. /\ world' = [world EXCEPT !.changes = @ + 1, !.raced = nowRaced, !.disturbed = nowDisturbed]
        /\ underway' = [underway EXCEPT !.slipped = nowSlipped]
        /\ UNCHANGED <<step, attempt, seen, params, late, result>>
    BY DEF Disturbs, clientState, Raced, Slips
  <1> HIDE DEF nowRaced, nowDisturbed, nowSlipped
  <1>5. world' \in World
    BY <1>1, <1>2, <1>4, WorldGrows
  <1>6. world'.raced = nowRaced /\ world'.disturbed = nowDisturbed
    BY <1>1, <1>4 DEF World
  <1>7. /\ underway' \in Patches /\ underway'.at = underway.at
        /\ underway'.client = underway.client /\ underway'.base = underway.base
        /\ underway'.slipped = nowSlipped
    BY <1>1, <1>2, <1>4 DEF Patches
  <1> QED BY <1>3, <1>4, <1>5, <1>6, <1>7

LEMMA DisturbKeeps ==
    ASSUME Inv, Disturbs, KernelTyped', UNCHANGED <<parked, wrote>>,
           UNCHANGED <<coherence>> \/ ~coherence'.alive
    PROVE  Inv'
  <1>1. ClientTyped' /\ HistoryTyped'
    BY Disturbed DEF Inv, Typed, ClientTyped, HistoryTyped
  <1>2. Flow' /\ WritesWhatWasSeen'
    BY Disturbed DEF Inv, Flow, WritesWhatWasSeen
  <1>3. Pending' <=> Pending
    BY Disturbed DEF Pending
  <1>4. Anchored'
    <2>1. step' = "issue" => world'.raced \/ disk'[Target] = seen'
      BY Disturbed DEF Raced, Inv, Anchored
    <2>2. Pending' /\ coherence'.alive /\ coherence'.id = params'.id =>
            coherence'.anchors[Target] = seen' \/ world'.raced
      BY <1>3, Disturbed DEF Inv, Anchored
    <2> QED BY <2>1, <2>2 DEF Anchored
  <1>5. Admitted'
    BY Disturbed DEF Slips, Inv, Admitted
  <1> QED BY <1>1, <1>2, <1>4, <1>5, Disturbed DEF Inv, Typed

LEMMA WorldKeeps == ASSUME Inv, WorldDoes PROVE Inv'
  <1>1. ASSUME NEW p \in Path, Edits(p) PROVE disk' \in [Path -> Text] /\ disk'[p] \in Text
    BY <1>1 DEF Edits, Inv, Typed, KernelTyped
  <1>2. ASSUME NEW p \in Path, OutsideEdit(p) PROVE Inv'
    <2>1. KernelTyped'
      BY <1>1, <1>2 DEF OutsideEdit, Inv, Typed, KernelTyped
    <2> QED BY <1>2, <2>1, DisturbKeeps DEF OutsideEdit
  <1>3. ASSUME NEW p \in Path, OtherPatch(p) PROVE Inv'
    <2>1. disk' \in [Path -> Text] /\ disk'[p] \in Text
      BY <1>1, <1>3 DEF OtherPatch
    <2>2. tracked' \in Anchors /\ counters' \in Counters
      BY <1>3, <2>1 DEF OtherPatch, Inv, Typed, KernelTyped, Anchors, Counters
    <2>3. KernelTyped'
      BY <1>3, <2>1, <2>2 DEF OtherPatch, Inv, Typed, KernelTyped
    <2> QED BY <1>3, <2>3, DisturbKeeps DEF OtherPatch
  <1>4. CASE OtherVerification
    <2>1. KernelTyped'
      BY <1>4 DEF OtherVerification, Inv, Typed, KernelTyped, Counters
    <2> QED BY <1>4, <2>1, DisturbKeeps DEF OtherVerification
  <1>5. CASE OtherRefresh
    <2>1. KernelTyped'
      BY <1>5, RefreshTyped DEF OtherRefresh, Inv, Typed
    <2> QED BY <1>5, <2>1, DisturbKeeps DEF OtherRefresh, Refreshes
  <1>6. CASE TokenDies
    <2>1. KernelTyped' /\ ~coherence'.alive
      BY <1>6 DEF TokenDies, Inv, Typed, KernelTyped
    <2> QED BY <1>6, <2>1, DisturbKeeps DEF TokenDies
  <1> QED BY <1>2, <1>3, <1>4, <1>5, <1>6, OtherDecidesKeeps, LateKeeps DEF WorldDoes

-----------------------------------------------------------------------------
(* The invariant.                                                           *)

LEMMA InitKeeps == RecoveryInit => Inv
  <1> SUFFICES ASSUME RecoveryInit PROVE Inv
    OBVIOUS
  <1>1. PICK read \in SUBSET Path :
           /\ Target \in read /\ tracked = AnchorsAt(read)
           /\ coherence = [id |-> 1, alive |-> TRUE, verify |-> 0, anchors |-> AnchorsAt(read)]
    BY DEF RecoveryInit
  <1>2. disk \in [Path -> Text] /\ Target \in Path
    BY RecoveryAssumption DEF RecoveryInit
  <1>3. AnchorsAt(read) \in Anchors /\ AnchorsAt(read)[Target] = disk[Target]
    BY <1>1, <1>2 DEF AnchorsAt, Anchors
  <1>4. KernelTyped
    BY <1>1, <1>2, <1>3 DEF RecoveryInit, KernelTyped, Counters
  <1>5. ClientTyped
    BY <1>2 DEF RecoveryInit, ClientTyped, Steps, Results
  <1>6. HistoryTyped
    BY DEF RecoveryInit, HistoryTyped, World
  <1>7. Flow /\ Admitted /\ WritesWhatWasSeen /\ underway \in Patches
    BY DEF RecoveryInit, Flow, Admitted, WritesWhatWasSeen, NoPatch, Patches
  <1>8. Anchored
    BY <1>1, <1>3 DEF RecoveryInit, Anchored
  <1> QED BY <1>4, <1>5, <1>6, <1>7, <1>8 DEF Inv, Typed

LEMMA StepKeeps == Inv /\ [RecoveryNext]_recoveryVars => Inv'
  <1> SUFFICES ASSUME Inv, [RecoveryNext]_recoveryVars PROVE Inv'
    OBVIOUS
  <1>1. CASE ClientDoes
    BY <1>1, HashFirstKeeps, ApplyKeeps, RefreshKeeps, ResolveKeeps, RereadKeeps,
       IssueKeeps, ReanchorKeeps, RevalidateKeeps, RaiseKeeps DEF ClientDoes
  <1>2. CASE WorldDoes
    BY <1>2, WorldKeeps
  <1>3. CASE UNCHANGED recoveryVars
    <2>1. Typed' /\ Flow'
      BY <1>3 DEF recoveryVars, kernelState, clientState, Inv, Typed, KernelTyped,
         ClientTyped, HistoryTyped, Flow
    <2>2. Anchored' /\ Admitted' /\ WritesWhatWasSeen'
      BY <1>3 DEF recoveryVars, kernelState, clientState, Inv, Anchored, Admitted, Pending,
         WritesWhatWasSeen
    <2> QED BY <2>1, <2>2 DEF Inv
  <1> QED BY <1>1, <1>2, <1>3, ReadBaseKeeps, RefuseKeeps, WriteKeeps DEF RecoveryNext

LEMMA InvHolds == RecoverySpec => []Inv
  BY InitKeeps, StepKeeps, PTL DEF RecoverySpec

\* What the patch replaces is what it was computed from, wherever it runs: in
\* the first attempt, in the retry, through an approval, or late; but for an
\* edit between the text and the token of one read, and one that slips in
\* between the kernel's checks and its write.
THEOREM NothingUnseenIsReplaced == RecoverySpec => []WritesWhatWasSeen
  <1>1. Inv => WritesWhatWasSeen
    BY DEF Inv
  <1> QED BY <1>1, InvHolds, PTL

-----------------------------------------------------------------------------
(* The refinement.                                                          *)

LEMMA PatchTold ==
    ASSUME Inv, NEW answer \in Answers, Taken(answer), wrote = <<>>, wrote' = wrote,
           step \in {"apply", "again", "resolve"}
    PROVE  [Edit!Next]_<<result, Len(wrote)>>
  <1>1. result = "none" /\ Len(wrote) = 0
    BY DEF Inv, Flow
  <1>2. result' = result \/ result' \in {"operator", "drift"}
    BY DEF Taken, Answers, Ended
  <1>3. CASE result' = result
    BY <1>3
  <1>4. CASE result' \in {"operator", "drift"}
    BY <1>1, <1>4 DEF Edit!Next, Edit!Tell, Edit!Certain
  <1> QED BY <1>2, <1>3, <1>4

LEMMA EditStep ==
    ASSUME Inv, [RecoveryNext]_recoveryVars
    PROVE  [Edit!Next]_<<result, Len(wrote)>>
  <1>1. CASE UNCHANGED <<result, wrote>>
    BY <1>1
  <1>2. CASE Apply
    <2>1. PICK answer \in Answers : Gates(answer, TRUE) /\ Takes(answer)
      BY <1>2 DEF Apply, Answers
    <2>2. wrote = <<>> /\ step \in {"apply", "again", "resolve"}
      BY <1>2 DEF Apply, Inv, Flow
    <2>3. wrote' = wrote /\ Taken(answer)
      BY <2>1, TakesTaken DEF Gates
    <2> QED BY <2>2, <2>3, PatchTold
  <1>3. CASE ResolveApproval
    <2>1. ASSUME NEW answer \in {"coherence_mismatch", "none"}, Grants(answer, TRUE), Takes(answer)
          PROVE  [Edit!Next]_<<result, Len(wrote)>>
      <3>1. /\ wrote = <<>> /\ wrote' = wrote /\ step = "resolve" /\ answer \in Answers
        BY <1>3, <2>1 DEF ResolveApproval, Grants, Inv, Flow, Answers
      <3>2. Taken(answer)
        BY <2>1, <3>1, TakesTaken
      <3> QED BY <3>1, <3>2, PatchTold
    <2>2. CASE Return("unresolved") /\ UNCHANGED wrote
      <3>1. result = "none" /\ result' = "unresolved"
        BY <1>3, <2>2 DEF ResolveApproval, Return, Inv, Flow
      <3> QED BY <2>2, <3>1 DEF Edit!Next, Edit!Tell, Edit!Certain, Edit!Unsure
    <2> QED BY <1>3, <2>1, <2>2 DEF ResolveApproval
  <1>4. CASE Raise
    <2>1. result = "none" /\ result' = "raised" /\ UNCHANGED wrote
      BY <1>4 DEF Raise, Inv, Flow
    <2> QED BY <2>1 DEF Edit!Next, Edit!Tell, Edit!Certain, Edit!Unsure
  <1>5. CASE RefusePatch
    <2>1. wrote = <<>> /\ wrote' = wrote /\ Told("refused")
      BY <1>5, RefusePatchTold DEF Told, Inv, Flow
    <2>2. CASE underway.client
      <3>1. result = "none" /\ result' = "refused"
        BY <2>1, <2>2 DEF Told, Inv, Flow
      <3> QED BY <2>1, <3>1 DEF Edit!Next, Edit!Tell, Edit!Certain
    <2> QED BY <2>1, <2>2 DEF Told
  <1>6. CASE Write
    <2>1. wrote = <<>> /\ Len(wrote') = 1 /\ Told("applied") /\ result \in {"none", "raised"}
      BY <1>6, WriteTold DEF Told, Inv, Flow
    <2>2. CASE underway.client
      <3>1. result = "none" /\ result' = "applied"
        BY <2>1, <2>2 DEF Told, Inv, Flow
      <3> QED BY <2>1, <3>1 DEF Edit!Next, Edit!WriteAndTell
    <2>3. CASE ~underway.client
      BY <2>1, <2>3 DEF Told, Edit!Next, Edit!Write, Edit!Certain
    <2> QED BY <2>2, <2>3
  <1>7. CASE RefreshAndCite
    <2>1. CASE UNCHANGED <<result, wrote>>
      BY <2>1
    <2>2. CASE Return("refused") /\ UNCHANGED wrote
      <3>1. result = "none" /\ result' = "refused" /\ wrote = <<>>
        BY <1>7, <2>2 DEF RefreshAndCite, Return, Inv, Flow
      <3> QED BY <2>2, <3>1 DEF Edit!Next, Edit!Tell, Edit!Certain
    <2> QED BY <1>7, <2>1, <2>2 DEF RefreshAndCite, Refreshes
  <1>8. HashFirst \/ Reread \/ Issue \/ Reanchor \/ Revalidate \/ ReadBase
          => UNCHANGED <<result, wrote>>
    BY DEF HashFirst, Refreshes, Reread, Issue, Reanchor, Goto, Revalidate, ReadBase, clientState
  <1>9. Late \/ OtherDecides => UNCHANGED <<result, wrote>>
    BY DEF Late, OtherDecides, Gates, Grants, clientState
  <1>10. /\ \A p \in Path : OutsideEdit(p) \/ OtherPatch(p) => UNCHANGED <<result, wrote>>
         /\ OtherVerification \/ OtherRefresh \/ TokenDies => UNCHANGED <<result, wrote>>
    BY DEF OutsideEdit, OtherPatch, OtherVerification, OtherRefresh, Refreshes, TokenDies,
       Disturbs, clientState
  <1>11. UNCHANGED recoveryVars => UNCHANGED <<result, wrote>>
    BY DEF recoveryVars, clientState
  <1> QED
    BY <1>1, <1>2, <1>3, <1>4, <1>5, <1>6, <1>7, <1>8, <1>9, <1>10, <1>11
       DEF RecoveryNext, ClientDoes, WorldDoes

\* The recovery implements OneEdit: one write at most, and no certain answer
\* that is not true, for any interleaving with the world and late requests.
THEOREM RecoveryIsOneEdit == RecoverySpec => ImplementsOneEdit
  <1>1. RecoveryInit => Edit!Init
    BY DEF RecoveryInit, Edit!Init
  <1>2. Inv /\ [RecoveryNext]_recoveryVars => [Edit!Next]_<<result, Len(wrote)>>
    BY EditStep
  <1> QED BY <1>1, <1>2, InvHolds, PTL DEF RecoverySpec, ImplementsOneEdit, Edit!Spec

-----------------------------------------------------------------------------
(* The retry that nobody disturbs.                                          *)

Calm == attempt = 2 /\ ~world.disturbed /\ ~world.others

Retried == step = "resolve" /\ (parked \/ underway.client)

\* What each step of an undisturbed retry finds.
Ready ==
    /\ step \notin {"hash", "refresh", "again", "reread"}
    /\ result \in {"none", "applied", "unresolved"}
    /\ step = "issue" => disk[Target] = seen /\ (coherence.alive => ~OthersStale)
    /\ step \in {"reanchor", "revalidate", "apply"} \/ Retried => Coherent /\ disk[Target] = seen
    /\ step \in {"revalidate", "apply"} => \A p \in Path : tracked[p] \in {NoText, disk[p]}
    /\ step = "apply" \/ Retried => params.hash = seen

RetryInv ==
    /\ result = "raised" => world.disturbed
    /\ step = "reread" /\ ~world.disturbed /\ ~world.others => ~OthersStale
    /\ Calm => Ready

\* The client takes the answer of a gate.
LEMMA RetryAnswered ==
    ASSUME Inv, RetryInv, NEW answer \in Answers, Sent(answer, TRUE), Taken(answer),
           step \in {"apply", "again"} \/ (Retried /\ answer \in {"coherence_mismatch", "none"})
    PROVE  RetryInv'
  <1>1. /\ result = "none" /\ attempt' = attempt
        /\ UNCHANGED <<disk, counters, coherence, seen, params>>
    BY DEF Inv, Flow, Retried, Taken, Sent
  <1>2. (Calm' => Calm) /\ (Coherent' <=> Coherent) /\ (OthersStale' <=> OthersStale)
    BY <1>1 DEF Calm, Coherent, OthersStale, Sent
  <1>3. CASE answer = "coherence_mismatch" /\ attempt = 1
    <2>1. step' = "reread" /\ attempt' = 1 /\ result' = "none"
      BY <1>1, <1>3 DEF Taken, Ended
    <2>2. ~world'.others => ~OthersStale'
      BY <1>2, <1>3 DEF Sent
    <2> QED BY <2>1, <2>2 DEF RetryInv, Calm
  <1>4. CASE answer = "coherence_mismatch" /\ attempt # 1
    <2>1. step' = "over" /\ result' = "operator"
      BY <1>4 DEF Taken, Ended
    <2>2. ~Calm
      BY <1>4 DEF RetryInv, Ready, Sent
    <2> QED BY <1>2, <2>1, <2>2 DEF RetryInv
  <1>5. CASE answer = "drift"
    <2>1. ~Calm
      BY <1>5 DEF RetryInv, Ready, Sent, DriftBlocks, Retried
    <2>2. step' # "reread" /\ result' # "raised"
      BY <1>1, <1>5 DEF Taken, Ended
    <2> QED BY <1>2, <2>1, <2>2 DEF RetryInv
  <1>6. CASE answer \in {"parked", "none"}
    <2>1. step' \in {step, "resolve"} /\ result' = "none"
      BY <1>1, <1>6 DEF Taken, Ended
    <2>2. Calm => /\ step \in {"apply", "resolve"} /\ Coherent /\ disk[Target] = seen
                  /\ params.hash = seen
                  /\ step = "apply" => \A p \in Path : tracked[p] \in {NoText, disk[p]}
      BY DEF RetryInv, Ready, Retried
    <2>3. UNCHANGED tracked
      BY DEF Sent
    <2>4. Calm' => Ready'
      BY <1>1, <1>2, <2>1, <2>2, <2>3 DEF Ready
    <2>5. step' # "reread"
      BY <2>1 DEF Retried
    <2> QED BY <2>1, <2>4, <2>5 DEF RetryInv
  <1> QED BY <1>3, <1>4, <1>5, <1>6 DEF Answers

LEMMA RetryApplies == ASSUME Inv, RetryInv, Apply PROVE RetryInv'
  <1>1. PICK answer \in Answers : Gates(answer, TRUE) /\ Takes(answer)
    BY DEF Apply, Answers
  <1>2. Sent(answer, TRUE) /\ Taken(answer)
    BY <1>1, GatesSent, TakesTaken
  <1> QED BY <1>2, RetryAnswered DEF Apply

LEMMA RetryResolves == ASSUME Inv, RetryInv, ResolveApproval PROVE RetryInv'
  <1>1. ASSUME NEW answer \in {"coherence_mismatch", "none"}, Grants(answer, TRUE), Takes(answer)
        PROVE  RetryInv'
    <2>1. Retried /\ answer \in Answers
      BY <1>1 DEF ResolveApproval, Grants, Answers, Retried
    <2>2. Sent(answer, TRUE)
      BY <1>1, GrantsSent
    <2>3. Taken(answer)
      BY <1>1, <2>1, TakesTaken
    <2> QED BY <2>1, <2>2, <2>3, RetryAnswered
  <1>2. CASE Return("unresolved") /\ UNCHANGED <<kernelState, wrote, world>>
    BY <1>2 DEF Return, RetryInv, Ready, Retried, Calm
  <1> QED BY <1>1, <1>2 DEF ResolveApproval

\* The patch is read, and fails or is written.
LEMMA RetryReads == ASSUME Inv, RetryInv, ReadBase PROVE RetryInv'
  <1>1. /\ underway' = [underway EXCEPT !.at = "checked", !.base = disk[Target]]
        /\ UNCHANGED <<disk, counters, coherence, tracked, parked, step, attempt, seen, params,
                       result, world>>
    BY DEF ReadBase, clientState
  <1>2. underway'.client = underway.client
    BY <1>1 DEF Inv, Typed, Patches
  <1>3. /\ (Calm' <=> Calm) /\ (Coherent' <=> Coherent) /\ (OthersStale' <=> OthersStale)
        /\ (Retried' <=> Retried)
    BY <1>1, <1>2 DEF Calm, Coherent, OthersStale, Retried
  <1>4. Ready' <=> Ready
    BY <1>1, <1>3 DEF Ready
  <1> QED BY <1>1, <1>3, <1>4 DEF RetryInv

LEMMA RetryEnds ==
    ASSUME Inv, RetryInv, NEW answer \in Ended, Told(answer), UNCHANGED parked,
           world.disturbed => world'.disturbed, world.others => world'.others,
           underway.client /\ Calm => answer = "applied" \/ world'.disturbed
    PROVE  RetryInv'
  <1>1. Calm' => Calm
    BY DEF Calm, Told
  <1>2. CASE underway.client
    <2>1. step' = "over" /\ result' = answer
      BY <1>2 DEF Told
    <2>2. Calm' => answer = "applied"
      BY <1>1, <1>2 DEF Calm
    <2> QED BY <2>1, <2>2 DEF RetryInv, Ready, Retried, Ended
  <1>3. CASE ~underway.client
    <2>1. UNCHANGED <<step, result>> /\ step \in {"resolve", "over"}
      BY <1>3 DEF Told, Inv, Flow
    <2>2. ~parked' /\ ~underway'.client
      BY DEF Told, NoPatch, Inv, Flow
    <2> QED BY <1>1, <2>1, <2>2 DEF RetryInv, Ready, Retried
  <1> QED BY <1>2, <1>3

LEMMA RetryRefused == ASSUME Inv, RetryInv, RefusePatch PROVE RetryInv'
  <1>1. underway.client /\ Calm => disk[Target] = seen /\ params.hash = seen
    <2> SUFFICES ASSUME underway.client, Calm PROVE disk[Target] = seen /\ params.hash = seen
      OBVIOUS
    <2>1. step \in {"apply", "again", "resolve"}
      BY DEF Inv, Flow
    <2>2. Ready /\ (step = "resolve" => Retried)
      BY DEF RetryInv, Retried
    <2> QED BY <2>1, <2>2 DEF Ready
  <1> QED BY <1>1, RefusePatchTold, RetryEnds DEF Ended

LEMMA RetryWrites == ASSUME Inv, RetryInv, Write PROVE RetryInv'
  BY WriteTold, RetryEnds DEF Ended

LEMMA RetryIssues == ASSUME Inv, RetryInv, Issue PROVE RetryInv'
  <1> DEFINE id == IF coherence.alive THEN coherence.id ELSE coherence.id + 1
             anchors == IF coherence.alive THEN coherence.anchors ELSE AnchorsAt({})
             new == [anchors EXCEPT ![Target] = disk[Target]]
  <1>1. /\ step = "issue" /\ step' = "reanchor"
        /\ coherence' = [id |-> id, alive |-> TRUE, verify |-> counters.verify, anchors |-> new]
        /\ params' = [id |-> id, revision |-> counters.revision, refresh |-> 0, hash |-> NoText]
        /\ UNCHANGED <<disk, counters, parked, underway, attempt, seen, late, result, wrote, world>>
    BY DEF Issue
  <1>2. anchors \in Anchors /\ Target \in Path
    BY RecoveryAssumption DEF Inv, Typed, KernelTyped, Anchors, AnchorsAt
  <1>3. ASSUME Calm PROVE \A p \in Path : new[p] \in {NoText, disk[p]}
    <2>1. coherence.alive => ~OthersStale
      BY <1>1, <1>3 DEF RetryInv, Ready
    <2>2. ASSUME NEW p \in Path, p # Target PROVE anchors[p] \in {NoText, disk[p]}
      <3>1. CASE coherence.alive BY <2>1, <2>2, <3>1 DEF OthersStale
      <3>2. CASE ~coherence.alive BY <3>2 DEF AnchorsAt
      <3> QED BY <3>1, <3>2
    <2> HIDE DEF anchors
    <2> QED BY <1>2, <2>2 DEF Anchors
  <1> HIDE DEF id, new
  <1>4. Calm => Coherent'
    BY <1>1, <1>3 DEF Coherent
  <1>5. Calm => disk[Target] = seen
    BY <1>1 DEF RetryInv, Ready
  <1>6. (Calm' <=> Calm) /\ ~parked /\ result' = "none"
    BY <1>1 DEF Calm, Inv, Flow
  <1> QED BY <1>1, <1>4, <1>5, <1>6 DEF RetryInv, Ready, Retried

LEMMA RetryRereads == ASSUME Inv, RetryInv, Reread PROVE RetryInv'
  <1>1. /\ step = "reread" /\ step' = "issue" /\ attempt' = 2 /\ seen' = disk[Target]
        /\ UNCHANGED <<disk, coherence, parked, result, world>> /\ result = "none"
    BY DEF Reread, kernelState, Inv, Flow
  <1>2. OthersStale' <=> OthersStale
    BY <1>1 DEF OthersStale
  <1> QED BY <1>1, <1>2 DEF RetryInv, Ready, Calm, Retried

LEMMA RetryReanchors == ASSUME Inv, RetryInv, Reanchor PROVE RetryInv'
  <1>1. /\ step = "reanchor" /\ step' = "revalidate"
        /\ counters' = [counters EXCEPT !.refresh = @ + 1]
        /\ tracked' = [p \in Path |-> IF tracked[p] = NoText THEN NoText ELSE disk[p]]
        /\ UNCHANGED <<disk, coherence, parked, underway, attempt, seen, params, result, world>>
        /\ result = "none"
    BY DEF Reanchor, Goto, Refreshes, Inv, Flow
  <1>2. counters'.revision = counters.revision /\ counters'.verify = counters.verify
    BY <1>1 DEF Inv, Typed, KernelTyped, Counters
  <1>3. Coherent' <=> Coherent
    BY <1>1, <1>2 DEF Coherent
  <1> QED BY <1>1, <1>3 DEF RetryInv, Ready, Calm, Retried

LEMMA RetryRevalidates == ASSUME Inv, RetryInv, Revalidate PROVE RetryInv'
  <1>1. /\ step = "revalidate" /\ step' = "apply" /\ result = "none"
        /\ params' = [params EXCEPT !.hash = disk[Target]]
        /\ UNCHANGED <<disk, counters, coherence, tracked, parked, attempt, seen, result, world>>
    BY DEF Revalidate, kernelState, Inv, Flow
  <1>2. /\ params'.hash = disk[Target] /\ params'.id = params.id
        /\ params'.revision = params.revision
    BY <1>1 DEF Inv, Typed, ClientTyped
  <1>3. Coherent' <=> Coherent
    BY <1>1, <1>2 DEF Coherent
  <1> QED BY <1>1, <1>2, <1>3 DEF RetryInv, Ready, Calm, Retried

\* The first attempt looks up a hash, or refreshes the anchors.
LEMMA RetryPrepares ==
    ASSUME Inv, RetryInv, HashFirst \/ RefreshAndCite PROVE RetryInv'
  <1>1. /\ step \in {"hash", "refresh"} /\ step' # "reread" /\ result' \in {"none", "refused"}
        /\ UNCHANGED <<attempt, world>>
    BY DEF HashFirst, RefreshAndCite, Return, Inv, Flow
  <1>2. ~Calm
    BY <1>1 DEF RetryInv, Ready
  <1> QED BY <1>1, <1>2 DEF RetryInv, Calm

LEMMA RetryRaises == ASSUME Inv, RetryInv, Raise PROVE RetryInv'
  <1>1. world'.disturbed /\ step' = "over"
    BY DEF Raise, Inv, Typed, HistoryTyped, World
  <1> QED BY <1>1 DEF RetryInv, Calm

\* What others do to a patch that is parked or late leaves the client alone.
LEMMA RetryElsewhere ==
    ASSUME Inv, RetryInv, NEW answer, Sent(answer, FALSE),
           step = "over" \/ (step = "resolve" /\ ~parked'),
           UNCHANGED <<step, attempt, result>>
    PROVE  RetryInv'
  <1>1. Calm' => Calm
    BY DEF Calm, Sent
  <1>2. ~underway'.client
    BY DEF Sent, Inv, Flow
  <1>3. ~Retried' /\ (Calm => result \in {"none", "applied", "unresolved"})
    BY <1>2 DEF Retried, RetryInv, Ready
  <1> QED BY <1>1, <1>3 DEF RetryInv, Ready, Sent

LEMMA RetryLate == ASSUME Inv, RetryInv, Late PROVE RetryInv'
  BY LateSent, RetryElsewhere

LEMMA RetryDecided == ASSUME Inv, RetryInv, OtherDecides PROVE RetryInv'
  BY DecidedSent, RetryElsewhere

LEMMA RetryDisturbed == ASSUME Inv, RetryInv, Disturbs PROVE RetryInv'
  BY Disturbed DEF RetryInv, Calm

LEMMA RetryKept == Inv /\ RetryInv /\ [RecoveryNext]_recoveryVars => RetryInv'
  <1> SUFFICES ASSUME Inv, RetryInv, [RecoveryNext]_recoveryVars PROVE RetryInv'
    OBVIOUS
  <1>1. CASE ClientDoes
    BY <1>1, RetryApplies, RetryResolves, RetryIssues, RetryRereads, RetryReanchors,
       RetryRevalidates, RetryPrepares, RetryRaises DEF ClientDoes
  <1>2. CASE WorldDoes
    BY <1>2, RetryDisturbed, RetryLate, RetryDecided
       DEF WorldDoes, OutsideEdit, OtherPatch, OtherVerification, OtherRefresh, TokenDies
  <1>3. CASE UNCHANGED recoveryVars
    BY <1>3 DEF recoveryVars, kernelState, clientState, RetryInv, Calm, Ready, Retried,
       Coherent, OthersStale
  <1> QED BY <1>1, <1>2, <1>3, RetryReads, RetryRefused, RetryWrites DEF RecoveryNext

\* A retry that nobody disturbs, of a patch whose file alone was stale, is
\* applied, unless somebody else decides on its approval.
THEOREM RetrySucceeds == RecoverySpec => []UndisturbedRecoverySucceeds
  <1>1. RecoveryInit => RetryInv
    BY DEF RecoveryInit, RetryInv, Calm
  <1>2. Inv /\ RetryInv => UndisturbedRecoverySucceeds
    BY DEF RetryInv, Calm, Ready, UndisturbedRecoverySucceeds
  <1> QED BY <1>1, <1>2, RetryKept, InvHolds, PTL DEF RecoverySpec
=============================================================================
