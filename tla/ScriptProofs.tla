---------------------------- MODULE ScriptProofs ----------------------------
(***************************************************************************)
(* What the scripts around the client keep for every value of their        *)
(* constants, proved by invariants of their own: the verification record,  *)
(* the audits of a run and the exit code of a ladder.                      *)
(***************************************************************************)
EXTENDS VerificationRecord, AgentAudit, VerifyLadder, AgentCommand,
        FiniteSetTheorems, SequenceTheorems, TLAPS

-----------------------------------------------------------------------------
(* The verification record.                                                *)

Executions == [phase : {"idle", "command", "stdout", "stderr", "json"},
               started : Nat, cited : Nat, exit : CommandExit, setBack : BOOLEAN]
Verdicts == [executed : BOOLEAN, exit : CommandExit, passed : BOOLEAN, checked : BOOLEAN]

RecordType ==
    /\ clock \in Nat /\ mutated \in Nat /\ setBack \in BOOLEAN
    /\ running \in Executions
    /\ authority \in [of : Verdicts, held : BOOLEAN, setBack : BOOLEAN]

\* As long as the clock was not set back behind the mutation, now is not
\* before it; and an execution remembers how it was when it began.
RecordOrder ==
    /\ setBack \/ mutated <= clock
    /\ running.started # NoTime => running.setBack \/ running.cited <= running.started
    /\ OnlyTheClockMisorders

RecordInv == RecordType /\ RecordOrder

LEMMA RecordValues ==
    /\ NoTime \in Nat
    /\ Waiting \in Executions /\ Waiting.started = NoTime
    /\ NotRun \in Verdicts /\ NotRun.executed = FALSE
  BY RecordAssumption DEF NoTime, Waiting, NotRun, Executions, Verdicts, CommandExit

LEMMA RecordStart == RecordInit => RecordInv
  <1> SUFFICES ASSUME RecordInit PROVE RecordInv
    OBVIOUS
  <1> DEFINE none == [of |-> NotRun, held |-> FALSE, setBack |-> FALSE]
  <1>1. none \in [of : Verdicts, held : BOOLEAN, setBack : BOOLEAN] /\ none.of.executed = FALSE
    BY RecordValues
  <1>2. clock \in Nat /\ mutated = clock /\ setBack = FALSE /\ running = Waiting
        /\ authority = none
    BY RecordAssumption DEF RecordInit, Time
  <1> HIDE DEF none
  <1>3. RecordType
    BY <1>1, <1>2, RecordValues DEF RecordType
  <1>4. RecordOrder
    BY <1>1, <1>2, RecordValues DEF RecordOrder, OnlyTheClockMisorders
  <1> QED BY <1>3, <1>4 DEF RecordInv

LEMMA RecordStep == RecordInv /\ [RecordNext]_recordVars => RecordInv'
  <1> SUFFICES ASSUME RecordInv, [RecordNext]_recordVars PROVE RecordInv'
    OBVIOUS
  <1> USE RecordAssumption
  <1>1. CASE Begin
    <2>1. \/ running' = [Waiting EXCEPT !.phase = "json", !.cited = mutated]
          \/ running' = [phase |-> "command", started |-> clock, cited |-> mutated,
                         exit |-> 0, setBack |-> setBack]
      BY <1>1 DEF Begin
    <2>2. UNCHANGED <<clock, mutated, authority, setBack>>
      BY <1>1 DEF Begin
    <2>3. /\ running' \in Executions
          /\ running'.started # NoTime => running'.setBack \/ running'.cited <= running'.started
      <3>1. CASE running' = [Waiting EXCEPT !.phase = "json", !.cited = mutated]
        BY <3>1, RecordValues DEF RecordInv, RecordType, Executions
      <3>2. CASE running' = [phase |-> "command", started |-> clock, cited |-> mutated,
                             exit |-> 0, setBack |-> setBack]
        BY <3>2 DEF RecordInv, RecordType, RecordOrder, Executions, CommandExit
      <3> QED BY <2>1, <3>1, <3>2
    <2> QED BY <2>2, <2>3 DEF RecordInv, RecordType, RecordOrder, OnlyTheClockMisorders, NoTime
  <1>2. CASE \E x \in CommandExit : CommandEnds(x)
    <2> PICK x \in CommandExit : CommandEnds(x)
      BY <1>2
    <2>1. /\ running' \in Executions /\ running'.started = running.started
          /\ running'.cited = running.cited /\ running'.setBack = running.setBack
      BY DEF CommandEnds, RecordInv, RecordType, Executions
    <2>2. UNCHANGED <<clock, mutated, authority, setBack>>
      BY DEF CommandEnds
    <2> QED BY <2>1, <2>2 DEF RecordInv, RecordType, RecordOrder, OnlyTheClockMisorders, NoTime
  <1>3. CASE WriteLog("stdout", "stderr") \/ WriteLog("stderr", "json")
    <2>1. /\ running' \in Executions /\ running'.started = running.started
          /\ running'.cited = running.cited /\ running'.setBack = running.setBack
      BY <1>3 DEF WriteLog, RecordInv, RecordType, Executions
    <2>2. UNCHANGED <<clock, mutated, authority, setBack>>
      BY <1>3 DEF WriteLog
    <2> QED BY <2>1, <2>2 DEF RecordInv, RecordType, RecordOrder, OnlyTheClockMisorders, NoTime
  <1>4. CASE WriteJson
    <2> DEFINE v == Verdict(running.started # NoTime)
    <2>1. /\ running' = Waiting /\ UNCHANGED <<clock, mutated, setBack>>
          /\ authority' = [of |-> v, held |-> TRUE, setBack |-> running.setBack]
      BY <1>4 DEF WriteJson
    <2>2. v \in Verdicts /\ (v.executed /\ ~v.checked => running.setBack)
      <3>1. CASE running.started = NoTime
        <4>1. v = NotRun
          BY <3>1 DEF Verdict
        <4> QED BY <4>1, RecordValues
      <3>2. CASE running.started # NoTime
        <4> DEFINE ok == running.exit = 0
                   inOrder == running.started >= running.cited
        <4>1. v = [executed |-> TRUE, exit |-> running.exit, passed |-> ok, checked |-> inOrder]
          BY <3>2 DEF Verdict, Cites
        <4>a. ok \in BOOLEAN /\ inOrder \in BOOLEAN
          OBVIOUS
        <4>2. running.exit \in CommandExit /\ running.started \in Nat /\ running.cited \in Nat
          BY DEF RecordInv, RecordType, Executions
        <4>b. running.cited <= running.started => inOrder = TRUE
          BY <4>2
        <4> HIDE DEF v, ok, inOrder
        <4>3. v \in Verdicts
          BY <4>1, <4>2, <4>a DEF Verdicts
        <4>4. v.checked = inOrder
          BY <4>1
        <4>5. running.setBack \/ running.cited <= running.started
          BY <3>2 DEF RecordInv, RecordOrder
        <4>6. CASE running.cited <= running.started
          BY <4>3, <4>4, <4>b, <4>6
        <4>7. CASE running.setBack
          BY <4>3, <4>7
        <4> QED BY <4>5, <4>6, <4>7
      <3> QED BY <3>1, <3>2
    <2> HIDE DEF v
    <2>3. running.setBack \in BOOLEAN
      BY DEF RecordInv, RecordType, Executions
    <2>4. /\ authority' \in [of : Verdicts, held : BOOLEAN, setBack : BOOLEAN]
          /\ authority'.of = v /\ authority'.setBack = running.setBack
      BY <2>1, <2>2, <2>3
    <2> QED
      BY <2>1, <2>2, <2>4, RecordValues
      DEF RecordInv, RecordType, RecordOrder, OnlyTheClockMisorders, NoTime
  <1>5. CASE Die
    <2> DEFINE none == [of |-> NotRun, held |-> FALSE, setBack |-> FALSE]
    <2>1. running' = Waiting /\ authority' = none /\ UNCHANGED <<clock, mutated, setBack>>
      BY <1>5 DEF Die
    <2>2. none \in [of : Verdicts, held : BOOLEAN, setBack : BOOLEAN] /\ none.of.executed = FALSE
      BY RecordValues
    <2> HIDE DEF none
    <2> QED
      BY <2>1, <2>2, RecordValues
      DEF RecordInv, RecordType, RecordOrder, OnlyTheClockMisorders, NoTime
  <1>6. CASE Mutate
    <2>1. mutated' = clock /\ setBack' = FALSE /\ UNCHANGED <<clock, running, authority>>
      BY <1>6 DEF Mutate
    <2>2. clock \in Nat /\ mutated' <= clock'
      BY <2>1 DEF RecordInv, RecordType
    <2>3. RecordType'
      BY <2>1, <2>2 DEF RecordInv, RecordType
    <2> QED
      BY <2>1, <2>2, <2>3 DEF RecordInv, RecordOrder, OnlyTheClockMisorders, NoTime
  <1>7. CASE \E t \in Time : SetClock(t)
    <2> PICK t \in Time : SetClock(t)
      BY <1>7
    <2>1. t \in Nat /\ clock' = t /\ UNCHANGED <<mutated, running, authority>>
      BY DEF SetClock, Time
    <2>2. mutated \in Nat /\ setBack \in BOOLEAN
      BY DEF RecordInv, RecordType
    <2>3. setBack' = (setBack \/ t < mutated)
      BY DEF SetClock
    <2>4. setBack' \in BOOLEAN /\ (setBack' \/ mutated' <= clock')
      <3>1. CASE t < mutated
        BY <2>3, <3>1
      <3>2. CASE ~(t < mutated)
        BY <2>1, <2>2, <2>3, <3>2
      <3> QED BY <3>1, <3>2
    <2>5. RecordType'
      BY <2>1, <2>4 DEF RecordInv, RecordType
    <2> QED
      BY <2>1, <2>4, <2>5
      DEF RecordInv, RecordOrder, OnlyTheClockMisorders, NoTime
  <1>8. CASE Audit \/ Tamper \/ UNCHANGED recordVars
    BY <1>8 DEF RecordInv, RecordType, RecordOrder, OnlyTheClockMisorders, Audit, Tamper,
                recordVars, NoTime
  <1> QED
    BY <1>1, <1>2, <1>3, <1>4, <1>5, <1>6, <1>7, <1>8 DEF RecordNext

\* Only a clock that was set back behind the mutation makes a verification
\* appear to have come before it.
THEOREM ClockAloneMisorders == RecordSpec => []OnlyTheClockMisorders
  <1>1. RecordInv => OnlyTheClockMisorders
    BY DEF RecordInv, RecordOrder
  <1> QED BY <1>1, RecordStart, RecordStep, PTL DEF RecordSpec

-----------------------------------------------------------------------------
(* The verification record: what an audit finds in the directory of the run. *)

Log == {"stdout", "stderr"}

DirType ==
    /\ runDir \in [stdout : BOOLEAN, stderr : BOOLEAN,
                   json : [state : {"missing", "ours", "invalid", "foreign"},
                           started : Nat, cited : Nat]]
    /\ tampered \subseteq {"stdout", "stderr", "json"}

\* A log that was written is there unless somebody removed it since.
LogKept(log) == runDir[log] <=> log \notin tampered

JsonKept == runDir.json.state = "ours" <=> "json" \notin tampered

\* What the directory of a run is to the verdict on its execution.
VerdictKept(v) ==
    /\ JsonKept
    /\ v.executed =>
          /\ LogKept("stdout") /\ LogKept("stderr")
          /\ v.passed <=> v.exit = 0
          /\ runDir.json.state = "ours" =>
                /\ runDir.json.started # NoTime
                /\ v.checked <=> runDir.json.started >= runDir.json.cited

\* An execution writes one log after the other; what an earlier one left is
\* not counted on before it is overwritten.
DirectoryKept ==
    /\ running.started # NoTime /\ running.phase \in {"stderr", "json"} => LogKept("stdout")
    /\ running.started # NoTime /\ running.phase = "json" => LogKept("stderr")
    /\ running.phase = "idle" /\ authority.held => VerdictKept(authority.of)

\* Steps that leave the directory and the verdict alone.
LEMMA DirectoryStays ==
    ASSUME DirType, DirectoryKept, UNCHANGED <<runDir, tampered, authority>>,
           running'.started # NoTime =>
               running' = running \/ running'.phase \in {"command", "stdout"},
           running'.phase = "idle" => running.phase = "idle"
    PROVE  DirType' /\ DirectoryKept'
  BY DEF DirType, DirectoryKept, VerdictKept, LogKept, JsonKept, NoTime

LEMMA DirectoryWritesLog ==
    ASSUME RecordType, DirType, DirectoryKept,
           WriteLog("stdout", "stderr") \/ WriteLog("stderr", "json")
    PROVE  DirType' /\ DirectoryKept'
  <1>1. ASSUME NEW log \in Log, NEW next, WriteLog(log, next)
        PROVE  /\ DirType' /\ LogKept(log)' /\ running'.phase = next
               /\ running'.started = running.started
               /\ \A other \in Log \ {log} : LogKept(other)' <=> LogKept(other)
    <2>1. DirType' /\ runDir'[log] = TRUE /\ log \notin tampered'
      BY <1>1 DEF WriteLog, DirType, Log
    <2>2. running'.phase = next /\ running'.started = running.started
      BY <1>1 DEF WriteLog, RecordType, Executions
    <2>3. \A other \in Log \ {log} :
             runDir'[other] = runDir[other] /\ (other \in tampered' <=> other \in tampered)
      BY <1>1 DEF WriteLog, DirType, Log
    <2> QED BY <2>1, <2>2, <2>3 DEF LogKept
  <1>2. CASE WriteLog("stdout", "stderr")
    <2>1. DirType' /\ LogKept("stdout")' /\ running'.phase = "stderr"
      BY <1>1, <1>2 DEF Log
    <2> QED BY <2>1 DEF DirectoryKept
  <1>3. CASE WriteLog("stderr", "json")
    <2>1. /\ DirType' /\ LogKept("stderr")' /\ running'.phase = "json"
          /\ running'.started = running.started /\ (LogKept("stdout")' <=> LogKept("stdout"))
      BY <1>1, <1>3 DEF Log
    <2>2. running.phase = "stderr"
      BY <1>3 DEF WriteLog
    <2> QED BY <2>1, <2>2 DEF DirectoryKept, NoTime
  <1> QED BY <1>2, <1>3

LEMMA DirectoryWritesJson ==
    ASSUME RecordType, DirType, DirectoryKept, WriteJson
    PROVE  DirType' /\ DirectoryKept'
  <1>1. /\ running.phase = "json" /\ running \in Executions
        /\ runDir' = [runDir EXCEPT !.json =
                        [state |-> "ours", started |-> running.started, cited |-> running.cited]]
        /\ tampered' = tampered \ {"json"}
    BY DEF WriteJson, Cites, RecordType
  <1>2. running.started \in Nat /\ running.cited \in Nat
    BY <1>1 DEF Executions
  <1>3. /\ DirType' /\ JsonKept'
        /\ runDir'.stdout = runDir.stdout /\ runDir'.stderr = runDir.stderr
        /\ runDir'.json.started = running.started /\ runDir'.json.cited = running.cited
    BY <1>1, <1>2 DEF DirType, JsonKept
  <1>4. \A log \in Log : LogKept(log)' <=> LogKept(log)
    BY <1>1, <1>3 DEF LogKept, Log
  <1>5. running'.started = NoTime' /\ running'.phase = "idle"
    BY RecordValues DEF WriteJson, Waiting, NoTime
  <1>6. authority'.of = Verdict(running.started # NoTime)
    BY DEF WriteJson
  <1>7. VerdictKept(authority.of)'
    <2>1. CASE running.started = NoTime
      <3>1. authority'.of.executed = FALSE
        BY <1>6, <2>1, RecordValues DEF Verdict
      <3> QED BY <1>3, <3>1 DEF VerdictKept
    <2>2. CASE running.started # NoTime
      <3> DEFINE ok == running.exit = 0
                 inOrder == running.started >= running.cited
      <3>1. authority'.of = [executed |-> TRUE, exit |-> running.exit, passed |-> ok,
                             checked |-> inOrder]
        BY <1>6, <2>2 DEF Verdict, Cites
      <3> HIDE DEF ok, inOrder
      <3>2. /\ authority'.of.exit = running.exit /\ authority'.of.passed = ok
            /\ authority'.of.checked = inOrder
        BY <3>1
      <3>3. LogKept("stdout")' /\ LogKept("stderr")'
        BY <1>1, <1>4, <2>2 DEF DirectoryKept, Log
      <3>4. authority'.of.passed <=> authority'.of.exit = 0
        BY <3>2 DEF ok
      <3>5. authority'.of.checked <=> runDir'.json.started >= runDir'.json.cited
        BY <1>3, <3>2 DEF inOrder
      <3>6. runDir'.json.started # NoTime'
        BY <1>3, <2>2 DEF NoTime
      <3> QED BY <1>3, <3>3, <3>4, <3>5, <3>6 DEF VerdictKept
    <2> QED BY <2>1, <2>2
  <1> QED BY <1>3, <1>5, <1>7 DEF DirectoryKept

LEMMA DirectoryTampered ==
    ASSUME DirType, DirectoryKept, Tamper
    PROVE  DirType' /\ DirectoryKept'
  <1>0. UNCHANGED <<running, authority>>
    BY DEF Tamper
  <1>1. CASE \E log \in Log :
               /\ runDir[log]
               /\ runDir' = [runDir EXCEPT ![log] = FALSE]
               /\ tampered' = tampered \cup {log}
    <2> PICK log \in Log :
               /\ runDir' = [runDir EXCEPT ![log] = FALSE]
               /\ tampered' = tampered \cup {log}
      BY <1>1
    <2>1. DirType' /\ runDir'[log] = FALSE /\ log \in tampered' /\ runDir'.json = runDir.json
          /\ ("json" \in tampered' <=> "json" \in tampered)
      BY DEF DirType, Log
    <2>2. \A other \in Log \ {log} :
             runDir'[other] = runDir[other] /\ (other \in tampered' <=> other \in tampered)
      BY DEF DirType, Log
    <2>3. \A other \in Log : LogKept(other) => LogKept(other)'
      BY <2>1, <2>2 DEF LogKept
    <2> QED BY <1>0, <2>1, <2>3 DEF DirectoryKept, VerdictKept, JsonKept, Log, NoTime
  <1>2. CASE /\ \E state \in {"missing", "invalid", "foreign"} :
                   runDir' = [runDir EXCEPT !.json = [NoJson EXCEPT !.state = state]]
             /\ tampered' = tampered \cup {"json"}
    <2> PICK state \in {"missing", "invalid", "foreign"} :
                   runDir' = [runDir EXCEPT !.json = [NoJson EXCEPT !.state = state]]
      BY <1>2
    <2>1. [NoJson EXCEPT !.state = state] = [state |-> state, started |-> NoTime, cited |-> 0]
      BY DEF NoJson
    <2>2. /\ DirType' /\ runDir'.json.state = state
          /\ runDir'.stdout = runDir.stdout /\ runDir'.stderr = runDir.stderr
      BY <1>2, <2>1, RecordValues DEF DirType
    <2>3. \A log \in Log : LogKept(log)' <=> LogKept(log)
      BY <1>2, <2>2 DEF LogKept, Log
    <2> QED BY <1>0, <1>2, <2>2, <2>3 DEF DirectoryKept, VerdictKept, JsonKept, Log, NoTime
  <1> QED BY <1>1, <1>2 DEF Tamper, Log

LEMMA DirectoryStep ==
    RecordInv /\ DirType /\ DirectoryKept /\ [RecordNext]_recordVars => DirType' /\ DirectoryKept'
  <1> SUFFICES ASSUME RecordInv, DirType, DirectoryKept, [RecordNext]_recordVars
               PROVE  DirType' /\ DirectoryKept'
    OBVIOUS
  <1>0. RecordType
    BY DEF RecordInv
  <1>1. CASE Begin
    <2>1. /\ running'.started # NoTime => running'.phase = "command"
          /\ running'.phase # "idle"
      BY <1>1, RecordValues DEF Begin, Waiting
    <2> QED BY <1>1, <2>1, DirectoryStays DEF Begin
  <1>2. CASE \E x \in CommandExit : CommandEnds(x)
    <2>1. running'.phase = "stdout"
      BY <1>0, <1>2 DEF CommandEnds, RecordType, Executions
    <2> QED BY <1>2, <2>1, DirectoryStays DEF CommandEnds
  <1>3. CASE Die
    <2>1. running' = Waiting /\ authority'.held = FALSE /\ UNCHANGED <<runDir, tampered>>
      BY <1>3 DEF Die
    <2>2. running'.started = NoTime' /\ running'.phase = "idle"
      BY <2>1, RecordValues DEF Waiting, NoTime
    <2> QED BY <2>1, <2>2 DEF DirType, DirectoryKept
  <1>4. CASE Audit \/ Mutate \/ (\E t \in Time : SetClock(t)) \/ UNCHANGED recordVars
    <2>1. UNCHANGED <<running, runDir, tampered, authority>>
      BY <1>4 DEF Audit, Mutate, SetClock, recordVars
    <2> QED BY <2>1, DirectoryStays
  <1> QED
    BY <1>0, <1>1, <1>2, <1>3, <1>4, DirectoryWritesLog, DirectoryWritesJson, DirectoryTampered
    DEF RecordNext

LEMMA AuditOfVerdict ==
    ASSUME RecordType, DirType, DirectoryKept, Audit
    PROVE  LET v == authority.of
               touched == IF v.executed THEN tampered ELSE tampered \cap {"json"}
           IN  (issues' = {}) = (touched = {} /\ (v.executed => v.checked))
  <1> DEFINE v == authority.of
             json == runDir.json
  <1>1. VerdictKept(v)
    BY DEF Audit, DirectoryKept
  <1>2. issues' = JsonIssues(v) \cup LogIssues(v) \cup ExitIssues(v)
    BY DEF Audit
  <1>3. tampered \subseteq {"stdout", "stderr", "json"} /\ json.started \in Nat /\ json.cited \in Nat
    BY DEF DirType
  <1>4. /\ v \in Verdicts /\ v.executed \in BOOLEAN /\ v.checked \in BOOLEAN
        /\ v.passed \in BOOLEAN
    BY DEF RecordType, Verdicts
  <1> HIDE DEF v
  <1>5. ExitIssues(v) = {}
    <2>1. v.executed => (v.passed <=> v.exit = 0)
      BY <1>1 DEF VerdictKept
    <2>2. v.executed => v.passed = (v.exit = 0)
      BY <1>4, <2>1
    <2> QED BY <2>2 DEF ExitIssues
  <1>6. LogIssues(v) = {} <=> (v.executed => "stdout" \notin tampered /\ "stderr" \notin tampered)
    <2>1. CASE ~v.executed
      BY <2>1 DEF LogIssues
    <2>2. CASE v.executed
      <3>1. LogIssues(v) = {} <=> runDir["stdout"] /\ runDir["stderr"]
        BY <2>2 DEF LogIssues
      <3> QED BY <1>1, <2>2, <3>1 DEF VerdictKept, LogKept
    <2> QED BY <1>4, <2>1, <2>2
  <1>7. JsonIssues(v) = {} <=> "json" \notin tampered /\ (v.executed => v.checked)
    <2>1. CASE json.state # "ours"
      BY <1>1, <2>1 DEF JsonIssues, VerdictKept, JsonKept
    <2>2. CASE json.state = "ours"
      <3>1. "json" \notin tampered
        BY <1>1, <2>2 DEF VerdictKept, JsonKept
      <3>2. JsonIssues(v) = {} <=>
               ~(v.executed /\ json.started # NoTime /\ json.started < json.cited)
        BY <2>2 DEF JsonIssues
      <3>3. v.executed =>
               json.started # NoTime /\ (v.checked <=> json.started >= json.cited)
        BY <1>1, <2>2 DEF VerdictKept
      <3>4. json.started >= json.cited <=> ~(json.started < json.cited)
        BY <1>3
      <3> QED BY <3>1, <3>2, <3>3, <3>4
    <2> QED BY <2>1, <2>2
  <1> DEFINE touched == IF v.executed THEN tampered ELSE tampered \cap {"json"}
  <1>8. touched = {} <=>
           /\ "json" \notin tampered
           /\ v.executed => "stdout" \notin tampered /\ "stderr" \notin tampered
    BY <1>3, <1>4
  <1> HIDE DEF touched
  <1>9. (issues' = {}) <=> (touched = {} /\ (v.executed => v.checked))
    BY <1>2, <1>5, <1>6, <1>7, <1>8
  <1>10. (issues' = {}) \in BOOLEAN /\ (touched = {} /\ (v.executed => v.checked)) \in BOOLEAN
    BY <1>4
  <1> QED BY <1>9, <1>10 DEF touched, v

\* An audit refuses a verdict exactly when the directory of the run was touched
\* after the execution or its record contradicts the order of the times; what
\* dead or earlier executions under the same run id left is never taken for it.
THEOREM AuditsAreExact == RecordSpec => AuditsSeeTheirExecution
  <1> DEFINE Inv == RecordInv /\ DirType /\ DirectoryKept
  <1>1. RecordInit => Inv
    <2> SUFFICES ASSUME RecordInit PROVE DirType /\ DirectoryKept
      BY RecordStart
    <2>1. DirType
      <3>1. NoJson \in [state : {"missing", "ours", "invalid", "foreign"},
                        started : Nat, cited : Nat]
        BY RecordValues DEF NoJson
      <3> QED BY <3>1 DEF RecordInit, DirType
    <2>2. running.started = NoTime /\ authority.held = FALSE
      BY DEF RecordInit, Waiting
    <2> QED BY <2>1, <2>2 DEF DirectoryKept
  <1>2. Inv /\ [RecordNext]_recordVars => Inv'
    BY RecordStep, DirectoryStep
  <1>3. Inv /\ [RecordNext]_recordVars =>
          [Audit =>
            LET v == authority.of
                touched == IF v.executed THEN tampered ELSE tampered \cap {"json"}
            IN  (issues' = {}) = (touched = {} /\ (v.executed => v.checked))]_recordVars
    BY AuditOfVerdict DEF RecordInv
  <1> HIDE DEF Inv
  <1> QED BY <1>1, <1>2, <1>3, PTL DEF RecordSpec, AuditsSeeTheirExecution

-----------------------------------------------------------------------------
(* The audits of a run.                                                    *)

Scans == [at : 1..10, todo : SUBSET File, listed : SUBSET File]

\* Once the audit has been made, the run is over and its log is complete.
AuditFollowsRun ==
    /\ scan \in Scans
    /\ audit.mode # "none" => scan.at > 6

\* What the audit found of each file that no patch event names.
UnvouchedIsSuspected ==
    audit.mode # "none" =>
        \A f \in audit.mutated \ PatchedFiles :
            audit.suspected /\ audit.mode \in {"violated", "unknown"}

AuditInv == AuditFollowsRun /\ UnvouchedIsSuspected

LEMMA Stages ==
    ASSUME NEW n \in 1..10
    PROVE  /\ Stage[n] = "run" <=> n = 4
           /\ Stage[n] = "audit" <=> n = 6
           /\ Stage[n] = "diff" <=> n = 9
           /\ Stage[n] \in {"manifest", "list", "texts", "run"} => n # 10
  BY DEF Stage

LEMMA AuditStep == AuditInv /\ [AuditNext]_auditVars => AuditInv'
  <1> SUFFICES ASSUME AuditInv, [AuditNext]_auditVars PROVE AuditInv'
    OBVIOUS
  <1>0. scan \in Scans /\ scan.at \in 1..10
    BY DEF AuditInv, AuditFollowsRun, Scans
  <1>a. ASSUME UNCHANGED <<eventLog, audit>>, scan' \in Scans, scan'.at >= scan.at
        PROVE  AuditInv'
    BY <1>0, <1>a DEF AuditInv, AuditFollowsRun, UnvouchedIsSuspected, PatchedFiles, Scans
  <1>b. ASSUME scan.at = 4, UNCHANGED <<scan, audit>>
        PROVE  AuditInv'
    BY <1>b DEF AuditInv, AuditFollowsRun, UnvouchedIsSuspected
  <1>1. CASE \E f \in File : HashEntry(f) \/ ListEntry(f) \/ TextEntry(f)
    <2> PICK f \in File : HashEntry(f) \/ ListEntry(f) \/ TextEntry(f)
      BY <1>1
    <2>1. UNCHANGED <<eventLog, audit>>
      BY DEF HashEntry, ListEntry, TextEntry
    <2>2. scan' \in Scans /\ scan'.at = scan.at
      BY <1>0 DEF HashEntry, ListEntry, TextEntry, Visited, Scans
    <2> QED BY <1>0, <1>a, <2>1, <2>2
  <1>2. CASE NextStage
    <2>1. UNCHANGED <<eventLog, audit>>
      BY <1>2 DEF NextStage
    <2>2. scan.at # 10
      BY <1>0, <1>2, Stages DEF NextStage, StageName
    <2>3. scan.at + 1 \in 1..10
      BY <1>0, <2>2
    <2>4. scan' = [scan EXCEPT !.at = scan.at + 1, !.todo = File]
      BY <1>2 DEF NextStage
    <2> DEFINE next == scan.at + 1
    <2>5. next \in 1..10 /\ scan' = [scan EXCEPT !.at = next, !.todo = File] /\ next >= scan.at
      BY <1>0, <2>3, <2>4
    <2> HIDE DEF next
    <2>6. scan' \in Scans /\ scan'.at = next
      BY <1>0, <2>5 DEF Scans
    <2> QED BY <1>a, <2>1, <2>5, <2>6
  <1>3. CASE AuditMutation
    <2> DEFINE events == PatchEvents(eventLog)
    <2>1. scan.at = 6
      BY <1>0, <1>3, Stages DEF AuditMutation, StageName
    <2>2. scan' \in Scans /\ scan'.at = 7
      BY <1>3, <2>1 DEF AuditMutation, Scans
    <2>3. /\ audit'.mode = AuditMode(events) /\ audit'.mutated = Changed
          /\ audit'.suspected = (Outside \in events \/ Unmatched(events) # {})
          /\ UNCHANGED eventLog
      BY <1>3 DEF AuditMutation
    <2>4. events = PatchedFiles /\ PatchedFiles' = PatchedFiles
      BY <2>3 DEF PatchEvents, PatchedFiles
    <2>5. ASSUME NEW f \in Changed \ PatchedFiles
          PROVE  audit'.suspected /\ audit'.mode \in {"violated", "unknown"}
      <3>1. f \in Unmatched(events)
        BY <2>4 DEF Unmatched
      <3>2. audit'.suspected
        BY <2>3, <3>1
      <3>3. AuditMode(events) \in {"violated", "unknown"}
        BY <3>1 DEF AuditMode
      <3> QED BY <2>3, <3>2, <3>3
    <2> QED
      BY <2>2, <2>3, <2>4, <2>5 DEF AuditInv, AuditFollowsRun, UnvouchedIsSuspected
  <1>4. CASE AuditDiff
    <2>1. UNCHANGED <<eventLog, audit>>
      BY <1>4 DEF AuditDiff
    <2>2. scan.at = 9
      BY <1>0, <1>4, Stages DEF AuditDiff, StageName
    <2>3. scan' \in Scans /\ scan'.at = 10
      BY <1>0, <1>4, <2>2 DEF AuditDiff, Scans
    <2> QED BY <1>0, <1>a, <2>1, <2>2, <2>3
  <1>5. CASE LogOther
    BY <1>0, <1>5, <1>b, Stages DEF LogOther, StageName
  <1>6. CASE \E f \in File, c \in Content : BridgePatch(f, c)
    BY <1>0, <1>6, <1>b, Stages DEF BridgePatch, Writes, StageName
  <1>7. CASE \E f \in File, c \in Content : RawWrite(f, c)
    BY <1>0, <1>7, <1>a DEF RawWrite, Writes
  <1>8. CASE UNCHANGED auditVars
    BY <1>0, <1>8, <1>a DEF auditVars
  <1> QED
    BY <1>1, <1>2, <1>3, <1>4, <1>5, <1>6, <1>7, <1>8 DEF AuditNext

\* A file whose manifest entry differs and that no patch event names makes the
\* run suspected, whoever wrote it and whenever.
THEOREM RawWritesNeverPass == AuditSpec => []RawWritesAreSuspected
  <1>1. AuditInit => AuditInv
    BY DEF AuditInit, AuditInv, AuditFollowsRun, UnvouchedIsSuspected, Scans
  <1>2. AuditInv => RawWritesAreSuspected
    BY DEF AuditInv, UnvouchedIsSuspected, RawWritesAreSuspected
  <1> QED BY <1>1, <1>2, AuditStep, PTL DEF AuditSpec

-----------------------------------------------------------------------------
(* The audits of a run: the four snapshots.                                 *)

Snapshots == [before : [File -> Content], after : [File -> Content]]

AuditType ==
    /\ tree \in [File -> Content]
    /\ scan \in Scans
    /\ manifests \in Snapshots /\ texts \in Snapshots

\* What the snapshots say of a file that was not written between two of them.
ManifestsFit(f) ==
    /\ (scan.at = 1 /\ f \notin scan.todo) \/ scan.at \in {2, 3} =>
          manifests.before[f] = DigestOf(tree[f])
    /\ (scan.at = 5 /\ f \notin scan.todo) \/ scan.at \in 6..9 =>
          manifests.after[f] = DigestOf(tree[f])

ListingFits(f) ==
    /\ scan.at \in {2, 7} =>
          (f \in scan.listed <=> f \notin scan.todo /\ DigestOf(tree[f]) # "none")
    /\ scan.at \in {3, 8} => (f \in scan.listed <=> DigestOf(tree[f]) # "none")

TextsFit(f) ==
    /\ (scan.at = 3 /\ f \notin scan.todo) \/ scan.at > 3 =>
          texts.before[f] = TextOf(manifests.before[f])
    /\ (scan.at = 8 /\ f \notin scan.todo) \/ scan.at > 8 =>
          texts.after[f] = TextOf(manifests.after[f])

SnapshotsAgree ==
    /\ \A f \in File \ unsettled : ManifestsFit(f) /\ ListingFits(f) /\ TextsFit(f)
    /\ scan.at = 1 => scan.listed = {}
    /\ scan.at > 6 => audit.mutated = Changed

LEMMA AllStages ==
    ASSUME NEW n \in 1..10
    PROVE  /\ Stage[n] = "manifest" <=> n \in {1, 5}
           /\ Stage[n] = "list" <=> n \in {2, 7}
           /\ Stage[n] = "texts" <=> n \in {3, 8}
           /\ Stage[n] = "run" <=> n = 4
           /\ Stage[n] = "audit" <=> n = 6
           /\ Stage[n] = "diff" <=> n = 9
           /\ Stage[n] = "over" <=> n = 10
  BY DEF Stage

\* A text is read through the filter that its digest has passed.
LEMMA TextOfContent ==
    ASSUME NEW c \in Content
    PROVE  /\ DigestOf(c) \in Content /\ TextOf(c) \in Content /\ Grown(c) \in Content
           /\ TextOf(DigestOf(c)) = TextOf(c)
           /\ (IF DigestOf(c) # "none" THEN Grown(c) ELSE "none") = TextOf(c)
  BY DEF Content, DigestOf, TextOf, Grown

LEMMA HashEntryFits ==
    ASSUME AuditType, SnapshotsAgree, NEW g \in File, HashEntry(g)
    PROVE  AuditType' /\ SnapshotsAgree'
  <1>0. scan.at \in 1..10
    BY DEF AuditType, Scans
  <1>1. scan.at \in {1, 5} /\ UNCHANGED <<tree, texts, audit, unsettled>>
    BY <1>0, AllStages DEF HashEntry, Visits, StageName
  <1>2. scan' = [scan EXCEPT !.todo = scan.todo \ {g}]
    BY DEF HashEntry, Visited
  <1>3. /\ scan' \in Scans /\ scan'.at = scan.at /\ scan'.todo = scan.todo \ {g}
        /\ scan'.listed = scan.listed
    BY <1>2 DEF AuditType, Scans
  <1>4. tree[g] \in Content /\ DigestOf(tree[g]) \in Content
    BY TextOfContent DEF AuditType
  <1>5. CASE scan.at = 1
    <2>1. manifests' = [manifests EXCEPT !["before"][g] = DigestOf(tree[g])]
      BY <1>5 DEF HashEntry, Side, Second
    <2>2. /\ manifests' \in Snapshots /\ manifests'.after = manifests.after
          /\ manifests'.before[g] = DigestOf(tree[g])
          /\ \A f \in File \ {g} : manifests'.before[f] = manifests.before[f]
      BY <1>4, <2>1 DEF AuditType, Snapshots
    <2>3. AuditType'
      BY <1>1, <1>3, <2>2 DEF AuditType
    <2>4. ASSUME NEW f \in File \ unsettled
          PROVE  ManifestsFit(f)' /\ ListingFits(f)' /\ TextsFit(f)'
      <3>1. ManifestsFit(f)
        BY DEF SnapshotsAgree
      <3> QED BY <1>1, <1>3, <1>5, <2>2, <3>1 DEF ManifestsFit, ListingFits, TextsFit
    <2> QED BY <1>1, <1>3, <1>5, <2>3, <2>4 DEF SnapshotsAgree
  <1>6. CASE scan.at = 5
    <2>1. manifests' = [manifests EXCEPT !["after"][g] = DigestOf(tree[g])]
      BY <1>6 DEF HashEntry, Side, Second
    <2>2. /\ manifests' \in Snapshots /\ manifests'.before = manifests.before
          /\ manifests'.after[g] = DigestOf(tree[g])
          /\ \A f \in File \ {g} : manifests'.after[f] = manifests.after[f]
      BY <1>4, <2>1 DEF AuditType, Snapshots
    <2>3. AuditType'
      BY <1>1, <1>3, <2>2 DEF AuditType
    <2>4. ASSUME NEW f \in File \ unsettled
          PROVE  ManifestsFit(f)' /\ ListingFits(f)' /\ TextsFit(f)'
      <3>1. ManifestsFit(f) /\ TextsFit(f)
        BY DEF SnapshotsAgree
      <3> QED BY <1>1, <1>3, <1>6, <2>2, <3>1 DEF ManifestsFit, ListingFits, TextsFit
    <2> QED BY <1>1, <1>3, <1>6, <2>3, <2>4 DEF SnapshotsAgree
  <1> QED BY <1>1, <1>5, <1>6

LEMMA ListEntryFits ==
    ASSUME AuditType, SnapshotsAgree, NEW g \in File, ListEntry(g)
    PROVE  AuditType' /\ SnapshotsAgree'
  <1>0. scan.at \in 1..10
    BY DEF AuditType, Scans
  <1>1. scan.at \in {2, 7} /\ g \in scan.todo
        /\ UNCHANGED <<tree, manifests, texts, audit, unsettled>>
    BY <1>0, AllStages DEF ListEntry, Visits, StageName
  <1> DEFINE listed == IF DigestOf(tree[g]) = "none" THEN scan.listed ELSE scan.listed \cup {g}
  <1>2. scan' = [scan EXCEPT !.todo = scan.todo \ {g}, !.listed = listed]
    BY DEF ListEntry
  <1>3. /\ scan' \in Scans /\ scan'.at = scan.at /\ scan'.todo = scan.todo \ {g}
        /\ scan'.listed = listed
    BY <1>2 DEF AuditType, Scans
  <1>4. AuditType'
    BY <1>1, <1>3 DEF AuditType
  <1>5. ASSUME NEW f \in File \ unsettled
        PROVE  ManifestsFit(f)' /\ ListingFits(f)' /\ TextsFit(f)'
    <2>1. ManifestsFit(f) /\ ListingFits(f) /\ TextsFit(f)
      BY DEF SnapshotsAgree
    <2>2. ManifestsFit(f)' /\ TextsFit(f)'
      BY <1>1, <1>3, <2>1 DEF ManifestsFit, TextsFit
    <2>3. ListingFits(f)'
      BY <1>1, <1>3, <2>1 DEF ListingFits
    <2> QED BY <2>2, <2>3
  <1>6. (scan.at > 6 => audit.mutated = Changed)'
    BY <1>1, <1>3 DEF SnapshotsAgree, Changed
  <1> QED BY <1>1, <1>3, <1>4, <1>5, <1>6 DEF SnapshotsAgree

LEMMA TextEntryFits ==
    ASSUME AuditType, SnapshotsAgree, NEW g \in File, TextEntry(g)
    PROVE  AuditType' /\ SnapshotsAgree'
  <1>0. scan.at \in 1..10
    BY DEF AuditType, Scans
  <1>1. scan.at \in {3, 8} /\ UNCHANGED <<tree, manifests, audit, unsettled>>
    BY <1>0, AllStages DEF TextEntry, Visits, StageName
  <1>2. scan' = [scan EXCEPT !.todo = scan.todo \ {g}]
    BY DEF TextEntry, Visited
  <1>3. /\ scan' \in Scans /\ scan'.at = scan.at /\ scan'.todo = scan.todo \ {g}
        /\ scan'.listed = scan.listed
    BY <1>2 DEF AuditType, Scans
  <1> DEFINE entry == IF g \in scan.listed THEN Grown(tree[g]) ELSE "none"
  <1>4. tree[g] \in Content /\ entry \in Content
    <2>1. tree[g] \in Content
      BY DEF AuditType
    <2>2. "none" \in Content
      BY DEF Content
    <2> QED BY <2>1, <2>2, TextOfContent
  <1>5. g \notin unsettled => entry = TextOf(tree[g])
    <2>1. ASSUME g \notin unsettled
          PROVE  g \in scan.listed <=> DigestOf(tree[g]) # "none"
      BY <1>1, <2>1 DEF SnapshotsAgree, ListingFits
    <2> QED BY <1>4, <2>1, TextOfContent
  <1>6. CASE scan.at = 3
    <2>1. texts' = [texts EXCEPT !["before"][g] = entry]
      BY <1>6 DEF TextEntry, Side, Second
    <2> HIDE DEF entry
    <2>2. /\ texts' \in Snapshots /\ texts'.after = texts.after
          /\ texts'.before[g] = entry
          /\ \A f \in File \ {g} : texts'.before[f] = texts.before[f]
      BY <1>4, <2>1 DEF AuditType, Snapshots
    <2>3. AuditType'
      BY <1>1, <1>3, <2>2 DEF AuditType
    <2>4. ASSUME NEW f \in File \ unsettled
          PROVE  ManifestsFit(f)' /\ ListingFits(f)' /\ TextsFit(f)'
      <3>1. ManifestsFit(f) /\ ListingFits(f) /\ TextsFit(f)
        BY DEF SnapshotsAgree
      <3>2. ManifestsFit(f)' /\ ListingFits(f)'
        BY <1>1, <1>3, <1>6, <3>1 DEF ManifestsFit, ListingFits
      <3>3. f = g => texts'.before[f] = TextOf(manifests'.before[f])
        BY <1>1, <1>4, <1>5, <1>6, <2>2, <3>1, TextOfContent DEF ManifestsFit
      <3>4. TextsFit(f)'
        BY <1>1, <1>3, <1>6, <2>2, <3>1, <3>3 DEF TextsFit
      <3> QED BY <3>2, <3>4
    <2> QED BY <1>1, <1>3, <1>6, <2>3, <2>4 DEF SnapshotsAgree
  <1>7. CASE scan.at = 8
    <2>1. texts' = [texts EXCEPT !["after"][g] = entry]
      BY <1>7 DEF TextEntry, Side, Second
    <2> HIDE DEF entry
    <2>2. /\ texts' \in Snapshots /\ texts'.before = texts.before
          /\ texts'.after[g] = entry
          /\ \A f \in File \ {g} : texts'.after[f] = texts.after[f]
      BY <1>4, <2>1 DEF AuditType, Snapshots
    <2>3. AuditType'
      BY <1>1, <1>3, <2>2 DEF AuditType
    <2>4. ASSUME NEW f \in File \ unsettled
          PROVE  ManifestsFit(f)' /\ ListingFits(f)' /\ TextsFit(f)'
      <3>1. ManifestsFit(f) /\ ListingFits(f) /\ TextsFit(f)
        BY DEF SnapshotsAgree
      <3>2. ManifestsFit(f)' /\ ListingFits(f)'
        BY <1>1, <1>3, <1>7, <3>1 DEF ManifestsFit, ListingFits
      <3>3. f = g => texts'.after[f] = TextOf(manifests'.after[f])
        BY <1>1, <1>4, <1>5, <1>7, <2>2, <3>1, TextOfContent DEF ManifestsFit
      <3>4. TextsFit(f)'
        BY <1>1, <1>3, <1>7, <2>2, <3>1, <3>3 DEF TextsFit
      <3> QED BY <3>2, <3>4
    <2>5. (scan.at > 6 => audit.mutated = Changed)'
      BY <1>1, <1>3, <1>7 DEF SnapshotsAgree, Changed
    <2> QED BY <1>1, <1>3, <1>7, <2>3, <2>4, <2>5 DEF SnapshotsAgree
  <1> QED BY <1>1, <1>6, <1>7

\* The harness goes on to the next stage, after a walk that is complete.
LEMMA StageFits ==
    ASSUME AuditType, SnapshotsAgree, NextStage
    PROVE  AuditType' /\ SnapshotsAgree'
  <1>0. scan.at \in 1..10 /\ scan \in Scans
    BY DEF AuditType, Scans
  <1>1. /\ scan.at \in {1, 2, 3, 4, 5, 7, 8}
        /\ scan.at # 4 => scan.todo = {}
        /\ UNCHANGED <<tree, manifests, texts, audit, unsettled>>
    BY <1>0, AllStages DEF NextStage, StageName
  <1> DEFINE next == scan.at + 1
  <1>2. scan' = [scan EXCEPT !.at = next, !.todo = File]
    BY DEF NextStage
  <1>3. next \in 1..10 /\ next \in {2, 3, 4, 5, 6, 8, 9}
    BY <1>1
  <1>4. /\ scan' \in Scans /\ scan'.at = scan.at + 1 /\ scan'.todo = File
        /\ scan'.listed = scan.listed
    <2> HIDE DEF next
    <2>1. scan' \in Scans /\ scan'.at = next /\ scan'.todo = File /\ scan'.listed = scan.listed
      BY <1>0, <1>2, <1>3 DEF Scans
    <2> QED BY <2>1 DEF next
  <1>5. AuditType'
    BY <1>1, <1>4 DEF AuditType
  <1>6. ASSUME NEW f \in File \ unsettled
        PROVE  ManifestsFit(f)' /\ ListingFits(f)' /\ TextsFit(f)'
    <2>1. ManifestsFit(f) /\ ListingFits(f) /\ TextsFit(f)
      BY DEF SnapshotsAgree
    <2>2. ManifestsFit(f)'
      BY <1>1, <1>4, <2>1 DEF ManifestsFit
    <2>3. ListingFits(f)'
      BY <1>1, <1>4, <2>1 DEF ListingFits, SnapshotsAgree
    <2>4. TextsFit(f)'
      BY <1>1, <1>4, <2>1 DEF TextsFit
    <2> QED BY <2>2, <2>3, <2>4
  <1>7. (scan.at > 6 => audit.mutated = Changed)'
    BY <1>1, <1>4 DEF SnapshotsAgree, Changed
  <1> QED BY <1>1, <1>4, <1>5, <1>6, <1>7 DEF SnapshotsAgree

LEMMA AuditMutationFits ==
    ASSUME AuditType, SnapshotsAgree, AuditMutation
    PROVE  AuditType' /\ SnapshotsAgree'
  <1>1. scan.at = 6 /\ UNCHANGED <<tree, manifests, texts, unsettled>>
    BY AllStages DEF AuditMutation, StageName, AuditType, Scans
  <1>2. scan' = [at |-> 7, todo |-> File, listed |-> {}]
    BY <1>1 DEF AuditMutation
  <1>3. scan' \in Scans /\ scan'.at = 7 /\ scan'.todo = File /\ scan'.listed = {}
    BY <1>2 DEF Scans
  <1>4. AuditType'
    BY <1>1, <1>3 DEF AuditType
  <1>5. ASSUME NEW f \in File \ unsettled
        PROVE  ManifestsFit(f)' /\ ListingFits(f)' /\ TextsFit(f)'
    BY <1>1, <1>3 DEF SnapshotsAgree, ManifestsFit, ListingFits, TextsFit
  <1>6. audit'.mutated = Changed /\ Changed' = Changed
    BY <1>1 DEF AuditMutation, Changed
  <1> QED BY <1>1, <1>3, <1>4, <1>5, <1>6 DEF SnapshotsAgree

LEMMA AuditDiffFits ==
    ASSUME AuditType, SnapshotsAgree, AuditDiff
    PROVE  AuditType' /\ SnapshotsAgree'
  <1>1. scan.at = 9 /\ UNCHANGED <<tree, manifests, texts, audit, unsettled>>
    BY AllStages DEF AuditDiff, StageName, AuditType, Scans
  <1>2. scan' \in Scans /\ scan'.at = 10
    BY <1>1 DEF AuditDiff, AuditType, Scans
  <1>3. AuditType'
    BY <1>1, <1>2 DEF AuditType
  <1>4. ASSUME NEW f \in File \ unsettled
        PROVE  ManifestsFit(f)' /\ ListingFits(f)' /\ TextsFit(f)'
    BY <1>1, <1>2 DEF SnapshotsAgree, ManifestsFit, ListingFits, TextsFit
  <1> QED BY <1>1, <1>2, <1>3, <1>4 DEF SnapshotsAgree, Changed

\* A write between two snapshots unsettles its file; one before them both, or
\* while the agent runs, contradicts nothing that a snapshot has said.
LEMMA WriteFits ==
    ASSUME AuditType, SnapshotsAgree, NEW g \in File, NEW c \in Content, Writes(g, c)
    PROVE  AuditType' /\ SnapshotsAgree'
  <1>0. scan.at \in 1..10
    BY DEF AuditType, Scans
  <1>1. tree' = [tree EXCEPT ![g] = c] /\ UNCHANGED <<scan, manifests, texts, audit>>
    BY DEF Writes
  <1>2. unsettled' = IF Splits(g) THEN unsettled \cup {g} ELSE unsettled
    BY DEF Writes
  <1>3. AuditType' /\ \A f \in File \ {g} : tree'[f] = tree[f]
    BY <1>1 DEF AuditType
  <1>4. g \notin unsettled' => scan.at = 4 \/ (scan.at \in {1, 5} /\ g \in scan.todo)
    <2>1. CASE Splits(g)
      BY <1>2, <2>1
    <2>2. CASE ~Splits(g)
      BY <1>0, <2>2, AllStages DEF Splits, StageName
    <2> QED BY <2>1, <2>2
  <1>5. ASSUME NEW f \in File \ unsettled'
        PROVE  ManifestsFit(f)' /\ ListingFits(f)' /\ TextsFit(f)'
    <2>1. ManifestsFit(f) /\ ListingFits(f) /\ TextsFit(f)
      BY <1>2 DEF SnapshotsAgree
    <2>2. CASE f = g
      BY <1>1, <1>4, <2>1, <2>2 DEF ManifestsFit, ListingFits, TextsFit
    <2>3. CASE f # g
      <3>1. tree'[f] = tree[f]
        BY <1>3, <2>3
      <3> QED BY <1>1, <2>1, <3>1 DEF ManifestsFit, ListingFits, TextsFit
    <2> QED BY <2>2, <2>3
  <1> QED BY <1>1, <1>3, <1>5 DEF SnapshotsAgree, Changed

LEMMA SnapshotsStay ==
    ASSUME AuditType, SnapshotsAgree,
           UNCHANGED <<tree, scan, manifests, texts, audit, unsettled>>
    PROVE  AuditType' /\ SnapshotsAgree'
  BY DEF AuditType, SnapshotsAgree, ManifestsFit, ListingFits, TextsFit, Changed

\* The two audits name different files only when a file was written between
\* their snapshots, or when its change is none of its text.
THEOREM AuditsDifferForAReason == AuditSpec => []DiffAuditDiffersForAReason
  <1> DEFINE Inv == AuditType /\ SnapshotsAgree
  <1>1. AuditInit => Inv
    <2> SUFFICES ASSUME AuditInit PROVE Inv
      OBVIOUS
    <2>1. Nothing \in [File -> Content]
      BY DEF Nothing, Content
    <2>2. manifests \in Snapshots /\ texts \in Snapshots
      BY <2>1 DEF AuditInit, Snapshots
    <2>3. scan \in Scans /\ scan.at = 1 /\ scan.todo = File /\ scan.listed = {}
      BY DEF AuditInit, Scans
    <2>4. tree \in [File -> Content]
      BY DEF AuditInit
    <2> QED BY <2>2, <2>3, <2>4
            DEF AuditType, SnapshotsAgree, ManifestsFit, ListingFits, TextsFit
  <1>2. Inv /\ [AuditNext]_auditVars => Inv'
    <2> SUFFICES ASSUME AuditType, SnapshotsAgree, [AuditNext]_auditVars PROVE Inv'
      OBVIOUS
    <2>1. LogOther \/ UNCHANGED auditVars => Inv'
      BY SnapshotsStay DEF LogOther, auditVars
    <2>2. (\E f \in File, c \in Content : BridgePatch(f, c) \/ RawWrite(f, c)) => Inv'
      BY WriteFits DEF BridgePatch, RawWrite
    <2> HIDE DEF Inv
    <2>3. (\E f \in File : HashEntry(f) \/ ListEntry(f) \/ TextEntry(f)) => Inv'
      BY HashEntryFits, ListEntryFits, TextEntryFits DEF Inv
    <2>4. NextStage \/ AuditMutation \/ AuditDiff => Inv'
      BY StageFits, AuditMutationFits, AuditDiffFits DEF Inv
    <2> QED BY <2>1, <2>2, <2>3, <2>4 DEF AuditNext
  <1>3. Inv => DiffAuditDiffersForAReason
    <2> SUFFICES ASSUME Inv, StageName = "over",
                        NEW f \in (audit.mutated \ TextChanged) \cup (TextChanged \ audit.mutated),
                        f \notin unsettled
                 PROVE  TextOf(manifests.before[f]) = TextOf(manifests.after[f])
      BY DEF DiffAuditDiffersForAReason
    <2>1. scan.at = 10
      BY AllStages DEF StageName, AuditType, Scans
    <2>2. audit.mutated = Changed /\ f \in File
      BY <2>1 DEF SnapshotsAgree, Changed, TextChanged
    <2>3. /\ texts.before[f] = TextOf(manifests.before[f])
          /\ texts.after[f] = TextOf(manifests.after[f])
      BY <2>1, <2>2 DEF SnapshotsAgree, TextsFit
    <2>4. f \in TextChanged => f \in Changed
      BY <2>2, <2>3 DEF TextChanged, Changed
    <2> QED BY <2>2, <2>3, <2>4 DEF TextChanged
  <1> HIDE DEF Inv
  <1> QED BY <1>1, <1>2, <1>3, PTL DEF AuditSpec

-----------------------------------------------------------------------------
(* VerifyLadder: the exit code.                                             *)

\* What is left of a ladder that runs inside another one runs no third.
InnerSteps == Seq({"offline", "live"})

IsJob(job) ==
    /\ job = [todo |-> job.todo, failed |-> job.failed]
    /\ job.failed \in BOOLEAN

\* The scripts that are running, one inside the other.
Nesting ==
    \/ jobs = <<>>
    \/ jobs = <<jobs[1]>> /\ IsJob(jobs[1])
    \/ jobs = <<jobs[1], jobs[2]>> /\ IsJob(jobs[1]) /\ IsJob(jobs[2])
         /\ jobs[1].todo \in InnerSteps

\* A flaw is noted by a script that is running, or has shown in the exit code.
FlawNoted ==
    /\ flawed => exit = "1" \/ \E i \in DOMAIN jobs : jobs[i].failed
    /\ jobs # <<>> => exit = "running"

LadderInv == Nesting /\ FlawNoted

\* The innermost script goes on, with what is left of it and what it has noted.
LEMMA InnermostMoves ==
    ASSUME LadderInv, jobs # <<>>, NEW rest, NEW failed \in BOOLEAN,
           jobs[1].todo \in InnerSteps => rest \in InnerSteps,
           jobs[1].failed => failed,
           flawed' => flawed \/ failed,
           jobs' = [jobs EXCEPT ![1] = [todo |-> rest, failed |-> failed]],
           UNCHANGED exit
    PROVE  LadderInv'
  <1> DEFINE new == [todo |-> rest, failed |-> failed]
  <1>1. IsJob(new) /\ new.failed = failed /\ new.todo = rest
    BY DEF IsJob
  <1> HIDE DEF new
  <1>2. CASE jobs = <<jobs[1]>>
    <2>1. jobs' = <<new>>
      BY <1>2 DEF new
    <2> QED BY <1>1, <1>2, <2>1 DEF LadderInv, Nesting, FlawNoted
  <1>3. CASE jobs = <<jobs[1], jobs[2]>>
    <2>1. jobs' = <<new, jobs[2]>>
      BY <1>3 DEF new
    <2> QED BY <1>1, <1>3, <2>1 DEF LadderInv, Nesting, FlawNoted
  <1> QED BY <1>2, <1>3 DEF LadderInv, Nesting

LEMMA JobsStay ==
    ASSUME LadderInv, UNCHANGED <<jobs, exit, flawed>>
    PROVE  LadderInv'
  BY DEF LadderInv, Nesting, FlawNoted

LEMMA InnerTail ==
    ASSUME NEW rest \in InnerSteps, rest # <<>>
    PROVE  Tail(rest) \in InnerSteps
  BY DEF InnerSteps

LEMMA FirstJob ==
    ASSUME LadderInv, jobs # <<>>
    PROVE  IsJob(jobs[1])
  BY DEF LadderInv, Nesting

LEMMA JobGoesOn ==
    ASSUME NEW job, IsJob(job), NEW rest
    PROVE  [job EXCEPT !.todo = rest] = [todo |-> rest, failed |-> job.failed]
  BY DEF IsJob

LEMMA StepPasses == ASSUME LadderInv, NEW s, At(s), Passes PROVE LadderInv'
  <1>1. jobs # <<>> /\ jobs[1].todo # <<>>
    BY DEF At
  <1>2. jobs[1] = [todo |-> jobs[1].todo, failed |-> jobs[1].failed] /\ jobs[1].failed \in BOOLEAN
    BY <1>1, FirstJob DEF IsJob
  <1>3. jobs' = [jobs EXCEPT ![1] = [todo |-> Tail(jobs[1].todo), failed |-> jobs[1].failed]]
    BY <1>1, FirstJob, JobGoesOn DEF Passes
  <1>4. jobs[1].todo \in InnerSteps => Tail(jobs[1].todo) \in InnerSteps
    BY <1>1, InnerTail
  <1> QED BY <1>1, <1>2, <1>3, <1>4, InnermostMoves DEF Passes

LEMMA StepFails == ASSUME LadderInv, NEW s, At(s), Fails PROVE LadderInv'
  <1>1. jobs # <<>> /\ jobs[1].todo # <<>>
    BY DEF At
  <1>2. jobs[1].todo \in InnerSteps => Tail(jobs[1].todo) \in InnerSteps
    BY <1>1, InnerTail
  <1> QED BY <1>1, <1>2, InnermostMoves DEF Fails

LEMMA StepGivesUp == ASSUME LadderInv, NEW s, At(s), GivesUp PROVE LadderInv'
  <1>1. jobs # <<>> /\ <<>> \in InnerSteps
    BY DEF At, InnerSteps
  <1> QED BY <1>1, InnermostMoves DEF GivesUp

LEMMA NothingBefore ==
    ASSUME NEW s \in InnerSteps
    PROVE  <<>> \o s \in InnerSteps
  BY DEF InnerSteps

LEMMA OneBefore ==
    ASSUME NEW a, NEW b
    PROVE  <<a>> \o <<b>> = <<a, b>>
  <1> DEFINE S == {a, b}
  <1>1. <<a>> \in Seq(S) /\ <<b>> \in Seq(S)
    OBVIOUS
  <1>2. Len(<<a>> \o <<b>>) = 2 /\ <<a>> \o <<b>> \in Seq(S)
    BY <1>1
  <1>3. (<<a>> \o <<b>>)[1] = a /\ (<<a>> \o <<b>>)[2] = b
    BY <1>1
  <1>4. <<a, b>> \in Seq(S) /\ Len(<<a, b>>) = 2 /\ <<a, b>>[1] = a /\ <<a, b>>[2] = b
    OBVIOUS
  <1> HIDE DEF S
  <1>5. \A i \in 1..2 : (<<a>> \o <<b>>)[i] = <<a, b>>[i]
    <2> TAKE i \in 1..2
    <2>1. i = 1 \/ i = 2
      OBVIOUS
    <2> QED BY <1>3, <1>4, <2>1
  <1> QED BY <1>2, <1>4, <1>5, SeqEqual

LEMMA LadderNests == ASSUME LadderInv, Nested PROVE LadderInv'
  <1>1. PICK script \in {"core", "integration"} :
           At(script) /\ jobs' = <<Job(script, {"assume-server-ready"})>> \o jobs
    BY DEF Nested
  <1> DEFINE new == Job(script, {"assume-server-ready"})
  <1>2. /\ new = [todo |-> new.todo, failed |-> FALSE] /\ new.failed = FALSE
        /\ new.todo = <<>> \o LadderSteps(script)
    BY DEF Job
  <1>3. new.todo \in InnerSteps
    <2>1. CASE script = "core"
      <3>1. LadderSteps(script) = <<"offline", "live", "live">>
        BY <2>1 DEF LadderSteps
      <3>2. <<"offline", "live", "live">> \in InnerSteps
        BY DEF InnerSteps
      <3> QED BY <1>2, <3>1, <3>2, NothingBefore
    <2>2. CASE script = "integration"
      <3>1. LadderSteps(script) = <<"live", "live">>
        BY <2>2 DEF LadderSteps
      <3>2. <<"live", "live">> \in InnerSteps
        BY DEF InnerSteps
      <3> QED BY <1>2, <3>1, <3>2, NothingBefore
    <2> QED BY <2>1, <2>2
  <1> HIDE DEF new
  <1>4. jobs = <<jobs[1]>>
    <2>1. jobs # <<>> /\ jobs[1].todo # <<>> /\ jobs[1].todo[1] \in {"core", "integration"}
      BY <1>1 DEF At
    <2>2. jobs[1].todo \notin InnerSteps
      BY <2>1 DEF InnerSteps
    <2> QED BY <2>1, <2>2 DEF LadderInv, Nesting
  <1>5. jobs' = <<new, jobs[1]>>
    <2>1. jobs' = <<new>> \o jobs
      BY <1>1 DEF new
    <2>2. <<new>> \o <<jobs[1]>> = <<new, jobs[1]>>
      BY OneBefore
    <2> QED BY <1>4, <2>1, <2>2
  <1>6. IsJob(new) /\ IsJob(jobs[1]) /\ UNCHANGED <<exit, flawed>>
    <2>1. IsJob(new)
      BY <1>2 DEF IsJob
    <2>2. jobs # <<>>
      BY <1>1 DEF At
    <2> QED BY <2>1, <2>2, FirstJob DEF Nested
  <1> QED BY <1>3, <1>4, <1>5, <1>6 DEF LadderInv, Nesting, FlawNoted

LEMMA LadderNestEnds == ASSUME LadderInv, NestedEnds PROVE LadderInv'
  <1>0. jobs # <<>> /\ jobs # <<jobs[1]>>
    <2>1. Len(jobs) = 2 /\ Len(<<>>) = 0
      BY DEF NestedEnds
    <2>2. Len(<<jobs[1]>>) = 1
      OBVIOUS
    <2> QED BY <2>1, <2>2
  <1>1. jobs = <<jobs[1], jobs[2]>> /\ IsJob(jobs[1]) /\ IsJob(jobs[2])
    BY <1>0, Zenon DEF LadderInv, Nesting
  <1> DEFINE rest == Tail(jobs[2].todo)
             failed == jobs[2].failed \/ jobs[1].failed
  <1>2. jobs' = <<[todo |-> rest, failed |-> failed]>> /\ UNCHANGED <<exit, flawed>>
    BY DEF NestedEnds
  <1>3. failed \in BOOLEAN /\ (jobs[1].failed \/ jobs[2].failed => failed)
    OBVIOUS
  <1> HIDE DEF rest, failed
  <1>4. IsJob(jobs'[1]) /\ jobs'[1].failed = failed /\ jobs' = <<jobs'[1]>>
    BY <1>2, <1>3 DEF IsJob
  <1>5. (\E i \in DOMAIN jobs : jobs[i].failed) => failed
    BY <1>1, <1>3
  <1>6. FlawNoted'
    BY <1>1, <1>2, <1>4, <1>5 DEF LadderInv, FlawNoted
  <1> QED BY <1>4, <1>6 DEF LadderInv, Nesting

LEMMA LadderFinishes == ASSUME LadderInv, FinishTestRun PROVE LadderInv'
  <1>1. jobs = <<jobs[1]>> /\ jobs' = <<>> /\ UNCHANGED flawed
    BY DEF LadderInv, Nesting, FinishTestRun
  <1>2. (\E i \in DOMAIN jobs : jobs[i].failed) => jobs[1].failed
    BY <1>1
  <1>3. jobs[1].failed => exit' = "1"
    BY DEF FinishTestRun
  <1>4. exit = "running"
    BY <1>1 DEF LadderInv, FlawNoted
  <1> QED BY <1>1, <1>2, <1>3, <1>4 DEF LadderInv, Nesting, FlawNoted

LEMMA LadderKept == LadderInv /\ [LadderNext]_ladderVars => LadderInv'
  <1> SUFFICES ASSUME LadderInv, [LadderNext]_ladderVars PROVE LadderInv'
    OBVIOUS
  <1>1. Build \/ Kill \/ Ensure \/ WaitReady \/ Offline => LadderInv'
    BY StepPasses, StepFails, StepGivesUp DEF Build, Kill, Ensure, WaitReady, Offline
  <1>2. Meets \/ MeetsNone => LadderInv'
    BY StepPasses, StepFails, JobsStay DEF Meets, MeetsNone
  <1>3. KernelMoves \/ UNCHANGED ladderVars => LadderInv'
    BY JobsStay DEF KernelMoves, ladderVars
  <1> QED BY <1>1, <1>2, <1>3, LadderNests, LadderNestEnds, LadderFinishes
          DEF LadderNext, LadderStep

\* A ladder, and one inside it, exits with 0 only when no step of either has
\* failed or was given up.
THEOREM ZeroIsEarned == LadderSpec => []ExitZeroIsEarned
  <1>1. LadderInit => LadderInv
    <2> SUFFICES ASSUME LadderInit PROVE LadderInv
      OBVIOUS
    <2>1. PICK script, options : jobs = <<Job(script, options)>>
      BY DEF LadderInit
    <2>2. IsJob(jobs[1]) /\ jobs = <<jobs[1]>>
      BY <2>1 DEF Job, IsJob
    <2> QED BY <2>2 DEF LadderInit, LadderInv, Nesting, FlawNoted
  <1>2. LadderInv => ExitZeroIsEarned
    BY DEF LadderInv, Nesting, FlawNoted, ExitZeroIsEarned
  <1> QED BY <1>1, <1>2, LadderKept, PTL DEF LadderSpec

-----------------------------------------------------------------------------
(* VerifyLadder: the kernels that a ladder meets after a restart.            *)

Unprepared == {"offline", "live", "core", "integration", "ensure", "ready"}
AnyStep == Unprepared \cup {"build", "kill"}

\* Kernels that serve clients or are on their way to it.
Starting(n) == kernel[n] \in {"launched", "token", "up"}

WorldType ==
    /\ kernel \in [Kernel -> KernelState]
    /\ build \in [Kernel -> {"none", "old", "head"}]
    /\ binary \in {"old", "head"}
    /\ sockFile \in Kernel \cup {NoKernel}

\* The four states of a ladder that restarts the server: before its build,
\* before its kill, after both, and when its build has failed.
ToBuild ==
    /\ jobs # <<>> /\ jobs = <<jobs[1]>> /\ met = {}
    /\ jobs[1].todo \in Seq(AnyStep) /\ Len(jobs[1].todo) >= 2
    /\ jobs[1].todo[1] = "build" /\ jobs[1].todo[2] = "kill"
    /\ \A i \in 3..Len(jobs[1].todo) : jobs[1].todo[i] \in Unprepared

ToKill ==
    /\ jobs # <<>> /\ jobs = <<jobs[1]>> /\ met = {} /\ binary = "head"
    /\ jobs[1].todo \in Seq(AnyStep) /\ Len(jobs[1].todo) >= 1
    /\ jobs[1].todo[1] = "kill"
    /\ \A i \in 2..Len(jobs[1].todo) : jobs[1].todo[i] \in Unprepared

Renewed ==
    /\ binary = "head"
    /\ \A n \in Kernel : Starting(n) \/ n \in met => build[n] = "head" \/ n \in told
    /\ met \subseteq Kernel

Restarted ==
    /\ Renewed
    /\ \A i \in DOMAIN jobs : jobs[i].todo \in Seq(Unprepared) /\ (i # 1 => jobs[i].todo # <<>>)

GivenUp == met = {} /\ (jobs = <<>> \/ (jobs = <<jobs[1]>> /\ jobs[1].todo = <<>>))

RestartStates == ToBuild \/ ToKill \/ Restarted \/ GivenUp

RestartInv == WorldType /\ LadderInv /\ (Restarts(plan) => RestartStates)

LEMMA WorldKept == WorldType /\ [LadderNext]_ladderVars => WorldType'
  <1> SUFFICES ASSUME WorldType, [LadderNext]_ladderVars PROVE WorldType'
    OBVIOUS
  <1>1. CASE LadderStep
    <2>1. UNCHANGED <<kernelVars, build>> /\ (binary' = binary \/ binary' = "head")
      BY <1>1 DEF LadderStep, Build, Kill, Ensure, WaitReady, Offline, Meets, MeetsNone, Nested,
                  NestedEnds, FinishTestRun, worldVars
    <2> QED BY <2>1 DEF WorldType, kernelVars
  <1>2. CASE KernelMoves
    <2>1. PICK n \in Kernel :
             \/ Launch(n) /\ build' = [build EXCEPT ![n] = binary]
             \/ (WriteToken(n) \/ Listen(n) \/ Crash(n)) /\ UNCHANGED build
             \/ n \in told /\ Stop(n) /\ UNCHANGED build
      BY <1>2 DEF KernelMoves
    <2>2. UNCHANGED binary
      BY <1>2 DEF KernelMoves
    <2> QED BY <2>1, <2>2 DEF WorldType, KernelState, Launch, WriteToken, Listen, Crash, Stop
  <1>3. CASE UNCHANGED ladderVars
    BY <1>3 DEF ladderVars, kernelVars, WorldType
  <1> QED BY <1>1, <1>2, <1>3 DEF LadderNext

\* Whatever kernels do, none that serves and was not told to stop is of
\* another build than the binary.
LEMMA RenewedStays ==
    ASSUME WorldType, Renewed, KernelMoves
    PROVE  Renewed'
  <1>1. UNCHANGED <<binary, met, told>>
    BY DEF KernelMoves
  <1>2. PICK n \in Kernel :
           \/ Launch(n) /\ build' = [build EXCEPT ![n] = binary]
           \/ (WriteToken(n) \/ Listen(n) \/ Crash(n)) /\ UNCHANGED build
           \/ n \in told /\ Stop(n) /\ UNCHANGED build
    BY DEF KernelMoves
  <1>3. ASSUME NEW m \in Kernel, m # n
        PROVE  kernel'[m] = kernel[m] /\ build'[m] = build[m]
    BY <1>2, <1>3 DEF WorldType, Launch, WriteToken, Listen, Crash, Stop
  <1>4. build'[n] = "head" \/ (build'[n] = build[n] /\ (Starting(n)' => Starting(n)))
    BY <1>2 DEF WorldType, Renewed, Launch, WriteToken, Listen, Crash, Stop, Starting
  <1>5. ASSUME NEW m \in Kernel, Starting(m)' \/ m \in met'
        PROVE  build'[m] = "head" \/ m \in told'
    <2>1. CASE m = n
      BY <1>1, <1>4, <1>5, <2>1 DEF Renewed
    <2>2. CASE m # n
      BY <1>1, <1>3, <1>5, <2>2 DEF Renewed, Starting
    <2> QED BY <2>1, <2>2
  <1> QED BY <1>1, <1>5 DEF Renewed

\* What is left of a list of steps after its first one.
LEMMA RestOfSteps ==
    ASSUME NEW S, NEW rest \in Seq(S), rest # <<>>
    PROVE  /\ Tail(rest) \in Seq(S) /\ Len(Tail(rest)) = Len(rest) - 1
           /\ \A i \in 1..Len(Tail(rest)) : Tail(rest)[i] = rest[i + 1]
  OBVIOUS

\* The list of the innermost script is replaced; those around it stay.
LEMMA InnermostTodo ==
    ASSUME LadderInv, jobs # <<>>, NEW rest, NEW failed,
           jobs' = [jobs EXCEPT ![1] = [todo |-> rest, failed |-> failed]]
    PROVE  /\ DOMAIN jobs' = DOMAIN jobs
           /\ jobs'[1].todo = rest
           /\ \A i \in DOMAIN jobs : i # 1 => jobs'[i] = jobs[i]
           /\ jobs = <<jobs[1]>> => jobs' = <<jobs'[1]>> /\ jobs' # <<>>
  <1>1. jobs = <<jobs[1]>> \/ jobs = <<jobs[1], jobs[2]>>
    BY DEF LadderInv, Nesting
  <1> QED BY <1>1

LEMMA RestStates ==
    ASSUME LadderInv, jobs # <<>>, jobs[1].todo # <<>>,
           Passes \/ Fails \/ GivesUp
    PROVE  \E rest, failed :
             /\ jobs' = [jobs EXCEPT ![1] = [todo |-> rest, failed |-> failed]]
             /\ Passes \/ Fails => rest = Tail(jobs[1].todo)
             /\ rest = Tail(jobs[1].todo) \/ rest = <<>>
  <1>1. CASE Passes
    <2>1. jobs' = [jobs EXCEPT ![1] = [todo |-> Tail(jobs[1].todo), failed |-> jobs[1].failed]]
      BY <1>1, FirstJob, JobGoesOn DEF Passes
    <2> QED BY <2>1
  <1>2. CASE Fails
    BY <1>2 DEF Fails
  <1>3. CASE GivesUp /\ ~Passes /\ ~Fails
    BY <1>3 DEF GivesUp
  <1> QED BY <1>1, <1>2, <1>3

\* A step of a restarted ladder, which may meet the kernel that it reaches.
LEMMA RestartedGoesOn ==
    ASSUME LadderInv, WorldType, Restarted, jobs # <<>>, jobs[1].todo # <<>>,
           Passes \/ Fails \/ GivesUp \/ UNCHANGED jobs,
           UNCHANGED <<kernel, binary, build, told>>,
           UNCHANGED met \/ (Connectable /\ met' = met \cup {sockFile})
    PROVE  Restarted'
  <1>1. Renewed'
    <2>1. Connectable => sockFile \in Kernel /\ Starting(sockFile)
      BY DEF Connectable, WorldType, Starting
    <2> QED BY <2>1 DEF Restarted, Renewed, Starting
  <1>2. CASE UNCHANGED jobs
    BY <1>1, <1>2 DEF Restarted
  <1>3. CASE Passes \/ Fails \/ GivesUp
    <2>1. PICK rest, failed :
             /\ jobs' = [jobs EXCEPT ![1] = [todo |-> rest, failed |-> failed]]
             /\ rest = Tail(jobs[1].todo) \/ rest = <<>>
      BY <1>3, RestStates
    <2>2. jobs[1].todo \in Seq(Unprepared)
      BY DEF Restarted, LadderInv, Nesting
    <2>3. rest \in Seq(Unprepared)
      <3>1. CASE rest = <<>>
        BY <3>1
      <3>2. CASE rest = Tail(jobs[1].todo)
        BY <2>2, <3>2, RestOfSteps
      <3> QED BY <2>1, <3>1, <3>2
    <2> QED BY <1>1, <2>1, <2>3, InnermostTodo DEF Restarted
  <1> QED BY <1>2, <1>3

LEMMA RestartBuilds == ASSUME RestartInv, RestartStates, Build PROVE RestartStates'
  <1>0. LadderInv /\ jobs # <<>> /\ jobs[1].todo # <<>> /\ jobs[1].todo[1] = "build"
    BY DEF RestartInv, Build, At
  <1>1. ToBuild
    <2>1. ~ToKill /\ ~GivenUp
      BY <1>0 DEF ToKill, GivenUp
    <2>2. ~Restarted
      <3>1. jobs[1].todo \in Seq(Unprepared) => jobs[1].todo[1] \in Unprepared
        BY <1>0
      <3>2. 1 \in DOMAIN jobs
        BY <1>0 DEF LadderInv, Nesting
      <3> QED BY <1>0, <3>1, <3>2 DEF Restarted, Unprepared
    <2> QED BY <2>1, <2>2 DEF RestartStates
  <1>2. UNCHANGED met
    BY DEF Build
  <1>3. CASE Passes /\ binary' = "head"
    <2>1. PICK rest, failed :
             /\ jobs' = [jobs EXCEPT ![1] = [todo |-> rest, failed |-> failed]]
             /\ rest = Tail(jobs[1].todo)
      BY <1>0, <1>3, RestStates
    <2>2. jobs' = <<jobs'[1]>> /\ jobs' # <<>> /\ jobs'[1].todo = rest
      BY <1>0, <1>1, <2>1, InnermostTodo DEF ToBuild
    <2>3. /\ rest \in Seq(AnyStep) /\ Len(rest) = Len(jobs[1].todo) - 1
          /\ \A i \in 1..Len(rest) : rest[i] = jobs[1].todo[i + 1]
      BY <1>0, <1>1, <2>1, RestOfSteps DEF ToBuild
    <2> DEFINE old == jobs[1].todo
    <2>a. /\ Len(old) \in Nat /\ Len(old) >= 2 /\ old[2] = "kill"
          /\ \A i \in 3..Len(old) : old[i] \in Unprepared
      BY <1>1 DEF ToBuild
    <2>b. Len(rest) = Len(old) - 1 /\ \A i \in 1..Len(rest) : rest[i] = old[i + 1]
      BY <2>3
    <2> HIDE DEF old
    <2>4. Len(rest) >= 1 /\ rest[1] = "kill" /\ \A i \in 2..Len(rest) : rest[i] \in Unprepared
      <3>1. Len(rest) \in Nat /\ Len(rest) >= 1
        BY <2>a, <2>b
      <3>2. rest[1] = old[1 + 1]
        BY <2>b, <3>1
      <3>3. ASSUME NEW i \in 2..Len(rest) PROVE rest[i] \in Unprepared
        <4>1. i \in 1..Len(rest) /\ i + 1 \in 3..Len(old)
          BY <2>a, <2>b, <3>1
        <4> QED BY <2>a, <2>b, <4>1
      <3> QED BY <2>a, <3>1, <3>2, <3>3
    <2> QED BY <1>1, <1>2, <1>3, <2>2, <2>3, <2>4 DEF ToBuild, ToKill, RestartStates
  <1>4. CASE GivesUp
    <2>1. jobs' = <<jobs'[1]>> /\ jobs'[1].todo = <<>>
      BY <1>0, <1>1, <1>4, InnermostTodo DEF GivesUp, ToBuild
    <2> QED BY <1>1, <1>2, <2>1 DEF GivenUp, ToBuild, RestartStates
  <1> QED BY <1>3, <1>4 DEF Build

LEMMA RestartKills == ASSUME RestartInv, RestartStates, Kill PROVE RestartStates'
  <1>0. LadderInv /\ jobs # <<>> /\ jobs[1].todo # <<>> /\ jobs[1].todo[1] = "kill"
    BY DEF RestartInv, Kill, At
  <1>1. ToKill
    <2>1. ~ToBuild /\ ~GivenUp
      BY <1>0 DEF ToBuild, GivenUp
    <2>2. ~Restarted
      <3>1. jobs[1].todo \in Seq(Unprepared) => jobs[1].todo[1] \in Unprepared
        BY <1>0
      <3>2. 1 \in DOMAIN jobs
        BY <1>0 DEF LadderInv, Nesting
      <3> QED BY <1>0, <3>1, <3>2 DEF Restarted, Unprepared
    <2> QED BY <2>1, <2>2 DEF RestartStates
  <1>2. UNCHANGED <<met, binary, kernel, build>>
    BY DEF Kill, kernelVars
  <1>3. PICK rest, failed :
           /\ jobs' = [jobs EXCEPT ![1] = [todo |-> rest, failed |-> failed]]
           /\ rest = Tail(jobs[1].todo)
    BY <1>0, RestStates DEF Kill
  <1>4. jobs' = <<jobs'[1]>> /\ jobs'[1].todo = rest
    BY <1>0, <1>1, <1>3, InnermostTodo DEF ToKill
  <1>5. /\ rest \in Seq(AnyStep) /\ Len(rest) = Len(jobs[1].todo) - 1
        /\ \A i \in 1..Len(rest) : rest[i] = jobs[1].todo[i + 1]
    BY <1>0, <1>1, <1>3, RestOfSteps DEF ToKill
  <1>6. rest \in Seq(Unprepared)
    <2> DEFINE old == jobs[1].todo
    <2>1. Len(old) \in Nat /\ \A i \in 2..Len(old) : old[i] \in Unprepared
      BY <1>1 DEF ToKill
    <2>2. Len(rest) = Len(old) - 1 /\ \A i \in 1..Len(rest) : rest[i] = old[i + 1]
      BY <1>5
    <2> HIDE DEF old
    <2>3. ASSUME NEW i \in 1..Len(rest) PROVE rest[i] \in Unprepared
      <3>1. i + 1 \in 2..Len(old)
        BY <2>1, <2>2
      <3> QED BY <2>1, <2>2, <3>1
    <2> QED BY <1>5, <2>3
  <1>7. \A i \in DOMAIN jobs' : i = 1 /\ jobs'[i].todo \in Seq(Unprepared)
    BY <1>4, <1>6
  <1>8. Renewed'
    <2>1. met' = {} /\ binary' = "head"
      BY <1>1, <1>2 DEF ToKill
    <2>2. \A n \in Kernel : Starting(n)' => n \in told'
      BY <1>2 DEF Kill, Starting
    <2> QED BY <2>1, <2>2 DEF Renewed
  <1> QED BY <1>7, <1>8 DEF Restarted, RestartStates

LEMMA StepsOfLadders ==
    ASSUME NEW script \in {"core", "full", "integration"}
    PROVE  /\ LadderSteps(script) \in Seq(Unprepared)
           /\ script # "integration" => Len(LadderSteps(script)) = 3
  <1>1. CASE script = "core"
    <2>1. LadderSteps(script) = <<"offline", "live", "live">>
      BY <1>1 DEF LadderSteps
    <2>2. <<"offline", "live", "live">> \in Seq(Unprepared)
      BY DEF Unprepared
    <2> QED BY <2>1, <2>2
  <1>2. CASE script = "full"
    <2>1. LadderSteps(script) = <<"offline", "core", "live">>
      BY <1>2 DEF LadderSteps
    <2>2. <<"offline", "core", "live">> \in Seq(Unprepared)
      BY DEF Unprepared
    <2> QED BY <2>1, <2>2
  <1>3. CASE script = "integration"
    <2>1. LadderSteps(script) = <<"live", "live">>
      BY <1>3 DEF LadderSteps
    <2>2. <<"live", "live">> \in Seq(Unprepared)
      BY DEF Unprepared
    <2> QED BY <1>3, <2>1, <2>2
  <1> QED BY <1>1, <1>2, <1>3

LEMMA OneOrTwo ==
    ASSUME NEW x, NEW y
    PROVE  <<x>> \in Seq({x, y}) /\ <<x, y>> \in Seq({x, y})
  OBVIOUS

LEMMA RestartNests == ASSUME RestartInv, RestartStates, Nested PROVE RestartStates'
  <1>1. PICK script \in {"core", "integration"} :
           At(script) /\ jobs' = <<Job(script, {"assume-server-ready"})>> \o jobs
    BY DEF Nested
  <1>2. jobs # <<>> /\ jobs[1].todo # <<>> /\ jobs[1].todo[1] = script
    BY <1>1 DEF At
  <1>3. Restarted
    BY <1>2 DEF RestartStates, ToBuild, ToKill, GivenUp
  <1>4. LadderInv /\ LadderInv'
    BY LadderNests DEF RestartInv
  <1> DEFINE new == Job(script, {"assume-server-ready"})
  <1>5. new.todo \in Seq(Unprepared)
    <2>1. new.todo = <<>> \o LadderSteps(script)
      BY DEF Job
    <2>2. LadderSteps(script) \in Seq(Unprepared)
      BY StepsOfLadders
    <2> HIDE DEF new
    <2> QED BY <2>1, <2>2, ConcatProperties, EmptySeq
  <1> HIDE DEF new
  <1>6. jobs \in Seq({jobs[1], jobs[2]})
    <2>1. jobs = <<jobs[1]>> \/ jobs = <<jobs[1], jobs[2]>>
      BY <1>2, <1>4 DEF LadderInv, Nesting
    <2>2. /\ <<jobs[1]>> \in Seq({jobs[1], jobs[2]})
          /\ <<jobs[1], jobs[2]>> \in Seq({jobs[1], jobs[2]})
      BY OneOrTwo
    <2> QED BY <2>1, <2>2, Zenon
  <1>7. /\ jobs'[1] = new
        /\ \A i \in DOMAIN jobs' : i # 1 => i - 1 \in DOMAIN jobs /\ jobs'[i] = jobs[i - 1]
    <2>1. jobs' = <<new>> \o jobs
      BY <1>1 DEF new
    <2> QED BY <1>6, <2>1
  <1>8. \A i \in DOMAIN jobs' :
           jobs'[i].todo \in Seq(Unprepared) /\ (i # 1 => jobs'[i].todo # <<>>)
    <2> TAKE i \in DOMAIN jobs'
    <2>1. CASE i = 1
      BY <1>5, <1>7, <2>1
    <2>2. CASE i # 1
      <3>1. i - 1 \in DOMAIN jobs /\ jobs'[i] = jobs[i - 1] /\ i - 1 \in {1, 2}
        BY <1>2, <1>4, <1>7, <2>2 DEF LadderInv, Nesting
      <3> DEFINE k == i - 1
      <3>2. k \in DOMAIN jobs /\ jobs'[i] = jobs[k] /\ k \in {1, 2}
        BY <3>1
      <3> HIDE DEF k
      <3>3. jobs[k].todo \in Seq(Unprepared) /\ jobs[k].todo # <<>>
        BY <1>2, <1>3, <3>2 DEF Restarted
      <3> QED BY <2>2, <3>2, <3>3
    <2> QED BY <2>1, <2>2
  <1>9. UNCHANGED <<kernel, build, binary, told, met>>
    BY DEF Nested, worldVars, kernelVars
  <1> QED BY <1>3, <1>8, <1>9 DEF Restarted, Renewed, RestartStates, Starting

LEMMA RestartNestEnds == ASSUME RestartInv, RestartStates, NestedEnds PROVE RestartStates'
  <1>1. LadderInv /\ Len(jobs) = 2
    BY DEF RestartInv, NestedEnds
  <1>2. jobs = <<jobs[1], jobs[2]>> /\ jobs # <<>> /\ jobs # <<jobs[1]>>
    <2>1. Len(<<>>) = 0 /\ Len(<<jobs[1]>>) = 1
      OBVIOUS
    <2>2. jobs # <<>> /\ jobs # <<jobs[1]>>
      BY <1>1, <2>1
    <2> QED BY <1>1, <2>2, Zenon DEF LadderInv, Nesting
  <1>3. Restarted
    BY <1>2 DEF RestartStates, ToBuild, ToKill, GivenUp
  <1> DEFINE rest == Tail(jobs[2].todo)
             failed == jobs[2].failed \/ jobs[1].failed
  <1>4. jobs' = <<[todo |-> rest, failed |-> failed]>>
    BY DEF NestedEnds
  <1>5. rest \in Seq(Unprepared)
    <2>1. jobs[2].todo \in Seq(Unprepared)
      BY <1>2, <1>3 DEF Restarted
    <2>2. jobs[2].todo # <<>>
      BY <1>2, <1>3 DEF Restarted
    <2> QED BY <2>1, <2>2, RestOfSteps
  <1> HIDE DEF rest, failed
  <1>6. \A i \in DOMAIN jobs' : i = 1 /\ jobs'[i].todo \in Seq(Unprepared)
    BY <1>4, <1>5
  <1>7. UNCHANGED <<kernel, build, binary, told, met>>
    BY DEF NestedEnds, worldVars, kernelVars
  <1> QED BY <1>3, <1>6, <1>7 DEF Restarted, Renewed, RestartStates, Starting

LEMMA RestartKept == RestartInv /\ [LadderNext]_ladderVars => RestartInv'
  <1> SUFFICES ASSUME RestartInv, [LadderNext]_ladderVars PROVE RestartInv'
    OBVIOUS
  <1>0. WorldType' /\ LadderInv' /\ UNCHANGED plan
    <2>1. UNCHANGED plan
      BY DEF LadderNext, LadderStep, KernelMoves, Build, Kill, Ensure, WaitReady, Offline, Meets,
             MeetsNone, Nested, NestedEnds, FinishTestRun, Passes, Fails, GivesUp, ladderVars
    <2> QED BY <2>1, WorldKept, LadderKept DEF RestartInv
  <1> SUFFICES ASSUME RestartStates PROVE RestartStates'
    BY <1>0 DEF RestartInv, Restarts
  <1>a. LadderInv /\ WorldType
    BY DEF RestartInv
  <1>1. CASE Ensure \/ WaitReady \/ Offline \/ Meets \/ MeetsNone
    <2>1. /\ jobs # <<>> /\ jobs[1].todo # <<>>
          /\ jobs[1].todo[1] \in {"ensure", "ready", "offline", "live"}
      BY <1>1 DEF Ensure, WaitReady, Offline, Meets, MeetsNone, At
    <2>2. Restarted
      BY <2>1 DEF RestartStates, ToBuild, ToKill, GivenUp
    <2>3. /\ Passes \/ Fails \/ GivesUp \/ UNCHANGED jobs
          /\ UNCHANGED <<kernel, binary, build, told>>
          /\ UNCHANGED met \/ (Connectable /\ met' = met \cup {sockFile})
      BY <1>1 DEF Ensure, WaitReady, Offline, Meets, MeetsNone, worldVars, kernelVars
    <2> QED BY <1>a, <2>1, <2>2, <2>3, RestartedGoesOn DEF RestartStates
  <1>2. CASE FinishTestRun
    <2>1. /\ jobs' = <<>> /\ jobs[1].todo = <<>> /\ jobs # <<>>
          /\ UNCHANGED <<kernel, build, binary, told, met>>
      <3>1. Len(jobs) = 1 /\ jobs' = <<>> /\ jobs[1].todo = <<>>
        BY <1>2 DEF FinishTestRun
      <3>2. Len(<<>>) = 0
        OBVIOUS
      <3>3. jobs # <<>>
        BY <3>1, <3>2
      <3>4. UNCHANGED worldVars
        BY <1>2 DEF FinishTestRun
      <3> QED BY <3>1, <3>3, <3>4 DEF worldVars, kernelVars
    <2>2. Restarted \/ GivenUp
      BY <2>1 DEF RestartStates, ToBuild, ToKill
    <2> QED BY <2>1, <2>2 DEF RestartStates, Restarted, Renewed, GivenUp, Starting
  <1>3. CASE KernelMoves
    <2>1. UNCHANGED <<jobs, met, binary>>
      BY <1>3 DEF KernelMoves
    <2>2. Renewed => Renewed'
      BY <1>3, <1>a, RenewedStays
    <2> QED BY <2>1, <2>2 DEF RestartStates, ToBuild, ToKill, Restarted, GivenUp
  <1>4. CASE UNCHANGED ladderVars
    BY <1>4 DEF ladderVars, kernelVars, RestartStates, ToBuild, ToKill, Restarted, Renewed, GivenUp,
                Starting
  <1> QED
    BY <1>1, <1>2, <1>3, <1>4, RestartBuilds, RestartKills, RestartNests, RestartNestEnds
    DEF LadderNext, LadderStep

\* The order of make restart-agent-server as a list of steps.
LEMMA PreparedLadder ==
    ASSUME NEW script \in {"core", "full"}
    PROVE  /\ Job(script, {}).todo \in Seq(AnyStep) /\ Len(Job(script, {}).todo) = 7
           /\ Job(script, {}).todo[1] = "build" /\ Job(script, {}).todo[2] = "kill"
           /\ \A i \in 3..7 : Job(script, {}).todo[i] \in Unprepared
  <1> DEFINE first == <<"build", "kill", "ensure", "ready">>
             second == LadderSteps(script)
             all == first \o second
  <1>1. Job(script, {}).todo = all
    <2>1. Preparation(script) = first
      BY DEF Preparation
    <2> QED BY <2>1 DEF Job
  <1>2. /\ first \in Seq(AnyStep) /\ Len(first) = 4 /\ first[1] = "build" /\ first[2] = "kill"
        /\ first[3] \in Unprepared /\ first[4] \in Unprepared
    BY DEF AnyStep, Unprepared
  <1>3. second \in Seq(Unprepared) /\ Len(second) = 3
    BY StepsOfLadders
  <1>4. second \in Seq(AnyStep)
    BY <1>3 DEF AnyStep
  <1> HIDE DEF first, second
  <1>5. /\ all \in Seq(AnyStep) /\ Len(all) = 7
        /\ \A i \in 1..7 : all[i] = IF i <= 4 THEN first[i] ELSE second[i - 4]
    <2>1. /\ all \in Seq(AnyStep) /\ Len(all) = Len(first) + Len(second)
          /\ \A i \in 1..Len(first) + Len(second) :
                all[i] = IF i <= Len(first) THEN first[i] ELSE second[i - Len(first)]
      BY <1>2, <1>4, ConcatProperties
    <2> HIDE DEF all
    <2>2. Len(first) + Len(second) = 7 /\ Len(first) = 4
      BY <1>2, <1>3
    <2> QED BY <2>1, <2>2
  <1> HIDE DEF all
  <1>6. ASSUME NEW i \in 3..7 PROVE all[i] \in Unprepared
    <2>1. CASE i = 3
      BY <1>2, <1>5, <2>1
    <2>2. CASE i = 4
      BY <1>2, <1>5, <2>2
    <2>3. CASE i \in 5..7
      <3>1. i - 4 \in 1..Len(second) /\ all[i] = second[i - 4]
        BY <1>3, <1>5, <2>3
      <3>2. \A k \in 1..Len(second) : second[k] \in Unprepared
        BY <1>3
      <3> QED BY <3>1, <3>2
    <2> QED BY <2>1, <2>2, <2>3
  <1>7. all[1] = "build" /\ all[2] = "kill"
    BY <1>2, <1>5
  <1> QED BY <1>1, <1>5, <1>6, <1>7

\* A ladder that restarts the server meets no kernel of an older build that
\* was not told to stop, whatever else launches, stops and crashes kernels.
THEOREM OldBuildsAreTold == LadderSpec => []RestartOutlivesOldBuilds
  <1>1. LadderInit => RestartInv
    <2> SUFFICES ASSUME LadderInit PROVE RestartInv
      OBVIOUS
    <2>1. WorldType
      BY DEF LadderInit, KernelInit, WorldType, KernelState
    <2>2. PICK script \in Script, options \in SUBSET {"skip-live", "assume-server-ready"} :
             jobs = <<Job(script, options)>> /\ plan = [script |-> script, options |-> options]
      BY DEF LadderInit
    <2>3. LadderInv
      <3>1. IsJob(jobs[1]) /\ jobs = <<jobs[1]>>
        BY <2>2 DEF Job, IsJob
      <3> QED BY <3>1 DEF LadderInit, LadderInv, Nesting, FlawNoted
    <2>4. ASSUME Restarts(plan) PROVE ToBuild
      <3>1. script \in {"core", "full"} /\ options = {}
        BY <2>2, <2>4 DEF Restarts
      <3>2. jobs = <<jobs[1]>> /\ jobs # <<>> /\ jobs[1] = Job(script, {})
        BY <2>2, <3>1
      <3>3. Len(jobs[1].todo) >= 2 /\ Len(jobs[1].todo) = 7
        BY <3>1, <3>2, PreparedLadder
      <3> QED BY <3>1, <3>2, <3>3, PreparedLadder DEF ToBuild, LadderInit
    <2> QED BY <2>1, <2>3, <2>4 DEF RestartInv, RestartStates
  <1>2. RestartInv => RestartOutlivesOldBuilds
    BY DEF RestartInv, RestartStates, ToBuild, ToKill, Restarted, Renewed, GivenUp,
           RestartOutlivesOldBuilds
  <1> QED BY <1>1, <1>2, RestartKept, PTL DEF LadderSpec

-----------------------------------------------------------------------------
(* AgentCommand: the exit code and the output of an invocation.              *)

Mode == CommandMode(flags)

Printed == Outcome \cup {"malformed", "event"}

\* The lines of a batch of which a failure is reported, or that came with what
\* is reported of them.
Failing == {i \in DOMAIN printed : lines[i] = "answered" \/ printed[i] \notin {"ok", "empty"}}

NoneLost == \A i \in DOMAIN printed : printed[i] # "lost"

CommandType ==
    /\ phase \in {"start", "connected", "listening", "exited"}
    /\ lines \in Seq(BatchLine) /\ todo \in Seq(BatchLine) /\ printed \in Seq(Printed)
    /\ unrun \in Nat

\* A batch has reported on the lines that it has sent or skipped, in order.
BatchReports ==
    /\ Len(printed) + Len(todo) = Len(lines)
    /\ \A i \in 1..Len(printed) : lines[i] = "malformed" <=> printed[i] = "malformed"
    /\ \A i \in 1..Len(todo) : todo[i] = lines[Len(printed) + i]
    /\ NoneLost => unrun = Cardinality(Failing)

CommandInv ==
    /\ CommandType
    /\ phase = "start" => printed = <<>> /\ lines = <<>> /\ unrun = 0
    /\ phase = "connected" =>
          IF Mode = "batch" THEN BatchReports
          ELSE /\ unrun = 0
               /\ \A i \in 1..Len(todo) : todo[i] = "request"
               /\ \A i \in 1..Len(lines) : lines[i] = "request"
    /\ phase = "listening" => Mode = "listen"
    /\ ExitZeroMeansAllRan

LEMMA LinesOfMode ==
    ASSUME NEW mode, NEW l \in Lines(mode)
    PROVE  l \in Seq(BatchLine) /\ (mode # "batch" => \A i \in 1..Len(l) : l[i] = "request")
  <1>1. CASE mode = "batch"
    <2>1. PICK n \in 0..MaxBatch : l \in [1..n -> BatchLine]
      BY <1>1 DEF Lines
    <2> QED BY <1>1, <2>1, CommandAssumption
  <1>2. CASE mode = "capabilities"
    <2>1. l = <<"request", "request">>
      BY <1>2 DEF Lines
    <2> QED BY <2>1 DEF BatchLine
  <1>3. CASE mode \notin {"batch", "capabilities"}
    <2>1. l = <<"request">>
      BY <1>3 DEF Lines
    <2> QED BY <2>1 DEF BatchLine
  <1> QED BY <1>1, <1>2, <1>3

LEMMA FailingIs ==
    ASSUME printed \in Seq(Printed)
    PROVE  /\ IsFiniteSet(Failing) /\ Cardinality(Failing) \in Nat
           /\ Len(printed) + 1 \notin Failing
           /\ Cardinality(Failing) = 0 <=> Failing = {}
  <1>1. Len(printed) \in Nat /\ Failing \subseteq 1..Len(printed)
    BY DEF Failing
  <1>2. IsFiniteSet(Failing)
    <2>1. IsFiniteSet(1..Len(printed))
      BY <1>1, FS_Interval
    <2> QED BY <1>1, <2>1, FS_Subset
  <1>3. Len(printed) + 1 \notin Failing
    <2>1. Len(printed) + 1 \notin 1..Len(printed)
      BY <1>1
    <2> QED BY <1>1, <2>1
  <1>4. Cardinality(Failing) \in Nat /\ (Cardinality(Failing) = 0 <=> Failing = {})
    BY <1>2, FS_CardinalityType, FS_EmptySet
  <1> QED BY <1>2, <1>3, <1>4

\* A line more is printed; a failure is one line more that was not run.
LEMMA OneMorePrinted ==
    ASSUME printed \in Seq(Printed), NEW o \in Printed, printed' = Append(printed, o),
           lines' = lines
    PROVE  /\ printed' \in Seq(Printed) /\ Len(printed') = Len(printed) + 1
           /\ \A i \in 1..Len(printed) : printed'[i] = printed[i]
           /\ printed'[Len(printed) + 1] = o
           /\ NoneLost' <=> NoneLost /\ o # "lost"
           /\ Cardinality(Failing') = Cardinality(Failing) +
                (IF o \in {"ok", "empty"} /\ lines[Len(printed) + 1] # "answered" THEN 0 ELSE 1)
  <1>1. /\ printed' \in Seq(Printed) /\ Len(printed') = Len(printed) + 1 /\ Len(printed) \in Nat
        /\ \A i \in 1..Len(printed) : printed'[i] = printed[i]
        /\ printed'[Len(printed) + 1] = o
    OBVIOUS
  <1>2. IsFiniteSet(Failing) /\ Cardinality(Failing) \in Nat /\ Len(printed) + 1 \notin Failing
    BY FailingIs
  <1> DEFINE n == Len(printed)
             runs == o \in {"ok", "empty"} /\ lines[n + 1] # "answered"
  <1>3. /\ DOMAIN printed' = 1..(n + 1) /\ DOMAIN printed = 1..n /\ n \in Nat
        /\ 1..(n + 1) = (1..n) \cup {n + 1}
    BY <1>1
  <1>4. CASE runs
    <2>1. Failing' = Failing
      BY <1>1, <1>3, <1>4 DEF Failing
    <2> QED BY <1>1, <1>2, <1>3, <1>4, <2>1 DEF NoneLost
  <1>5. CASE ~runs
    <2>1. Failing' = Failing \cup {n + 1}
      BY <1>1, <1>3, <1>5 DEF Failing
    <2>2. Cardinality(Failing') = Cardinality(Failing) + 1
      BY <1>2, <2>1, FS_AddElement
    <2> QED BY <1>1, <1>3, <1>5, <2>2 DEF NoneLost
  <1> QED BY <1>4, <1>5

LEMMA FirstLine ==
    ASSUME todo \in Seq(BatchLine), todo # <<>>
    PROVE  /\ Head(todo) = todo[1] /\ Len(todo) >= 1 /\ Len(todo) \in Nat
           /\ Tail(todo) \in Seq(BatchLine) /\ Len(Tail(todo)) = Len(todo) - 1
           /\ \A i \in 1..Len(Tail(todo)) : Tail(todo)[i] = todo[i + 1]
  OBVIOUS

\* One line of a batch.
LEMMA BatchGoesOn ==
    ASSUME CommandType, BatchReports, todo # <<>>, NEW o \in Outcome \cup {"malformed"},
           Head(todo) = "malformed" <=> o = "malformed",
           TakesLine(o), UNCHANGED lines, unrun' \in Nat,
           NoneLost /\ o # "lost" =>
             unrun' = unrun + (IF o \in {"ok", "empty"} /\ Head(todo) # "answered" THEN 0 ELSE 1)
    PROVE  BatchReports' /\ todo' \in Seq(BatchLine) /\ printed' \in Seq(Printed) /\ unrun' \in Nat
  <1>1. printed \in Seq(Printed) /\ o \in Printed /\ Len(printed) \in Nat
    BY DEF CommandType, Printed
  <1>2. /\ printed' \in Seq(Printed) /\ Len(printed') = Len(printed) + 1
        /\ \A i \in 1..Len(printed) : printed'[i] = printed[i]
        /\ printed'[Len(printed) + 1] = o
        /\ NoneLost' <=> NoneLost /\ o # "lost"
        /\ Cardinality(Failing') = Cardinality(Failing) +
             (IF o \in {"ok", "empty"} /\ lines[Len(printed) + 1] # "answered" THEN 0 ELSE 1)
    BY <1>1, OneMorePrinted DEF TakesLine
  <1>3. /\ Head(todo) = todo[1] /\ Len(todo) >= 1 /\ Len(todo) \in Nat
        /\ todo' \in Seq(BatchLine) /\ Len(todo') = Len(todo) - 1
        /\ \A i \in 1..Len(todo') : todo'[i] = todo[i + 1]
    BY FirstLine DEF CommandType, TakesLine
  <1> DEFINE n == Len(printed)
             m == Len(todo)
  <1>4. n + m = Len(lines) /\ n \in Nat /\ m \in Nat /\ m >= 1
    BY <1>1, <1>3 DEF BatchReports
  <1>5. lines[n + 1] = todo[1]
    <2>1. 1 \in 1..m
      BY <1>4
    <2> QED BY <2>1 DEF BatchReports
  <1>6. ASSUME NEW i \in 1..Len(printed')
        PROVE  lines'[i] = "malformed" <=> printed'[i] = "malformed"
    <2>1. CASE i \in 1..n
      BY <1>2, <2>1 DEF BatchReports
    <2>2. CASE i = n + 1
      BY <1>2, <1>3, <1>5, <2>2
    <2> QED BY <1>2, <1>4, <2>1, <2>2
  <1>7. ASSUME NEW i \in 1..Len(todo')
        PROVE  todo'[i] = lines'[Len(printed') + i]
    <2>1. i + 1 \in 1..m /\ todo'[i] = todo[i + 1] /\ Len(printed') + i = n + (i + 1)
      BY <1>2, <1>3, <1>4
    <2>2. todo[i + 1] = lines[n + (i + 1)]
      BY <2>1 DEF BatchReports
    <2> QED BY <2>1, <2>2
  <1>8. Len(printed') + Len(todo') = Len(lines')
    <2>1. Len(printed') = n + 1 /\ Len(todo') = m - 1 /\ Len(lines') = n + m
      BY <1>2, <1>3, <1>4
    <2> HIDE DEF n, m
    <2> QED BY <1>4, <2>1
  <1>9. NoneLost' => unrun' = Cardinality(Failing')
    <2>1. NoneLost => unrun = Cardinality(Failing)
      BY DEF BatchReports
    <2> QED BY <1>2, <1>3, <1>5, <2>1
  <1> QED BY <1>2, <1>3, <1>6, <1>7, <1>8, <1>9 DEF BatchReports

LEMMA CommandConnects == ASSUME CommandInv, Connect PROVE CommandInv'
  <1>0. /\ CommandType /\ phase = "start" /\ ~IsLocal(flags) /\ UNCHANGED <<flags, printed>>
        /\ printed = <<>> /\ lines = <<>> /\ unrun = 0
    BY DEF Connect, CommandInv
  <1>1. /\ lines' \in Seq(BatchLine) /\ todo' = lines'
        /\ Mode # "batch" => \A i \in 1..Len(lines') : lines'[i] = "request"
    BY LinesOfMode DEF Connect, Mode
  <1>2. /\ unrun' = IF phase' = "exited" THEN Len(lines') ELSE 0
        /\ \/ lines' = <<>> /\ phase' = "exited"
           \/ phase' = "exited" /\ code' = 1
           \/ phase' = "connected"
    BY DEF Connect, Exit
  <1>3. CommandType' /\ Mode' = Mode
    <2>1. unrun' \in Nat /\ phase' \in {"exited", "connected"}
      BY <1>1, <1>2
    <2> QED BY <1>0, <1>1, <2>1 DEF CommandType, Mode
  <1>4. ASSUME phase' = "connected", Mode = "batch" PROVE BatchReports'
    <2>1. printed' = <<>> /\ Len(printed') = 0 /\ unrun' = 0
      BY <1>0, <1>2, <1>4
    <2>2. Failing' = {}
      BY <2>1 DEF Failing
    <2>3. Cardinality(Failing') = 0
      BY <2>2, FS_EmptySet
    <2> QED BY <1>1, <2>1, <2>3 DEF BatchReports
  <1>5. ExitZeroMeansAllRan'
    <2>1. ASSUME phase' = "exited", code' = 0
          PROVE  unrun' = Cardinality({i \in DOMAIN lines' : lines'[i] = "answered"})
      <3>1. lines' = <<>> /\ unrun' = 0
        BY <1>2, <2>1
      <3>2. {i \in DOMAIN lines' : lines'[i] = "answered"} = {}
        BY <3>1
      <3> QED BY <3>1, <3>2, FS_EmptySet
    <2> QED BY <2>1 DEF ExitZeroMeansAllRan
  <1> QED BY <1>1, <1>2, <1>3, <1>4, <1>5 DEF CommandInv

\* Outside a batch no line comes with its answer.
LEMMA NoneAnswered ==
    ASSUME \A i \in 1..Len(lines) : lines[i] = "request", lines \in Seq(BatchLine)
    PROVE  Cardinality({i \in DOMAIN lines : lines[i] = "answered"}) = 0
  <1>1. {i \in DOMAIN lines : lines[i] = "answered"} = {}
    OBVIOUS
  <1> QED BY <1>1, FS_EmptySet

LEMMA CommandSends ==
    ASSUME CommandInv, NEW o \in Outcome, NEW says \in Outcome,
           SendLine(o, says) \/ Call(o) \/ Capabilities(o) \/ Subscribe(o) \/ Unsubscribe(o)
    PROVE  CommandInv'
  <1>0. CommandType /\ UNCHANGED <<flags, lines>> /\ Mode' = Mode /\ unrun \in Nat
    BY DEF CommandInv, CommandType, SendLine, Call, Capabilities, Subscribe, Unsubscribe, Mode
  <1>a. /\ printed \in Seq(Printed) /\ o \in Printed /\ <<>> \in Seq(Printed)
        /\ <<>> \in Seq(BatchLine) /\ <<o>> \in Seq(Printed)
        /\ Append(printed, o) \in Seq(Printed)
    BY <1>0 DEF CommandType, Printed
  <1>b. Sends(o) => /\ unrun' = unrun + (IF o \in {"ok", "empty"} THEN 0 ELSE 1)
                    /\ unrun' \in Nat
                    /\ o \in {"ok", "empty"} => unrun' = unrun
    BY <1>0 DEF Sends, Outcome
  <1>1. CASE SendLine(o, says)
    <2>1. /\ phase = "connected" /\ phase' = "connected" /\ Mode = "batch" /\ todo # <<>>
          /\ Head(todo) \in {"request", "repeated"} /\ TakesLine(says) /\ Sends(o)
          /\ says \in MayBeTold(Head(todo), o)
      BY <1>1 DEF SendLine, Sending, Mode
    <2>2. BatchReports /\ says # "malformed" /\ says \in Outcome \cup {"malformed"}
      BY <2>1 DEF CommandInv, Outcome
    <2>3. NoneLost => says = o
      BY <2>1 DEF NoneLost, MayBeTold
    <2>4. NoneLost /\ says # "lost" =>
            unrun' = unrun + (IF says \in {"ok", "empty"} /\ Head(todo) # "answered" THEN 0 ELSE 1)
      BY <1>b, <2>1, <2>3
    <2>5. BatchReports' /\ todo' \in Seq(BatchLine) /\ printed' \in Seq(Printed) /\ unrun' \in Nat
      BY <1>0, <1>b, <2>1, <2>2, <2>4, BatchGoesOn
    <2> QED BY <1>0, <2>1, <2>5 DEF CommandInv, CommandType, ExitZeroMeansAllRan
  <1>2. CASE Call(o)
    <2>1. /\ phase = "connected" /\ phase' = "exited" /\ Mode \in {"shortcut", "call"}
          /\ todo' = <<>> /\ printed' \in {<<>>, <<o>>} /\ Sends(o) /\ code' = ExitCode(o)
      BY <1>2 DEF Call, Sending, Exit, Mode
    <2>2. unrun = 0 /\ Cardinality({i \in DOMAIN lines : lines[i] = "answered"}) = 0
      BY <1>0, <2>1, NoneAnswered DEF CommandInv, CommandType
    <2>3. code' = 0 =>
            unrun' = Cardinality({i \in DOMAIN lines' : lines'[i] = "answered"})
      BY <1>0, <1>b, <2>1, <2>2 DEF ExitCode, Outcome
    <2> QED BY <1>0, <1>a, <1>b, <2>1, <2>3 DEF CommandInv, CommandType, ExitZeroMeansAllRan
  <1>3. CASE Capabilities(o)
    <2>1. /\ phase = "connected" /\ Mode = "capabilities" /\ todo # <<>> /\ Sends(o)
          /\ \/ /\ o \in {"error", "lost"} /\ todo' = <<>> /\ printed' = <<>>
                /\ phase' = "exited" /\ code' = 1
             \/ /\ o \notin {"error", "lost"} /\ TakesLine(o)
                /\ phase' = "exited" \/ phase' = "connected"
      BY <1>3 DEF Capabilities, Sending, Exit, Mode
    <2>2. /\ unrun = 0 /\ Cardinality({i \in DOMAIN lines : lines[i] = "answered"}) = 0
          /\ \A i \in 1..Len(todo) : todo[i] = "request"
          /\ \A i \in 1..Len(lines) : lines[i] = "request"
      BY <1>0, <2>1, NoneAnswered DEF CommandInv, CommandType
    <2>3. CASE o \in {"error", "lost"}
      <3>1. todo' = <<>> /\ printed' = <<>> /\ phase' = "exited" /\ code' = 1 /\ unrun' \in Nat
        BY <1>b, <2>1, <2>3
      <3> QED BY <1>0, <1>a, <3>1 DEF CommandInv, CommandType, ExitZeroMeansAllRan
    <2>4. CASE o \notin {"error", "lost"}
      <3>1. todo' = Tail(todo) /\ printed' = Append(printed, o) /\ unrun' = 0
        BY <1>b, <2>1, <2>2, <2>4 DEF TakesLine, Outcome
      <3>2. todo' \in Seq(BatchLine) /\ \A i \in 1..Len(todo') : todo'[i] = "request"
        <4>1. /\ todo' \in Seq(BatchLine) /\ Len(todo') = Len(todo) - 1 /\ Len(todo) \in Nat
              /\ \A i \in 1..Len(todo') : todo'[i] = todo[i + 1]
          BY <1>0, <2>1, <3>1, FirstLine DEF CommandType
        <4>2. ASSUME NEW i \in 1..Len(todo') PROVE todo'[i] = "request"
          <5>1. i + 1 \in 1..Len(todo) /\ todo'[i] = todo[i + 1]
            BY <4>1
          <5> QED BY <2>2, <5>1
        <4> QED BY <4>1, <4>2
      <3> QED BY <1>0, <1>a, <2>1, <2>2, <2>4, <3>1, <3>2
              DEF CommandInv, CommandType, ExitZeroMeansAllRan
    <2> QED BY <2>3, <2>4
  <1>4. CASE Subscribe(o)
    <2>1. /\ Mode = "listen" /\ todo' = <<>> /\ Sends(o) /\ UNCHANGED printed
          /\ phase' \in {"listening", "exited"}
      BY <1>4 DEF Subscribe, Exit, Mode, Outcome
    <2> QED BY <1>0, <1>a, <1>b, <2>1 DEF CommandInv, CommandType, ExitZeroMeansAllRan, Mode
  <1>5. CASE Unsubscribe(o)
    <2>1. /\ phase = "listening" /\ phase' = "exited" /\ UNCHANGED <<todo, printed, unrun>>
      BY <1>5 DEF Unsubscribe, Exit, Outcome
    <2>2. Mode = "listen"
      BY <2>1 DEF CommandInv
    <2> QED BY <1>0, <2>1, <2>2 DEF CommandInv, CommandType, ExitZeroMeansAllRan, Mode
  <1> QED BY <1>1, <1>2, <1>3, <1>4, <1>5

LEMMA CommandStep == CommandInv /\ [CommandNext]_commandVars => CommandInv'
  <1> SUFFICES ASSUME CommandInv, [CommandNext]_commandVars PROVE CommandInv'
    OBVIOUS
  <1>0. CommandType
    BY DEF CommandInv
  <1>1. CASE Local
    BY <1>1 DEF Local, Exit, CommandInv, CommandType, ExitZeroMeansAllRan, Mode
  <1>2. CASE Refuse
    BY <1>2 DEF Refuse, Exit, CommandInv, CommandType, ExitZeroMeansAllRan, Mode
  <1>3. ASSUME NEW o \in Outcome \cup {"malformed"}, SkipLine(o) PROVE CommandInv'
    <2>1. /\ phase = "connected" /\ phase' = "connected" /\ todo # <<>>
          /\ \/ Head(todo) = "malformed" /\ o = "malformed"
             \/ Head(todo) = "answered" /\ o \in {"ok", "error"}
          /\ TakesLine(o) /\ unrun' = unrun + 1
          /\ UNCHANGED <<flags, lines>>
      BY <1>3 DEF SkipLine, Sending
    <2>2. Mode = "batch"
      <3>1. Head(todo) = todo[1] /\ 1 \in 1..Len(todo)
        BY <1>0, <2>1, FirstLine DEF CommandType
      <3> QED BY <2>1, <3>1 DEF CommandInv
    <2>3. BatchReports
      BY <2>1, <2>2 DEF CommandInv
    <2>4. /\ unrun' = unrun + (IF o \in {"ok", "empty"} /\ Head(todo) # "answered" THEN 0 ELSE 1)
          /\ unrun' \in Nat /\ (Head(todo) = "malformed" <=> o = "malformed")
      BY <1>0, <2>1 DEF CommandType
    <2>5. BatchReports' /\ todo' \in Seq(BatchLine) /\ printed' \in Seq(Printed) /\ unrun' \in Nat
      BY <1>0, <2>1, <2>3, <2>4, BatchGoesOn
    <2> QED BY <1>0, <2>1, <2>2, <2>5 DEF CommandInv, CommandType, ExitZeroMeansAllRan, Mode
  <1>4. CASE BatchEnds
    <2>1. /\ phase = "connected" /\ Mode = "batch" /\ phase' = "exited"
          /\ code' = 0 => \A i \in DOMAIN printed : printed[i] \in {"ok", "empty"}
          /\ UNCHANGED <<flags, lines, todo, printed, sent, unrun>>
      BY <1>4 DEF BatchEnds, Exit, Mode
    <2>2. BatchReports /\ Len(todo) \in Nat /\ Len(printed) \in Nat
      BY <1>0, <2>1 DEF CommandInv, CommandType
    <2>3. ASSUME code' = 0
          PROVE  unrun = Cardinality({i \in DOMAIN lines : lines[i] = "answered"})
      <3>1. todo = <<>>
        BY <1>4 DEF BatchEnds
      <3>2. DOMAIN printed = DOMAIN lines
        BY <1>0, <2>2, <3>1 DEF BatchReports, CommandType
      <3>3. NoneLost
        BY <2>1, <2>3 DEF NoneLost
      <3>4. Failing = {i \in DOMAIN lines : lines[i] = "answered"}
        BY <2>1, <2>3, <3>2 DEF Failing
      <3> QED BY <2>2, <3>3, <3>4 DEF BatchReports
    <2> QED BY <1>0, <2>1, <2>3 DEF CommandInv, CommandType, ExitZeroMeansAllRan
  <1>5. CASE PrintEvent
    <2>1. Append(printed, "event") \in Seq(Printed)
      BY <1>0 DEF CommandType, Printed
    <2> QED BY <1>0, <1>5, <2>1
            DEF PrintEvent, CommandInv, CommandType, ExitZeroMeansAllRan, Mode
  <1>6. CASE UNCHANGED commandVars
    BY <1>6 DEF commandVars, CommandInv, CommandType, BatchReports, Failing, NoneLost,
                ExitZeroMeansAllRan, Mode
  <1> QED BY <1>1, <1>2, <1>3, <1>4, <1>5, <1>6, CommandConnects, CommandSends DEF CommandNext

LEMMA CommandStart == CommandInit => CommandInv
  BY DEF CommandInit, CommandInv, CommandType, ExitZeroMeansAllRan

\* An invocation that exits with 0 had everything that it was asked to send
\* answered with success, in every mode but --listen and for batches of any
\* length, except the lines that bring an answer with them.
THEOREM ZeroMeansAllRan == CommandSpec => []ExitZeroMeansAllRan
  <1>1. CommandInv => ExitZeroMeansAllRan
    BY DEF CommandInv
  <1> QED BY <1>1, CommandStart, CommandStep, PTL DEF CommandSpec

\* A batch of any length reports on each of its lines, in their order; and where
\* none was lost, the lines that were not run with success are those that are
\* reported as failures or brought their answer with them.
THEOREM BatchesReportEveryLine == CommandSpec => BatchReportsEveryLine
  <1>1. CommandInv /\ [CommandNext]_commandVars =>
          [BatchEnds =>
            /\ Len(printed) = Len(lines)
            /\ \A i \in DOMAIN lines : (lines[i] = "malformed") = (printed[i] = "malformed")
            /\ (\A i \in DOMAIN printed : printed[i] # "lost") =>
                 unrun = Cardinality({i \in DOMAIN printed :
                                        lines[i] = "answered" \/ printed[i] \notin {"ok", "empty"}})
          ]_commandVars
    <2> SUFFICES ASSUME CommandInv, BatchEnds
                 PROVE  /\ Len(printed) = Len(lines)
                        /\ \A i \in DOMAIN lines :
                              (lines[i] = "malformed") = (printed[i] = "malformed")
                        /\ NoneLost => unrun = Cardinality(Failing)
      BY DEF Failing, NoneLost
    <2>1. BatchReports /\ Len(todo) = 0
      BY DEF BatchEnds, CommandInv, Mode
    <2>2. Len(printed) = Len(lines) /\ DOMAIN lines = 1..Len(printed)
      BY <2>1 DEF BatchReports, CommandInv, CommandType
    <2> QED BY <2>1, <2>2 DEF BatchReports
  <1> QED BY <1>1, CommandStart, CommandStep, PTL DEF CommandSpec, BatchReportsEveryLine
=============================================================================
