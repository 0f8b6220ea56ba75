------------------------- MODULE VerificationRecord --------------------------
(***************************************************************************)
(* execute_verification_authority and audit_verification_authority of      *)
(* scripts/dietcode_verification_authority.py: after a mutation a command  *)
(* is run, two logs and a JSON record are written to the directory of the  *)
(* run, and an audit compares the directory with the verdict that the      *)
(* caller holds.                                                           *)
(*                                                                         *)
(* The times are those of the wall clock, which may be set.  The harness   *)
(* may die and verify again under the same run id, the agent may go on     *)
(* mutating, and the directory of the run is open to everybody.            *)
(***************************************************************************)
EXTENDS Naturals

CONSTANTS
    MaxClock,   \* bound of the model on the wall clock
    MaxVerifies \* bound of the model on the executions under one run id

ASSUME RecordAssumption == MaxClock \in Nat /\ MaxVerifies \in Nat

VARIABLES
    clock,     \* time.time()
    mutated,   \* mutation_completed_at, as the caller knows it
    running,   \* the execution in progress
    runDir,    \* verify.stdout.log, verify.stderr.log and verification.json
    authority, \* the verdict that the caller holds
    issues,    \* what the last audit found
    verifies,  \* executions so far
    setBack,   \* history: the clock has shown a time before mutated since then
    tampered   \* history: what others removed or spoilt since the last execution

recordVars == <<clock, mutated, running, runDir, authority, issues,
                verifies, setBack, tampered>>

-----------------------------------------------------------------------------
\* 124 stands for the timeout, 3 for any failure of the command.
CommandExit == {0, 3, 124}
Time == 0..MaxClock

NoTime == MaxClock + 1

Waiting == [phase |-> "idle", started |-> NoTime, cited |-> 0, exit |-> 0, setBack |-> FALSE]

\* empty_verification_authority; NoTime is None.
NotRun == [executed |-> FALSE, exit |-> 0, passed |-> FALSE, checked |-> FALSE]

NoJson == [state |-> "missing", started |-> NoTime, cited |-> 0]

RecordInit ==
    /\ clock \in Time /\ mutated = clock
    /\ running = Waiting
    /\ runDir = [stdout |-> FALSE, stderr |-> FALSE, json |-> NoJson]
    /\ authority = [of |-> NotRun, held |-> FALSE, setBack |-> FALSE]
    /\ issues = {}
    /\ verifies = 0
    /\ setBack = FALSE
    /\ tampered = {}

\* resolve_verify_command: the first of an override, an executable verify.sh
\* (which is made executable) and a fallback.
Resolved(override, script, fallback) ==
    CASE override -> "override"
      [] ~override /\ script -> "./verify.sh"
      [] ~override /\ ~script /\ fallback -> "fallback"
      [] OTHER -> "none"

-----------------------------------------------------------------------------
(* execute_verification_authority.                                         *)

Begin ==
    /\ running.phase = "idle" /\ verifies < MaxVerifies
    /\ \E override, script, fallback \in BOOLEAN :
         LET command == Resolved(override, script, fallback)
         IN  running' = IF command = "none"
                        THEN [Waiting EXCEPT !.phase = "json", !.cited = mutated]
                        ELSE [phase |-> "command", started |-> clock, cited |-> mutated,
                              exit |-> 0, setBack |-> setBack]
    /\ verifies' = verifies + 1
    /\ UNCHANGED <<clock, mutated, runDir, authority, issues, setBack, tampered>>

CommandEnds(exit) ==
    /\ running.phase = "command"
    /\ running' = [running EXCEPT !.phase = "stdout", !.exit = exit]
    /\ UNCHANGED <<clock, mutated, runDir, authority, issues, verifies, setBack, tampered>>

WriteLog(log, next) ==
    /\ running.phase = log
    /\ runDir' = [runDir EXCEPT ![log] = TRUE]
    /\ tampered' = tampered \ {log}
    /\ running' = [running EXCEPT !.phase = next]
    /\ UNCHANGED <<clock, mutated, authority, issues, verifies, setBack>>

\* Mutant: the time of the mutation is looked up when the record is written.
CitesNow == mutated

\* The time of the mutation is the one the caller passed.
Cites == running.cited

\* _public_authority of the record that is written.
Verdict(executed) ==
    IF executed
    THEN [executed |-> TRUE, exit |-> running.exit, passed |-> running.exit = 0,
          checked |-> running.started >= Cites]
    ELSE NotRun

WriteJson ==
    /\ running.phase = "json"
    /\ runDir' = [runDir EXCEPT !.json =
                    [state |-> "ours", started |-> running.started, cited |-> Cites]]
    /\ authority' = [of |-> Verdict(running.started # NoTime), held |-> TRUE,
                     setBack |-> running.setBack]
    /\ tampered' = tampered \ {"json"}
    /\ running' = Waiting
    /\ UNCHANGED <<clock, mutated, issues, verifies, setBack>>

-----------------------------------------------------------------------------
(* audit_verification_authority.                                           *)

\* Mutant: what the record says of the times is not looked at.
JsonIssuesUntimed(v) ==
    IF runDir.json.state = "ours" THEN {} ELSE {runDir.json.state}

\* The mutation time of the record is preferred to that of the caller.
JsonIssues(v) ==
    LET json == runDir.json
    IN  IF json.state # "ours" THEN {json.state}
        ELSE IF v.executed /\ json.started # NoTime /\ json.started < json.cited
             THEN {"verification_before_mutation"} ELSE {}

LogIssues(v) ==
    IF v.executed THEN {"missing_log" : log \in {x \in {"stdout", "stderr"} : ~runDir[x]}} ELSE {}

ExitIssues(v) ==
    IF v.executed /\ runDir.json.state # "missing" /\ v.passed # (v.exit = 0)
    THEN {"exit_code_passed_inconsistent"} ELSE {}

Audit ==
    /\ running.phase = "idle" /\ authority.held
    /\ issues' = JsonIssues(authority.of) \cup LogIssues(authority.of)
                   \cup ExitIssues(authority.of)
    /\ UNCHANGED <<clock, mutated, running, runDir, authority, verifies, setBack, tampered>>

-----------------------------------------------------------------------------
(* The rest of the world.                                                  *)

\* The harness dies, and its verdict with it.
Die ==
    /\ running.phase # "idle"
    /\ running' = Waiting
    /\ authority' = [of |-> NotRun, held |-> FALSE, setBack |-> FALSE]
    /\ UNCHANGED <<clock, mutated, runDir, issues, verifies, setBack, tampered>>

Mutate ==
    /\ mutated' = clock
    /\ setBack' = FALSE
    /\ UNCHANGED <<clock, running, runDir, authority, issues, verifies, tampered>>

SetClock(t) ==
    /\ clock' = t
    /\ setBack' = (setBack \/ t < mutated)
    /\ UNCHANGED <<mutated, running, runDir, authority, issues, verifies, tampered>>

Tamper ==
    /\ \/ \E log \in {"stdout", "stderr"} :
            /\ runDir[log]
            /\ runDir' = [runDir EXCEPT ![log] = FALSE]
            /\ tampered' = tampered \cup {log}
       \/ /\ runDir.json.state # "missing"
          /\ \E state \in {"missing", "invalid", "foreign"} :
                runDir' = [runDir EXCEPT !.json = [NoJson EXCEPT !.state = state]]
          /\ tampered' = tampered \cup {"json"}
    /\ UNCHANGED <<clock, mutated, running, authority, issues, verifies, setBack>>

RecordNext ==
    \/ Begin \/ WriteLog("stdout", "stderr") \/ WriteLog("stderr", "json") \/ WriteJson
    \/ \E exit \in CommandExit : CommandEnds(exit)
    \/ Audit \/ Die \/ Mutate \/ Tamper
    \/ \E t \in Time : SetClock(t)

RecordSpec == RecordInit /\ [][RecordNext]_recordVars

-----------------------------------------------------------------------------
(* Properties.                                                             *)

\* An audit refuses a verdict exactly when the directory was touched after the
\* execution or the record contradicts the order of mutation and verification;
\* executions that died, or came before, under the same run id leave nothing
\* that it takes for this one (audit_verification_authority).
AuditsSeeTheirExecution ==
    [][Audit =>
        LET v == authority.of
            touched == IF v.executed THEN tampered ELSE tampered \cap {"json"}
        IN  (issues' = {}) = (touched = {} /\ (v.executed => v.checked))]_recordVars

\* Only a clock that was set back makes a verification appear to have come
\* before its mutation, whatever is mutated while the command runs
\* (execute_verification_authority).
OnlyTheClockMisorders ==
    authority.of.executed /\ ~authority.of.checked => authority.setBack
=============================================================================
