---------------------------- MODULE VerifyLadder -----------------------------
(***************************************************************************)
(* The ladders that verify the runtime: verify_agent_runtime.py ("core"),  *)
(* verify_agent_runtime_full.py ("full"), which runs the core ladder as    *)
(* one of its steps, release_check_agent_runtime.py ("release") and        *)
(* run_agent_integration_tests.py ("integration"), which is the last step  *)
(* of the release ladder.                                                  *)
(*                                                                         *)
(* The scripts talk to whatever kernel control.sock leads to.  A kernel    *)
(* runs the binary that was on the disk when it was launched; "make        *)
(* restart-agent-server" builds, tells the running kernels to stop, waits  *)
(* half a second and has a kernel launched when none can be connected to.  *)
(* A kernel that was told to stop serves until its main queue gets to it.  *)
(***************************************************************************)
EXTENDS KernelProcesses, Sequences

VARIABLES
    binary,  \* the build of the kernel binary on the disk
    build,   \* the build that each kernel runs
    told,    \* kernels that were told to stop
    plan,    \* the ladder and its options
    jobs,    \* the scripts that are running, the innermost first
    exit,    \* the exit code of the ladder, or "running"
    met,     \* history: the kernels that live steps have talked to
    flawed   \* history: a step failed, or was given up

ladderVars == <<kernelVars, binary, build, told, plan, jobs, exit, met, flawed>>

-----------------------------------------------------------------------------
Script == {"core", "full", "release", "integration"}

\* The steps of a ladder, one for each kind of step that follows another.
LadderSteps(script) ==
    CASE script = "core" -> <<"offline", "live", "live">>
      [] script = "full" -> <<"offline", "core", "live">>
      [] script = "release" -> <<"offline", "live", "integration">>
      [] script = "integration" -> <<"live", "live">>

\* Mutant: the running kernels are stopped before the build.
PreparationKillsFirst(script) ==
    CASE script \in {"core", "full"} -> <<"kill", "build", "ensure", "ready">>
      [] script = "release" -> <<"build", "ready">>
      [] script = "integration" -> <<>>

\* make restart-agent-server, or make app, and --wait-ready.
Preparation(script) ==
    CASE script \in {"core", "full"} -> <<"build", "kill", "ensure", "ready">>
      [] script = "release" -> <<"build", "ready">>
      [] script = "integration" -> <<>>

Job(script, options) ==
    [todo |-> IF "skip-live" \in options
              THEN SelectSeq(LadderSteps(script), LAMBDA s : s = "offline")
              ELSE (IF "assume-server-ready" \in options THEN <<>> ELSE Preparation(script))
                     \o LadderSteps(script),
     failed |-> FALSE]

Restarts(p) == p.script \in {"core", "full"} /\ p.options = {}

LadderInit ==
    /\ KernelInit
    /\ binary = "old"
    /\ build = [n \in Kernel |-> "none"]
    /\ told = {}
    /\ \E script \in Script, options \in SUBSET {"skip-live", "assume-server-ready"} :
          /\ script \in {"release", "integration"} => "assume-server-ready" \notin options
          /\ script = "integration" => options = {}
          /\ plan = [script |-> script, options |-> options]
          /\ jobs = <<Job(script, options)>>
    /\ exit = "running"
    /\ met = {}
    /\ flawed = FALSE

-----------------------------------------------------------------------------
(* One step of the innermost script.                                       *)

worldVars == <<kernelVars, binary, build, told, met>>

At(step) == jobs # <<>> /\ jobs[1].todo # <<>> /\ jobs[1].todo[1] = step

Passes == /\ jobs' = [jobs EXCEPT ![1].todo = Tail(@)]
          /\ UNCHANGED <<plan, exit, flawed>>

\* A step of the ladder that fails is noted, and the next one is run.
Fails == /\ jobs' = [jobs EXCEPT ![1] = [todo |-> Tail(@.todo), failed |-> TRUE]]
         /\ flawed' = TRUE
         /\ UNCHANGED <<plan, exit>>

\* A preparation that fails ends the script.
GivesUp == /\ jobs' = [jobs EXCEPT ![1] = [todo |-> <<>>, failed |-> TRUE]]
           /\ flawed' = TRUE
           /\ UNCHANGED <<plan, exit>>

Build ==
    /\ At("build")
    /\ \/ Passes /\ binary' = "head"
       \/ GivesUp /\ UNCHANGED binary
    /\ UNCHANGED <<kernelVars, build, told, met>>

\* pkill -f, whose failure is ignored, and the half second.
Kill ==
    /\ At("kill")
    /\ Passes
    /\ told' = told \cup {n \in Kernel : kernel[n] \in {"launched", "token", "up"}}
    /\ UNCHANGED <<kernelVars, binary, build, met>>

\* --ensure-socket.
Ensure ==
    /\ At("ensure")
    /\ (Connectable /\ Passes) \/ (~Connectable /\ GivesUp)
    /\ UNCHANGED worldVars

\* --wait-ready: the kernel answers a ping with the token of the token file.
WaitReady ==
    /\ At("ready")
    /\ (Connectable /\ tokenFile = sockFile /\ Passes) \/ GivesUp
    /\ UNCHANGED worldVars

Offline == At("offline") /\ (Passes \/ Fails) /\ UNCHANGED worldVars

\* A live step connects as often as it likes; it fails when it cannot.
Meets ==
    /\ At("live") /\ Connectable
    /\ met' = met \cup {sockFile}
    /\ Passes \/ Fails \/ UNCHANGED <<jobs, plan, exit, flawed>>
    /\ UNCHANGED <<kernelVars, binary, build, told>>

MeetsNone == At("live") /\ ~Connectable /\ Fails /\ UNCHANGED worldVars

Nested ==
    /\ \E script \in {"core", "integration"} :
          /\ At(script)
          /\ jobs' = <<Job(script, {"assume-server-ready"})>> \o jobs
    /\ UNCHANGED <<worldVars, plan, exit, flawed>>

\* Mutant: what the inner script returns is not looked at.
NestedEndsWell ==
    /\ Len(jobs) = 2 /\ jobs[1].todo = <<>>
    /\ jobs' = <<[jobs[2] EXCEPT !.todo = Tail(@)]>>
    /\ UNCHANGED <<worldVars, plan, exit, flawed>>

\* finish_test_run of an inner script, whose exit code is its step's result.
NestedEnds ==
    /\ Len(jobs) = 2 /\ jobs[1].todo = <<>>
    /\ jobs' = <<[todo |-> Tail(jobs[2].todo), failed |-> jobs[2].failed \/ jobs[1].failed]>>
    /\ UNCHANGED <<worldVars, plan, exit, flawed>>

\* finish_test_run: 0 if no check has failed.
FinishTestRun ==
    /\ Len(jobs) = 1 /\ jobs[1].todo = <<>>
    /\ exit' = IF jobs[1].failed THEN "1" ELSE "0"
    /\ jobs' = <<>>
    /\ UNCHANGED <<worldVars, plan, flawed>>

LadderStep ==
    \/ Build \/ Kill \/ Ensure \/ WaitReady \/ Offline \/ Meets \/ MeetsNone
    \/ Nested \/ NestedEnds \/ FinishTestRun

-----------------------------------------------------------------------------
(* Kernels, launched by the ladder's clients or by anybody's.              *)

KernelMoves ==
    /\ \E n \in Kernel :
          \/ Launch(n) /\ build' = [build EXCEPT ![n] = binary]
          \/ (WriteToken(n) \/ Listen(n) \/ Crash(n)) /\ UNCHANGED build
          \/ n \in told /\ Stop(n) /\ UNCHANGED build
    /\ UNCHANGED <<binary, told, plan, jobs, exit, met, flawed>>

LadderNext == LadderStep \/ KernelMoves

LadderSpec == LadderInit /\ [][LadderNext]_ladderVars

-----------------------------------------------------------------------------
(* Properties.                                                             *)

\* A ladder that exits with 0 had no step, at any depth, that failed or was
\* given up (subprocess return codes, finish_test_run).
ExitZeroIsEarned == exit = "0" => ~flawed

\* A ladder that restarts the server may still meet a kernel of an older build,
\* for --ensure-socket is content with any kernel; but only one that has been
\* told to stop and has not come to it yet: whatever is launched meanwhile, by
\* whomever, runs the new build (the order of make restart-agent-server).
RestartOutlivesOldBuilds ==
    Restarts(plan) => \A n \in met : build[n] = "head" \/ n \in told
=============================================================================
