---------------------------- MODULE AgentCommand -----------------------------
(***************************************************************************)
(* One invocation of scripts/dietcode_agent_client.py: which of its modes  *)
(* the flags select, what is checked before anything is sent, what is sent *)
(* over the client of AgentClient, what is printed and with which code the *)
(* process exits.  Agents and ladders know of an invocation only its exit  *)
(* code and its output.                                                    *)
(***************************************************************************)
EXTENDS Naturals, Sequences, FiniteSets

CONSTANTS
    MaxFlags, \* bound of the model on the flags of an invocation
    MaxBatch  \* bound of the model on the lines of a batch

ASSUME CommandAssumption == {MaxFlags, MaxBatch} \subseteq Nat

VARIABLES
    flags,   \* the command line
    lines,   \* what is to be sent
    todo,    \* what of it has not been sent yet
    printed, \* the outcomes that will be printed, in their order
    phase,   \* "start", "connected", "listening", "exited"
    code,    \* the exit code
    sent,    \* history: requests that were sent
    unrun    \* history: lines that the kernel did not run with success

commandVars == <<flags, lines, todo, printed, phase, code, sent, unrun>>

-----------------------------------------------------------------------------
\* The flags that choose a mode, in the order in which main looks at them, and
\* those that choose what is printed or that main has to refuse.
LocalModes == <<"self-test", "emit-config", "status", "diagnose", "wait-ready", "ensure-only">>
LocalFlags == {LocalModes[i] : i \in DOMAIN LocalModes}
Shortcuts == {"diff", "grep", "search", "list-methods"}
Contradictions == {"bad-listen", "two-batches", "bad-params"}
Flag == LocalFlags \cup Shortcuts \cup Contradictions
          \cup {"batch", "capabilities", "listen", "raw", "rg"}

LocalMode(f) == LocalModes[CHOOSE i \in DOMAIN LocalModes :
                   LocalModes[i] \in f /\ \A j \in 1..(i - 1) : LocalModes[j] \notin f]

\* --listen comes before the shortcuts, and forgets them; --capabilities is not
\* looked at beside a diff or a search, nor a search beside a diff.
CommandMode(f) ==
    CASE f \cap LocalFlags # {} -> LocalMode(f)
      [] "batch" \in f -> "batch"
      [] "capabilities" \in f /\ f \cap {"diff", "grep", "search"} = {} -> "capabilities"
      [] "listen" \in f -> "listen"
      [] f \cap Shortcuts # {} -> "shortcut"
      [] OTHER -> "call"

IsLocal(f) == f \cap LocalFlags # {}

\* The parameters are loaded only when they are used.
Refused(f) ==
    /\ ~IsLocal(f)
    /\ \/ {"grep", "search"} \subseteq f
       \/ f \cap {"bad-listen", "two-batches"} # {}
       \/ "bad-params" \in f /\ CommandMode(f) = "call"

\* A line of a batch is a request, perhaps under the id of an earlier line; or
\* no request; or an object with a "localError" of its own, the key under which
\* the reader of a batch notes a line that cannot be sent.
BatchLine == {"request", "repeated", "malformed", "answered"}

\* What the mode sends: the lines of a batch, rpc.version and rpc.methods, a
\* subscription, or one request.
Lines(mode) ==
    CASE mode = "batch" -> UNION {[1..n -> BatchLine] : n \in 0..MaxBatch}
      [] mode = "capabilities" -> {<<"request", "request">>}
      [] OTHER -> {<<"request">>}

CommandInit ==
    /\ flags \in {f \in SUBSET Flag : Cardinality(f) <= MaxFlags}
    /\ lines = <<>> /\ todo = <<>> /\ printed = <<>>
    /\ phase = "start"
    /\ code = 0
    /\ sent = 0 /\ unrun = 0

-----------------------------------------------------------------------------
Exit(c) == phase' = "exited" /\ code' = c

\* The modes that print a state of this host and exit; a configuration that
\* cannot be read fails each of them.
Local ==
    /\ phase = "start" /\ IsLocal(flags)
    /\ Exit(0) \/ Exit(1)
    /\ UNCHANGED <<flags, lines, todo, printed, sent, unrun>>

Refuse ==
    /\ phase = "start" /\ Refused(flags)
    /\ Exit(1)
    /\ UNCHANGED <<flags, lines, todo, printed, sent, unrun>>

\* An empty batch does not even connect.
Connect ==
    /\ phase = "start" /\ ~IsLocal(flags) /\ ~Refused(flags)
    /\ lines' \in Lines(CommandMode(flags))
    /\ \/ lines' = <<>> /\ Exit(0)
       \/ lines' # <<>> /\ Exit(1)
       \/ lines' # <<>> /\ phase' = "connected" /\ UNCHANGED code
    /\ todo' = lines'
    /\ unrun' = IF phase' = "exited" THEN Len(lines') ELSE 0
    /\ UNCHANGED <<flags, printed, sent>>

\* What becomes of a request: an answer with a result, or with a result that
\* has no matches; an answer with an error; or no answer, and then it may have
\* been run.
Outcome == {"ok", "empty", "error", "lost"}

TakesLine(outcome) ==
    /\ todo' = Tail(todo)
    /\ printed' = Append(printed, outcome)

Sends(outcome) ==
    /\ sent' = sent + 1
    /\ unrun' = unrun + (IF outcome \in {"error", "lost"} THEN 1 ELSE 0)

Sending == phase = "connected" /\ todo # <<>>

\* batch: a line that cannot be sent has its error printed, or what it says of
\* itself, be it a success; then the next line is sent.
SkipLine(says) ==
    /\ Sending
    /\ \/ Head(todo) = "malformed" /\ says = "malformed"
       \/ Head(todo) = "answered" /\ says \in {"ok", "error"}
    /\ TakesLine(says)
    /\ unrun' = unrun + 1
    /\ UNCHANGED <<flags, lines, phase, code, sent>>

\* After a line without an answer, a line of the same id may take the answer of
\* that line, or one that is left over since, for its own.
MayBeTold(line, outcome) ==
    {outcome} \cup IF line = "repeated" /\ "lost" \in {printed[i] : i \in DOMAIN printed}
                   THEN Outcome ELSE {}

\* Mutant: a batch ends at the first failure.
SendLineOrStop(outcome, says) ==
    /\ Sending /\ CommandMode(flags) = "batch" /\ Head(todo) \in {"request", "repeated"}
    /\ says \in MayBeTold(Head(todo), outcome)
    /\ printed' = Append(printed, says)
    /\ todo' = IF says \in {"error", "lost"} THEN <<>> ELSE Tail(todo)
    /\ Sends(outcome)
    /\ UNCHANGED <<flags, lines, phase, code>>

\* A line that fails does not keep the next one from being sent.
SendLine(outcome, says) ==
    /\ Sending /\ CommandMode(flags) = "batch" /\ Head(todo) \in {"request", "repeated"}
    /\ says \in MayBeTold(Head(todo), outcome)
    /\ TakesLine(says) /\ Sends(outcome)
    /\ UNCHANGED <<flags, lines, phase, code>>

BatchEnds ==
    /\ phase = "connected" /\ CommandMode(flags) = "batch" /\ todo = <<>>
    /\ Exit(IF \A i \in DOMAIN printed : printed[i] \in {"ok", "empty"} THEN 0 ELSE 1)
    /\ UNCHANGED <<flags, lines, todo, printed, sent, unrun>>

\* Mutant: the code of a printed envelope is always 0.
ExitCodeOfPrinted(outcome) == 0

\* rpc_exit_code, and --grep-format rg, which reports an empty result of --grep.
ExitCode(outcome) ==
    IF outcome \in {"error", "lost"} THEN 1
    ELSE IF /\ outcome = "empty" /\ CommandMode(flags) = "shortcut"
            /\ {"grep", "rg"} \subseteq flags /\ "diff" \notin flags
         THEN 1 ELSE 0

\* With --raw-response an error is printed; without it call() raises.
Call(outcome) ==
    /\ Sending /\ CommandMode(flags) \in {"shortcut", "call"}
    /\ todo' = <<>>
    /\ printed' = IF outcome = "lost" \/ (outcome = "error" /\ "raw" \notin flags)
                  THEN <<>> ELSE <<outcome>>
    /\ Sends(outcome)
    /\ Exit(ExitCode(outcome))
    /\ UNCHANGED <<flags, lines>>

Capabilities(outcome) ==
    /\ Sending /\ CommandMode(flags) = "capabilities"
    /\ Sends(outcome)
    /\ IF outcome \in {"error", "lost"}
       THEN todo' = <<>> /\ printed' = <<>> /\ Exit(1)
       ELSE /\ TakesLine(outcome)
            /\ IF Len(todo) = 1 THEN Exit(0) ELSE UNCHANGED <<phase, code>>
    /\ UNCHANGED <<flags, lines>>

\* --listen: a connection that is closed is no failure, not even before the
\* subscription is answered.
Subscribe(outcome) ==
    /\ Sending /\ CommandMode(flags) = "listen"
    /\ todo' = <<>>
    /\ Sends(outcome)
    /\ CASE outcome \in {"ok", "empty"} -> phase' = "listening" /\ UNCHANGED code
         [] outcome = "error" -> Exit(1)
         [] outcome = "lost" -> Exit(0) \/ Exit(1)
    /\ UNCHANGED <<flags, lines, printed>>

PrintEvent ==
    /\ phase = "listening" /\ Len(printed) < MaxBatch
    /\ printed' = Append(printed, "event")
    /\ UNCHANGED <<flags, lines, todo, phase, code, sent, unrun>>

\* The number of events is reached, nothing comes in time, the user interrupts,
\* or the connection breaks; then the subscription is given up.
Unsubscribe(outcome) ==
    /\ phase = "listening"
    /\ sent' = sent + 1
    /\ CASE outcome \in {"ok", "empty"} -> Exit(0)
         [] outcome = "error" -> Exit(1)
         [] outcome = "lost" -> Exit(0) \/ Exit(1)
    /\ UNCHANGED <<flags, lines, todo, printed, unrun>>

CommandNext ==
    \/ Local \/ Refuse \/ Connect \/ BatchEnds \/ PrintEvent
    \/ \E o \in Outcome \cup {"malformed"} : SkipLine(o)
    \/ \E o, t \in Outcome : SendLine(o, t)
    \/ \E o \in Outcome : Call(o) \/ Capabilities(o) \/ Subscribe(o) \/ Unsubscribe(o)

CommandSpec == CommandInit /\ [][CommandNext]_commandVars

-----------------------------------------------------------------------------
(* Properties.                                                             *)

\* An invocation that exits with 0 had all that it was asked to run answered
\* with success, whatever was combined with --raw-response and the formats of
\* the output, and in a batch every line, even where ids are used twice and
\* answers are taken for each other.  Two exceptions: --listen, and the lines
\* that come with an answer of their own, which are never run and count as that
\* answer says (main, rpc_exit_code).
ExitZeroMeansAllRan ==
    phase = "exited" /\ code = 0 /\ ~IsLocal(flags) /\ CommandMode(flags) # "listen" =>
        unrun = Cardinality({i \in DOMAIN lines : lines[i] = "answered"})

\* A batch that was sent reports on every line, in its order; and where no line
\* was lost, the lines that were not run with success are those that it says
\* failed and those that came with their answer (DietCodeAgentClient.batch).
BatchReportsEveryLine ==
    [][BatchEnds =>
        /\ Len(printed) = Len(lines)
        /\ \A i \in DOMAIN lines : (lines[i] = "malformed") = (printed[i] = "malformed")
        /\ (\A i \in DOMAIN printed : printed[i] # "lost") =>
             unrun = Cardinality({i \in DOMAIN printed :
                                    lines[i] = "answered" \/ printed[i] \notin {"ok", "empty"}})]_commandVars
=============================================================================
