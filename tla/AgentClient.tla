---------------------------- MODULE AgentClient -----------------------------
(***************************************************************************)
(* DietCodeAgentClient of scripts/dietcode_agent_client.py: a long-lived   *)
(* connection to the control socket, with a session token, request ids,    *)
(* timeouts, retries after a reconnect and one refresh of the token.       *)
(*                                                                         *)
(* The client makes one call after the other.  The kernels of              *)
(* KernelProcesses answer in any order that their queues allow, emit       *)
(* events, stop, crash and start again.  What was sent over a connection   *)
(* that the client has given up is still executed; its answer is lost.     *)
(***************************************************************************)
EXTENDS KernelProcesses, Sequences, FiniteSets

CONSTANTS
    Retries,    \* the retries that a client may be created with
    MaxCalls,   \* bound of the model on the calls of one client
    MaxInbox    \* bound of the model on an inbox that takes a further event

ASSUME ClientAssumption ==
    /\ Retries \subseteq Nat /\ \E m \in Retries : \A n \in Retries : n <= m
    /\ MaxCalls \in Nat
    /\ MaxInbox \in Nat

VARIABLES
    retries,   \* self.retries
    ids,       \* the request id of every call, named by the first that has it
    peer,      \* the kernel self.sock is connected to, NoKernel for None
    linked,    \* the kernel still has its end of that connection open
    token,     \* the kernel whose token is self.token, NoKernel for None
    call,      \* the call, or read_frame, in progress
    inbox,     \* frames that have arrived on self.sock
    requests,  \* requests that kernels have accepted and not yet answered
    log,       \* history: the method, the end and the runs of every call
    dead,      \* history: a call failed on this connection since it was closed
    mixed      \* history: calls that were sent while an answer with their id,
               \* but of another call, was still to come

connection == <<peer, linked, token>>
clientVars == <<retries, ids, connection, call, inbox, requests, log, dead, mixed>>
vars == <<kernelVars, clientVars>>

-----------------------------------------------------------------------------
Call == 1..MaxCalls

\* "read" is a method of READ_METHODS; "frame" is read_frame, which sends no
\* request.
Method == {"read", "mutate"}
Idle == [no |-> 0, method |-> "none", phase |-> "idle", tries |-> 0, refreshed |-> FALSE]
Unmade == [method |-> "none", end |-> "new", runs |-> 0]

\* The most attempts that any call may have.
MaxRunsPerCall == 2 + CHOOSE m \in Retries : \A n \in Retries : n <= m

Event == [no |-> 0, status |-> "event"]

\* A call has a new uuid for its id, unless the caller gives one, and a batch
\* gives every line its place in the batch: ids may repeat.
RequestIds == {f \in [Call -> Call] : \A c \in Call : f[c] <= c /\ f[f[c]] = f[c]}

\* Mutant: the retries that the client was created with are taken as they are.
AttemptLimitAsConfigured(method) == retries

\* max_retries.
AttemptLimit(method) ==
    IF method = "read" /\ retries = 0 THEN 1 ELSE retries

\* Requests that were sent over the connection that the client now has.
Mine == {r \in requests : r.mine}

\* Mutant: all sockets share one read buffer.
OrphanedNot == requests

Orphaned == {[r EXCEPT !.mine = FALSE] : r \in requests}

\* The execution queue is serial; the read queue is not.
Precedes(q, r) ==
    /\ q.at = r.at
    /\ q.method = "mutate" /\ r.method = "mutate"
    /\ \/ q.no < r.no
       \/ q.no = r.no /\ q.try < r.try
       \/ q.no = r.no /\ q.try = r.try /\ ~q.again /\ r.again

\* A request or an answer of call c is on its way on this connection.
Awaited(c) ==
    \/ \E r \in Mine : r.no = c
    \/ \E i \in DOMAIN inbox : inbox[i].no = c

Init ==
    /\ KernelInit
    /\ retries \in Retries /\ ids \in RequestIds
    /\ peer = NoKernel /\ linked = FALSE /\ token = NoKernel
    /\ call = Idle
    /\ inbox = <<>>
    /\ requests = {}
    /\ log = [c \in Call |-> Unmade]
    /\ dead = FALSE /\ mixed = {}

-----------------------------------------------------------------------------
(* The client.                                                             *)

Ends(how) ==
    /\ call' = Idle
    /\ log' = IF call.no = 0 THEN log ELSE [log EXCEPT ![call.no].end = how]

Goes(phase) == call' = [call EXCEPT !.phase = phase] /\ UNCHANGED log

\* raw_call opens a connection when it has none, or no token; so does
\* read_frame when it has none.
Begin(method) ==
    /\ call = Idle
    /\ \E c \in Call :
        /\ log[c].end = "new" /\ \A b \in 1..(c - 1) : log[b].end # "new"
        /\ call' = [no |-> c, method |-> method, tries |-> 0, refreshed |-> FALSE,
                    phase |-> IF peer = NoKernel \/ token = NoKernel THEN "open" ELSE "send"]
        /\ log' = [log EXCEPT ![c].method = method, ![c].end = "open"]
    /\ UNCHANGED <<kernelVars, retries, connection, inbox, requests, dead, ids, mixed>>

ReadFrame ==
    /\ call = Idle
    /\ call' = [Idle EXCEPT !.method = "frame",
                            !.phase = IF peer = NoKernel THEN "open" ELSE "wait"]
    /\ UNCHANGED <<kernelVars, retries, connection, inbox, requests, log, dead, ids, mixed>>

\* ensure_socket, when it finds no socket, has a kernel launched and waits.
EnsureSocket ==
    /\ call.phase = "open"
    /\ \E n \in Kernel : Launch(n)
    /\ UNCHANGED clientVars

\* A kernel that serves too many connections closes a new one at once.
Connect ==
    /\ call.phase = "open"
    /\ Connectable
    /\ peer' = sockFile
    /\ linked' \in BOOLEAN
    /\ inbox' = <<>>
    /\ requests' = Orphaned
    /\ dead' = FALSE
    /\ Goes("token")
    /\ UNCHANGED <<kernelVars, retries, token, ids, mixed>>

ConnectFails ==
    /\ call.phase = "open"
    /\ ~Connectable
    /\ Ends("failed")
    /\ UNCHANGED <<kernelVars, retries, connection, inbox, requests, dead, ids, mixed>>

\* Mutant: a token that is known is not read again.
LoadTokenOnce ==
    /\ call.phase = "token"
    /\ IF tokenFile = NoKernel
       THEN Ends("failed") /\ UNCHANGED token
       ELSE /\ token' = IF token = NoKernel THEN tokenFile ELSE token
            /\ Goes(IF call.method = "frame" THEN "wait" ELSE "send")
    /\ UNCHANGED <<kernelVars, retries, peer, linked, inbox, requests, dead, ids, mixed>>

LoadToken ==
    /\ call.phase = "token"
    /\ IF tokenFile = NoKernel
       THEN Ends("failed") /\ UNCHANGED token
       ELSE /\ token' = tokenFile
            /\ Goes(IF call.method = "frame" THEN "wait" ELSE "send")
    /\ UNCHANGED <<kernelVars, retries, peer, linked, inbox, requests, dead, ids, mixed>>

\* Mutant: the reconnect only closes.
TransportErrorStaysClosed(rest) ==
    /\ call' = [call EXCEPT !.tries = @ + 1]
    /\ call.no # 0 /\ call.tries < AttemptLimit(call.method)
    /\ peer' = NoKernel /\ linked' = FALSE
    /\ inbox' = <<>>
    /\ requests' = Orphaned
    /\ dead' = FALSE
    /\ UNCHANGED <<token, log>>

\* An OSError or a DietCodeTransportError: the last one leaves the socket as
\* it is, every other one closes it.
TransportError(rest) ==
    IF call.no # 0 /\ call.tries < AttemptLimit(call.method)
    THEN /\ call' = [call EXCEPT !.tries = @ + 1, !.phase = "open"]
         /\ peer' = NoKernel /\ linked' = FALSE
         /\ inbox' = <<>>
         /\ requests' = Orphaned
         /\ dead' = FALSE
         /\ UNCHANGED <<token, log>>
    ELSE /\ Ends("failed")
         /\ inbox' = rest
         /\ dead' = (dead \/ (call.no # 0 /\ ~linked))
         /\ UNCHANGED <<connection, requests>>

SendRequest ==
    /\ call.phase = "send"
    /\ IF linked
       THEN /\ requests' = requests \cup
                {[no |-> call.no, method |-> call.method, try |-> call.tries,
                  again |-> call.refreshed, at |-> peer, token |-> token,
                  mine |-> TRUE, done |-> FALSE]}
            /\ mixed' = IF \E c \in Call \ {call.no} : ids[c] = ids[call.no] /\ Awaited(c)
                        THEN mixed \cup {call.no}
                        ELSE mixed
            /\ Goes("wait")
            /\ UNCHANGED <<connection, inbox, dead>>
       ELSE TransportError(inbox) /\ UNCHANGED mixed
    /\ UNCHANGED <<kernelVars, retries, ids>>

\* A request that is longer than MAX_REQUEST_BYTES, or that a batch finds to
\* be malformed, is not sent.
RefuseUnsent ==
    /\ call.phase = "send"
    /\ Ends("failed")
    /\ UNCHANGED <<kernelVars, retries, connection, inbox, requests, dead, ids, mixed>>

Arrived == call.phase = "wait" /\ inbox # <<>>

SkipEvent ==
    /\ Arrived /\ call.no # 0 /\ Head(inbox) = Event
    /\ inbox' = Tail(inbox)
    /\ UNCHANGED <<kernelVars, retries, connection, call, requests, log, dead, ids, mixed>>

TakeFrame ==
    /\ Arrived /\ call.no = 0
    /\ inbox' = Tail(inbox)
    /\ Ends("answered")
    /\ UNCHANGED <<kernelVars, retries, connection, requests, dead, ids, mixed>>

\* Mutant: the next answer is taken, whatever its id.
MatchesAny(frame) == TRUE

Matches(frame) == ids[frame.no] = ids[call.no]

TakeAnswer ==
    /\ Arrived /\ call.no # 0 /\ Head(inbox) # Event
    /\ LET frame == Head(inbox)
       IN  \/ /\ Matches(frame)
              /\ frame.status = "denied" => call.refreshed
              /\ inbox' = Tail(inbox)
              /\ Ends(IF frame.status = "denied" THEN "refused" ELSE "answered")
              /\ UNCHANGED <<connection, requests, dead>>
           \/ /\ ~Matches(frame)
              /\ TransportError(Tail(inbox))
    /\ UNCHANGED <<kernelVars, retries, ids, mixed>>

\* Mutant: the token is read again as often as it is refused.
RefreshTokenAgain ==
    /\ Arrived /\ call.no # 0 /\ Head(inbox) # Event
    /\ Matches(Head(inbox)) /\ Head(inbox).status = "denied"
    /\ tokenFile # NoKernel
    /\ inbox' = Tail(inbox)
    /\ token' = tokenFile
    /\ call' = [call EXCEPT !.phase = "send"]
    /\ UNCHANGED <<kernelVars, retries, peer, linked, requests, log, dead, ids, mixed>>

\* The token is refused: it is read again, once in every call.
RefreshToken ==
    /\ Arrived /\ call.no # 0 /\ Head(inbox) # Event
    /\ Matches(Head(inbox)) /\ Head(inbox).status = "denied" /\ ~call.refreshed
    /\ inbox' = Tail(inbox)
    /\ IF tokenFile = NoKernel
       THEN Ends("failed") /\ UNCHANGED token
       ELSE /\ token' = tokenFile
            /\ call' = [call EXCEPT !.refreshed = TRUE, !.phase = "send"]
            /\ UNCHANGED log
    /\ UNCHANGED <<kernelVars, retries, peer, linked, requests, dead, ids, mixed>>

\* recv() returned nothing in time, or the end of the stream.
HearNothing ==
    /\ call.phase = "wait" /\ inbox = <<>>
    /\ TransportError(<<>>)
    /\ UNCHANGED <<kernelVars, retries, ids, mixed>>

ClientStep ==
    \/ Connect \/ ConnectFails \/ LoadToken \/ SendRequest
    \/ SkipEvent \/ TakeFrame \/ TakeAnswer \/ RefreshToken \/ HearNothing

-----------------------------------------------------------------------------
(* The kernels.                                                            *)

Execute(r) ==
    /\ ~r.done /\ r.token = r.at
    /\ \A q \in requests : Precedes(q, r) => q.done
    /\ requests' = (requests \ {r}) \cup {[r EXCEPT !.done = TRUE]}
    /\ log' = [log EXCEPT ![r.no].runs = @ + 1]
    /\ UNCHANGED <<kernelVars, retries, connection, call, inbox, dead, ids, mixed>>

\* An answer, or the refusal of a request with another kernel's token.
Reply(r) ==
    /\ r.done \/ r.token # r.at
    /\ requests' = requests \ {r}
    /\ inbox' = IF r.mine
                THEN Append(inbox, [no |-> r.no, status |-> IF r.done THEN "ok" ELSE "denied"])
                ELSE inbox
    /\ UNCHANGED <<kernelVars, retries, connection, call, log, dead, ids, mixed>>

Emit ==
    /\ linked /\ Len(inbox) < MaxInbox
    /\ inbox' = Append(inbox, Event)
    /\ UNCHANGED <<kernelVars, retries, connection, call, requests, log, dead, ids, mixed>>

\* A kernel takes its requests and its end of the connection with it.
Gone(n) ==
    /\ requests' = {r \in requests : r.at # n}
    /\ linked' = (linked /\ peer # n)
    /\ UNCHANGED <<retries, peer, token, call, inbox, log, dead, ids, mixed>>

KernelStep ==
    \E n \in Kernel :
        \/ Launch(n) /\ UNCHANGED clientVars
        \/ WriteToken(n) /\ UNCHANGED clientVars
        \/ Listen(n) /\ UNCHANGED clientVars
        \/ Stop(n) /\ Gone(n)
        \/ Crash(n) /\ Gone(n)

Next ==
    \/ \E m \in Method : Begin(m)
    \/ ReadFrame \/ EnsureSocket \/ RefuseUnsent
    \/ ClientStep
    \/ \E r \in requests : Execute(r) \/ Reply(r)
    \/ Emit
    \/ KernelStep

Spec == Init /\ [][Next]_vars

\* Every wait of the client has a timeout, and ensure_socket gives up.
Fairness == WF_vars(ClientStep)

LiveSpec == Spec /\ Fairness

-----------------------------------------------------------------------------
(* Properties.                                                             *)

TypeOK ==
    /\ kernel \in [Kernel -> KernelState]
    /\ {sockFile, tokenFile, peer, token} \subseteq Kernel \cup {NoKernel}
    /\ overlapped \in BOOLEAN /\ linked \in BOOLEAN /\ dead \in BOOLEAN
    /\ linked => peer # NoKernel /\ kernel[peer] = "up"
    /\ retries \in Retries
    /\ call \in [no : 0..MaxCalls, method : Method \cup {"none", "frame"},
                 phase : {"idle", "open", "token", "send", "wait"},
                 tries : Nat, refreshed : BOOLEAN]
    /\ call.phase \in {"send", "wait"} => peer # NoKernel
    /\ inbox \in Seq({Event} \cup [no : Call, status : {"ok", "denied"}])
    /\ requests \subseteq
          [no : Call, method : Method, try : Nat, again : BOOLEAN, at : Kernel,
           token : Kernel \cup {NoKernel}, mine : BOOLEAN, done : BOOLEAN]
    /\ log \in [Call -> [method : Method \cup {"none"}, runs : Nat,
                          end : {"new", "open", "answered", "refused", "failed"}]]
    /\ ids \in RequestIds /\ mixed \subseteq Call

\* An answer of another call that is still to come on the connection belongs
\* to a call that failed, or to one whose id was mixed up, and an id is mixed
\* up only when another call with that id has failed: after calls that ended
\* with their own answers no answer can be taken for a mismatch, or for that
\* of a later call (send_rpc, batch).
StaleFramesAreAbandoned ==
    /\ \A c \in Call \ {call.no} : Awaited(c) => log[c].end = "failed" \/ c \in mixed
    /\ \A c \in mixed : \E b \in Call \ {c} : ids[b] = ids[c] /\ log[b].end = "failed"

\* Outside of open() the client holds the token of the kernel it is connected
\* to, unless a second kernel was started beside a living one and took its
\* token file: the token is read after the connection is made, on every
\* reconnect, and kernels write it before they listen (open, load_token).
TokenFitsConnection ==
    linked /\ call.phase # "token" => token = peer \/ overlapped

\* The runs of a call and its end are what CallContract allows: no call is
\* run more often than its retries permit, a read once more, and an answer is
\* the answer to that call, unless its id was mixed up (send_rpc, raw_call).
Contract == INSTANCE CallContract WITH
    MaxRuns <- MaxRunsPerCall,
    stage <- [c \in Call |-> IF c \in mixed THEN "confused" ELSE log[c].end],
    limit <- [c \in Call |-> IF log[c].end = "new" THEN 0 ELSE AttemptLimit(log[c].method) + 1],
    runs <- [c \in Call |-> log[c].runs]

ImplementsCallContract == Contract!Spec

\* Every call, and every read of a frame, ends, unless events keep coming for
\* ever (the timeouts of send_rpc and ensure_socket, the bounds on retries and
\* on refreshing the token).
CallEnds ==
    \/ []<><<SkipEvent>>_vars
    \/ call # Idle ~> call = Idle

\* A read that meets a connection on which a call has already failed, because
\* the kernel closed it, leaves it and connects again, also with no retries
\* (raw_call).  A mutation of a client without retries does not: only a read
\* or close() frees such a client.
ReadsLeaveDeadConnections ==
    [][SendRequest /\ dead /\ call.method = "read" => ~dead']_vars
=============================================================================
