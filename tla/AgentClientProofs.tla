------------------------- MODULE AgentClientProofs --------------------------
(***************************************************************************)
(* Proofs about AgentClient, for any number of kernels that start, stop    *)
(* and crash, and any number of calls and retries: the token of a          *)
(* connected client fits its connection; the types; the frames that are    *)
(* left over belong to calls that failed; the contract of a call; the      *)
(* connections on which a call has failed; what is left to do for a call.  *)
(***************************************************************************)
EXTENDS AgentClient, FiniteSetTheorems, TLAPS

-----------------------------------------------------------------------------
(* The kernels.                                                            *)

\* While no two kernels have lived beside each other, the token file is that
\* of the one that lives.
KernelInv ==
    /\ kernel \in [Kernel -> KernelState]
    /\ sockFile \in Kernel \cup {NoKernel} /\ tokenFile \in Kernel \cup {NoKernel}
    /\ overlapped \in BOOLEAN
    /\ overlapped \/ \A n \in Kernel :
         kernel[n] \in {"token", "up"} =>
           /\ tokenFile = n
           /\ \A m \in Kernel : kernel[m] \in {"token", "up"} => m = n

LEMMA KernelStart == KernelInit => KernelInv
  BY DEF KernelInit, KernelInv, KernelState

LEMMA KernelKeeps ==
    ASSUME KernelInv, NEW n \in Kernel,
           Launch(n) \/ WriteToken(n) \/ Listen(n) \/ Stop(n) \/ Crash(n)
    PROVE  KernelInv' /\ (overlapped => overlapped')
           /\ \A m \in Kernel \ {n} : kernel'[m] = kernel[m]
  <1>1. CASE Launch(n)
    BY <1>1 DEF KernelInv, Launch, KernelState
  <1>2. CASE WriteToken(n)
    <2>1. /\ kernel' = [kernel EXCEPT ![n] = "token"] /\ tokenFile' = n /\ sockFile' = sockFile
          /\ kernel[n] = "launched" /\ overlapped' = (overlapped \/ Alive # {})
      BY <1>2 DEF WriteToken
    <2>2. CASE overlapped \/ Alive # {}
      <3>1. overlapped' = TRUE
        BY <2>1, <2>2, Zenon
      <3> QED BY <2>1, <3>1 DEF KernelInv, KernelState
    <2>3. CASE ~overlapped /\ Alive = {}
      <3>1. \A m \in Kernel : kernel[m] \notin {"token", "up"}
        BY <2>3 DEF Alive
      <3>2. overlapped' = FALSE
        BY <2>1, <2>3, Zenon
      <3> QED BY <2>1, <2>3, <3>1, <3>2 DEF KernelInv, KernelState
    <2> QED BY <2>2, <2>3
  <1>3. CASE Listen(n)
    BY <1>3 DEF KernelInv, Listen, KernelState
  <1>4. CASE Stop(n)
    BY <1>4 DEF KernelInv, Stop, KernelState
  <1>5. CASE Crash(n)
    BY <1>5 DEF KernelInv, Crash, KernelState
  <1> QED BY <1>1, <1>2, <1>3, <1>4, <1>5

-----------------------------------------------------------------------------
(* The client.                                                             *)

Calls == [no : 0..MaxCalls, method : Method \cup {"none", "frame"},
          phase : {"idle", "open", "token", "send", "wait"},
          tries : Nat, refreshed : BOOLEAN]

Linked == peer \in Kernel /\ kernel[peer] = "up"

LinkInv ==
    /\ call \in Calls
    /\ peer \in Kernel \cup {NoKernel}
    /\ linked => Linked
    /\ TokenFitsConnection

ClientInv == KernelInv /\ LinkInv

LEMMA IdleIs == Idle \in Calls /\ Idle.phase = "idle"
  BY ClientAssumption DEF Idle, Calls, Method

\* The token file is the peer's while the connection stands.
LEMMA FileFits ==
    ASSUME ClientInv, linked, ~overlapped
    PROVE  tokenFile = peer /\ tokenFile # NoKernel
  BY KernelAssumption DEF ClientInv, KernelInv, LinkInv, Linked

\* A step that leaves kernels and connection alone, and no token phase.
LEMMA SameConnection ==
    ASSUME ClientInv, UNCHANGED <<kernelVars, connection>>, call' \in Calls, call.phase # "token"
    PROVE  ClientInv'
  BY DEF ClientInv, KernelInv, LinkInv, Linked, TokenFitsConnection, kernelVars, connection

\* The client has closed its connection.
LEMMA Closed ==
    ASSUME ClientInv, UNCHANGED kernelVars, call' \in Calls, peer' = NoKernel, linked' = FALSE
    PROVE  ClientInv'
  BY DEF ClientInv, KernelInv, LinkInv, Linked, TokenFitsConnection, kernelVars

LEMMA EndsCall ==
    ASSUME NEW how, Ends(how)
    PROVE  call' \in Calls /\ call' = Idle
  BY IdleIs DEF Ends

LEMMA GoesCall ==
    ASSUME call \in Calls, NEW phase \in {"open", "token", "send", "wait"}, Goes(phase)
    PROVE  call' \in Calls /\ call'.phase = phase
  BY DEF Goes, Calls

LEMMA TransportErrorKeeps ==
    ASSUME ClientInv, UNCHANGED kernelVars, call.phase \in {"send", "wait"},
           NEW rest, TransportError(rest)
    PROVE  ClientInv'
  <1>1. call \in Calls
    BY DEF ClientInv, LinkInv
  <1>2. CASE Ends("failed") /\ UNCHANGED connection
    BY <1>2, EndsCall, SameConnection
  <1>3. CASE /\ call' = [call EXCEPT !.tries = @ + 1, !.phase = "open"]
             /\ peer' = NoKernel /\ linked' = FALSE
    <2> DEFINE n == call.tries + 1
    <2>1. n \in Nat /\ call' = [call EXCEPT !.tries = n, !.phase = "open"]
      BY <1>1, <1>3 DEF Calls
    <2> HIDE DEF n
    <2>2. call' \in Calls
      BY <1>1, <2>1 DEF Calls
    <2> QED BY <1>3, <2>2, Closed
  <1> QED BY <1>2, <1>3 DEF TransportError

LEMMA TokenRead ==
    ASSUME ClientInv, UNCHANGED kernelVars, UNCHANGED <<peer, linked>>, call' \in Calls,
           token' = tokenFile \/ (tokenFile = NoKernel /\ UNCHANGED token)
    PROVE  ClientInv'
  <1>1. linked /\ ~overlapped => token' = peer
    BY FileFits
  <1>2. KernelInv'
    BY DEF ClientInv, KernelInv, kernelVars
  <1>3. LinkInv'
    BY <1>1 DEF ClientInv, LinkInv, Linked, TokenFitsConnection, kernelVars
  <1> QED BY <1>2, <1>3 DEF ClientInv

LEMMA ClientStepKeeps ==
    ASSUME ClientInv, ClientStep
    PROVE  ClientInv'
  <1>0. call \in Calls
    BY DEF ClientInv, LinkInv
  <1>1. CASE Connect
    <2>1. /\ sockFile \in Kernel /\ kernel[sockFile] = "up" /\ peer' = sockFile
          /\ UNCHANGED kernelVars /\ Goes("token")
      BY <1>1 DEF Connect, Connectable, ClientInv, KernelInv
    <2>2. call' \in Calls /\ call'.phase = "token"
      BY <1>0, <2>1, GoesCall
    <2> QED BY <2>1, <2>2 DEF ClientInv, KernelInv, LinkInv, Linked, TokenFitsConnection, kernelVars
  <1>2. CASE ConnectFails
    BY <1>2, EndsCall, SameConnection DEF ConnectFails
  <1>3. CASE LoadToken
    <2>1. UNCHANGED kernelVars /\ UNCHANGED <<peer, linked>>
      BY <1>3 DEF LoadToken
    <2>2. \/ tokenFile = NoKernel /\ UNCHANGED token /\ Ends("failed")
          \/ token' = tokenFile /\ (Goes("wait") \/ Goes("send"))
      BY <1>3 DEF LoadToken
    <2>3. call' \in Calls
      BY <1>0, <2>2, EndsCall, GoesCall
    <2> QED BY <2>1, <2>2, <2>3, TokenRead
  <1>4. CASE SendRequest
    <2>1. CASE linked
      <3>1. Goes("wait") /\ UNCHANGED <<kernelVars, connection>> /\ call.phase # "token"
        BY <1>4, <2>1 DEF SendRequest
      <3> QED BY <1>0, <3>1, GoesCall, SameConnection
    <2>2. CASE ~linked
      BY <1>4, <2>2, TransportErrorKeeps DEF SendRequest
    <2> QED BY <2>1, <2>2
  <1>5. CASE SkipEvent
    BY <1>0, <1>5, SameConnection DEF SkipEvent, Arrived
  <1>6. CASE TakeFrame
    BY <1>6, EndsCall, SameConnection DEF TakeFrame, Arrived
  <1>7. CASE TakeAnswer
    <2>1. UNCHANGED kernelVars /\ call.phase = "wait"
      BY <1>7 DEF TakeAnswer, Arrived
    <2>2. \/ (\E how : Ends(how)) /\ UNCHANGED connection
          \/ TransportError(Tail(inbox))
      BY <1>7 DEF TakeAnswer
    <2> QED BY <2>1, <2>2, EndsCall, SameConnection, TransportErrorKeeps
  <1>8. CASE RefreshToken
    <2>1. UNCHANGED kernelVars /\ UNCHANGED <<peer, linked>>
      BY <1>8 DEF RefreshToken
    <2>2. \/ tokenFile = NoKernel /\ UNCHANGED token /\ Ends("failed")
          \/ token' = tokenFile /\ call' = [call EXCEPT !.refreshed = TRUE, !.phase = "send"]
      BY <1>8 DEF RefreshToken
    <2>3. call' \in Calls
      BY <1>0, <2>2, EndsCall DEF Calls
    <2> QED BY <2>1, <2>2, <2>3, TokenRead
  <1>9. CASE HearNothing
    BY <1>9, TransportErrorKeeps DEF HearNothing
  <1> QED BY <1>1, <1>2, <1>3, <1>4, <1>5, <1>6, <1>7, <1>8, <1>9 DEF ClientStep

LEMMA BeginKeeps ==
    ASSUME ClientInv, (\E m \in Method : Begin(m)) \/ ReadFrame
    PROVE  ClientInv'
  <1>1. CASE \E m \in Method : Begin(m)
    <2> PICK m \in Method : Begin(m)
      BY <1>1
    <2>1. PICK c \in Call :
            call' = [no |-> c, method |-> m, tries |-> 0, refreshed |-> FALSE,
                     phase |-> IF peer = NoKernel \/ token = NoKernel THEN "open" ELSE "send"]
      BY DEF Begin
    <2>2. call' \in Calls
      BY <2>1, ClientAssumption DEF Calls, Call
    <2> QED BY <2>2, IdleIs, SameConnection DEF Begin
  <1>2. CASE ReadFrame
    <2>1. call' = [Idle EXCEPT !.method = "frame",
                               !.phase = IF peer = NoKernel THEN "open" ELSE "wait"]
      BY <1>2 DEF ReadFrame
    <2>2. call' \in Calls
      BY <2>1, IdleIs DEF Calls
    <2> QED BY <1>2, <2>2, IdleIs, SameConnection DEF ReadFrame
  <1> QED BY <1>1, <1>2

\* A kernel that goes takes its connection with it.
LEMMA KernelStepKeeps ==
    ASSUME ClientInv, KernelStep \/ EnsureSocket
    PROVE  ClientInv'
  <1>1. PICK n \in Kernel :
          \/ (Launch(n) \/ WriteToken(n) \/ Listen(n)) /\ UNCHANGED clientVars
          \/ (Stop(n) \/ Crash(n)) /\ Gone(n)
    BY DEF KernelStep, EnsureSocket
  <1>2. KernelInv' /\ (overlapped => overlapped') /\ \A m \in Kernel \ {n} : kernel'[m] = kernel[m]
    BY <1>1, KernelKeeps DEF ClientInv
  <1>3. CASE (Launch(n) \/ WriteToken(n) \/ Listen(n)) /\ UNCHANGED clientVars
    <2>1. kernel[n] # "up" /\ UNCHANGED <<call, peer, linked, token>>
      BY <1>3 DEF Launch, WriteToken, Listen, clientVars, connection
    <2> QED BY <1>2, <2>1 DEF ClientInv, LinkInv, Linked, TokenFitsConnection
  <1>4. CASE (Stop(n) \/ Crash(n)) /\ Gone(n)
    <2>1. linked' = (linked /\ peer # n) /\ UNCHANGED <<call, peer, token>>
      BY <1>4 DEF Gone
    <2>2. CASE linked /\ peer # n
      BY <1>2, <2>1, <2>2 DEF ClientInv, LinkInv, Linked, TokenFitsConnection
    <2>3. CASE ~(linked /\ peer # n)
      <3>1. linked' = FALSE
        BY <2>1, <2>3, Zenon
      <3> QED BY <1>2, <2>1, <3>1 DEF ClientInv, LinkInv, TokenFitsConnection
    <2> QED BY <2>2, <2>3
  <1> QED BY <1>1, <1>3, <1>4

LEMMA NextKeeps ==
    ASSUME ClientInv, [Next]_vars
    PROVE  ClientInv'
  <1>0. call \in Calls
    BY DEF ClientInv, LinkInv
  <1>1. CASE UNCHANGED <<kernelVars, connection, call>>
    BY <1>1 DEF ClientInv, KernelInv, LinkInv, Linked, TokenFitsConnection, kernelVars, connection
  <1>2. CASE (\E r \in requests : Execute(r) \/ Reply(r)) \/ Emit \/ UNCHANGED vars
    BY <1>1, <1>2 DEF Execute, Reply, Emit, vars, clientVars, connection
  <1>3. CASE RefuseUnsent
    BY <1>3, EndsCall, SameConnection DEF RefuseUnsent
  <1> QED BY <1>2, <1>3, ClientStepKeeps, BeginKeeps, KernelStepKeeps DEF Next

\* Outside of open() a client holds the token of the kernel it is connected to,
\* unless two kernels lived beside each other.
THEOREM TokensFit == Spec => []TokenFitsConnection
  <1>1. Init => ClientInv
    BY KernelStart, IdleIs DEF Init, ClientInv, LinkInv, TokenFitsConnection
  <1>2. ClientInv /\ [Next]_vars => ClientInv'
    BY NextKeeps
  <1>3. ClientInv => TokenFitsConnection
    BY DEF ClientInv, LinkInv
  <1> QED BY <1>1, <1>2, <1>3, PTL DEF Spec

-----------------------------------------------------------------------------
(* Types.                                                                  *)

Frames == {Event} \cup [no : Call, status : {"ok", "denied"}]
Wire == [no : Call, method : Method, try : Nat, again : BOOLEAN, at : Kernel,
         token : Kernel \cup {NoKernel}, mine : BOOLEAN, done : BOOLEAN]
Entries == [method : Method \cup {"none"}, runs : Nat,
            end : {"new", "open", "answered", "refused", "failed"}]

FrameType ==
    /\ token \in Kernel \cup {NoKernel}
    /\ linked \in BOOLEAN /\ dead \in BOOLEAN
    /\ retries \in Retries
    /\ inbox \in Seq(Frames)
    /\ requests \subseteq Wire
    /\ log \in [Call -> Entries]
    /\ ids \in RequestIds /\ mixed \subseteq Call

\* The call in progress is the one that the log has open; one without a number
\* is a read of a frame.
CallOk ==
    /\ call.phase \in {"token", "send", "wait"} => peer # NoKernel
    /\ call.phase = "idle" => call.no = 0
    /\ call.phase = "send" => call.no # 0
    /\ call.phase # "idle" /\ call.no = 0 => call.method = "frame"
    /\ call.no # 0 =>
         /\ call.method \in Method
         /\ log[call.no].end = "open" /\ log[call.no].method = call.method
    /\ \A c \in Call : log[c].end = "open" => c = call.no
    /\ \A c \in Call : log[c].end # "new" => log[c].method \in Method

TypeInv == ClientInv /\ FrameType /\ CallOk

LEMMA TypeIs == TypeInv => TypeOK
  BY KernelAssumption DEF TypeInv, ClientInv, KernelInv, LinkInv, Linked, FrameType, CallOk, TypeOK, Calls,
         Frames, Wire, Entries

LEMMA NumberIs ==
    ASSUME call \in Calls, call.no # 0
    PROVE  call.no \in Call
  BY ClientAssumption DEF Calls, Call

LEMMA TailIs ==
    ASSUME NEW S, NEW q \in Seq(S), q # <<>>
    PROVE  /\ Tail(q) \in Seq(S) /\ Head(q) \in S /\ Head(q) = q[1] /\ 1 \in DOMAIN q
           /\ \A i \in DOMAIN Tail(q) : i + 1 \in DOMAIN q /\ Tail(q)[i] = q[i + 1] /\ i \in Nat
  OBVIOUS

LEMMA NothingIs == <<>> \in Seq(Frames)
  OBVIOUS

LEMMA EndKeepsLog ==
    ASSUME TypeInv, NEW how \in {"answered", "refused", "failed"}, Ends(how)
    PROVE  /\ log' \in [Call -> Entries]
           /\ call' = Idle /\ call'.no = 0 /\ call'.phase = "idle"
           /\ \A c \in Call : /\ log'[c].end = (IF c = call.no THEN how ELSE log[c].end)
                              /\ log'[c].method = log[c].method
                              /\ log'[c].runs = log[c].runs
  <1>1. call \in Calls /\ log \in [Call -> Entries] /\ 0 \notin Call
    BY DEF TypeInv, ClientInv, LinkInv, FrameType, Call
  <1>2. call' = Idle /\ call'.no = 0 /\ call'.phase = "idle"
    BY DEF Ends, Idle
  <1>3. CASE call.no = 0
    <2>1. log' = log
      BY <1>3 DEF Ends
    <2> QED BY <1>1, <1>2, <1>3, <2>1
  <1>4. CASE call.no # 0
    <2>1. call.no \in Call /\ log' = [log EXCEPT ![call.no].end = how]
      BY <1>1, <1>4, NumberIs DEF Ends
    <2>2. log' \in [Call -> Entries]
      BY <1>1, <2>1 DEF Entries
    <2> QED BY <1>1, <1>2, <2>1, <2>2 DEF Entries
  <1> QED BY <1>3, <1>4

LEMMA EndsOk ==
    ASSUME TypeInv, NEW how \in {"answered", "refused", "failed"}, Ends(how)
    PROVE  CallOk'
  <1>1. call \in Calls /\ CallOk
    BY DEF TypeInv, ClientInv, LinkInv
  <1>2. call'.no \notin Call
    BY EndKeepsLog DEF Call
  <1> QED BY <1>1, <1>2, EndKeepsLog DEF CallOk

\* The call goes on: number and method stay.
LEMMA GoesOnOk ==
    ASSUME TypeInv, UNCHANGED log, call'.no = call.no, call'.method = call.method,
           call.phase # "idle", call'.phase # "idle",
           call'.phase = "send" => call.no # 0,
           call'.phase \in {"token", "send", "wait"} => peer' # NoKernel
    PROVE  CallOk'
  BY DEF TypeInv, CallOk

LEMMA OrphanedIs ==
    ASSUME requests \subseteq Wire
    PROVE  /\ Orphaned \subseteq Wire
           /\ \A r \in Orphaned : ~r.mine /\ \E q \in requests : r = [q EXCEPT !.mine = FALSE]
  <1>1. ASSUME NEW q \in requests
        PROVE  [q EXCEPT !.mine = FALSE] \in Wire /\ ~[q EXCEPT !.mine = FALSE].mine
    BY <1>1 DEF Wire
  <1> QED BY <1>1 DEF Orphaned

\* A transport error either opens the connection anew or ends the call.
Reopens ==
    /\ call.no # 0 /\ call.tries < AttemptLimit(call.method)
    /\ call' = [call EXCEPT !.tries = call.tries + 1, !.phase = "open"]
    /\ peer' = NoKernel /\ linked' = FALSE
    /\ inbox' = <<>>
    /\ requests' = Orphaned
    /\ dead' = FALSE
    /\ UNCHANGED <<token, log>>

LEMMA TransportErrorIs ==
    ASSUME NEW rest, TransportError(rest)
    PROVE  \/ Reopens
           \/ /\ Ends("failed") /\ inbox' = rest /\ UNCHANGED <<connection, requests>>
              /\ dead' = (dead \/ (call.no # 0 /\ ~linked))
  BY DEF TransportError, Reopens

LEMMA ReopensIs ==
    ASSUME call \in Calls, Reopens
    PROVE  /\ call' \in Calls /\ call'.no = call.no /\ call'.method = call.method
           /\ call'.phase = "open" /\ call'.tries = call.tries + 1
           /\ call'.refreshed = call.refreshed
  <1> DEFINE n == call.tries + 1
  <1>1. n \in Nat /\ call' = [call EXCEPT !.tries = n, !.phase = "open"]
    BY DEF Reopens, Calls
  <1> HIDE DEF n
  <1>2. /\ call' \in Calls /\ call'.no = call.no /\ call'.method = call.method
        /\ call'.phase = "open" /\ call'.tries = n /\ call'.refreshed = call.refreshed
    BY <1>1 DEF Calls
  <1> QED BY <1>2 DEF n

LEMMA TransportErrorType ==
    ASSUME TypeInv, NEW rest \in Seq(Frames), TransportError(rest),
           call.phase \in {"send", "wait"}, UNCHANGED <<retries, ids, mixed>>
    PROVE  FrameType' /\ CallOk'
  <1>0. call \in Calls /\ FrameType
    BY DEF TypeInv, ClientInv, LinkInv
  <1>1. CASE Reopens
    <2>1. FrameType'
      <3>1. inbox' \in Seq(Frames)
        BY <1>1, Zenon, NothingIs DEF Reopens
      <3>2. requests' \subseteq Wire
        BY <1>0, <1>1, OrphanedIs DEF Reopens, FrameType
      <3>3. linked' \in BOOLEAN /\ dead' \in BOOLEAN
        BY <1>1, Zenon DEF Reopens
      <3>4. UNCHANGED <<token, log, retries, ids, mixed>>
        BY <1>1 DEF Reopens
      <3> QED BY <1>0, <3>1, <3>2, <3>3, <3>4 DEF FrameType
    <2>2. CallOk'
      BY <1>0, <1>1, ReopensIs, GoesOnOk DEF Reopens
    <2> QED BY <2>1, <2>2
  <1>2. CASE /\ Ends("failed") /\ inbox' = rest /\ UNCHANGED <<connection, requests>>
             /\ dead' = (dead \/ (call.no # 0 /\ ~linked))
    <2>1. dead' \in BOOLEAN
      BY <1>2, Zenon
    <2>2. FrameType'
      BY <1>0, <1>2, <2>1, EndKeepsLog DEF FrameType, connection
    <2> QED BY <1>2, <2>2, EndsOk
  <1> QED BY <1>1, <1>2, TransportErrorIs

\* A step of the client that only ends the call or moves it on.
LEMMA QuietType ==
    ASSUME TypeInv, UNCHANGED <<requests, retries, ids, mixed, linked, dead>>,
           token' \in Kernel \cup {NoKernel}, inbox' \in Seq(Frames), peer' = peer,
           \/ \E how \in {"answered", "refused", "failed"} : Ends(how)
           \/ /\ UNCHANGED log /\ call'.no = call.no /\ call'.method = call.method
              /\ call.phase # "idle" /\ call'.phase # "idle"
              /\ call'.phase = "send" => call.no # 0
              /\ call'.phase \in {"token", "send", "wait"} => peer # NoKernel
    PROVE  FrameType' /\ CallOk'
  <1>0. FrameType
    BY DEF TypeInv
  <1>1. CASE \E how \in {"answered", "refused", "failed"} : Ends(how)
    <2> PICK how \in {"answered", "refused", "failed"} : Ends(how)
      BY <1>1
    <2>1. log' \in [Call -> Entries]
      BY EndKeepsLog
    <2>2. FrameType'
      BY <1>0, <2>1 DEF FrameType
    <2> QED BY <2>2, EndsOk
  <1>2. CASE /\ UNCHANGED log /\ call'.no = call.no /\ call'.method = call.method
             /\ call.phase # "idle" /\ call'.phase # "idle"
             /\ call'.phase = "send" => call.no # 0
             /\ call'.phase \in {"token", "send", "wait"} => peer # NoKernel
    <2>1. FrameType'
      BY <1>0, <1>2 DEF FrameType
    <2> QED BY <1>2, <2>1, GoesOnOk
  <1> QED BY <1>1, <1>2

LEMMA SendType ==
    ASSUME TypeInv, SendRequest
    PROVE  FrameType' /\ CallOk'
  <1>0. call \in Calls /\ FrameType /\ call.phase = "send" /\ UNCHANGED <<retries, ids>>
    BY DEF TypeInv, ClientInv, LinkInv, SendRequest
  <1>1. CASE linked
    <2> DEFINE r == [no |-> call.no, method |-> call.method, try |-> call.tries,
                     again |-> call.refreshed, at |-> peer, token |-> token,
                     mine |-> TRUE, done |-> FALSE]
    <2>1. requests' = requests \cup {r} /\ Goes("wait") /\ UNCHANGED <<connection, inbox, dead>>
      BY <1>1 DEF SendRequest
    <2>2. call.no # 0 /\ call.method \in Method /\ peer \in Kernel
      BY <1>0, <1>1 DEF TypeInv, CallOk, ClientInv, LinkInv, Linked
    <2>3. r \in Wire /\ call.no \in Call
      BY <1>0, <2>2, NumberIs DEF Wire, FrameType, Calls
    <2> HIDE DEF r
    <2>3a. mixed' \subseteq Call
      BY <1>0, <1>1, <2>3 DEF SendRequest, FrameType
    <2>4. FrameType'
      BY <1>0, <2>1, <2>3, <2>3a DEF FrameType, connection, Goes
    <2>5. call'.no = call.no /\ call'.method = call.method /\ call'.phase = "wait"
      BY <1>0, <2>1 DEF Goes, Calls
    <2>6. peer' # NoKernel /\ UNCHANGED log
      BY <2>1, <2>2, KernelAssumption DEF Goes, connection
    <2> QED BY <1>0, <2>4, <2>5, <2>6, GoesOnOk
  <1>2. CASE ~linked
    <2>1. TransportError(inbox) /\ inbox \in Seq(Frames) /\ UNCHANGED mixed
      BY <1>0, <1>2 DEF SendRequest, FrameType
    <2> QED BY <1>0, <2>1, TransportErrorType
  <1> QED BY <1>1, <1>2

LEMMA ClientStepType ==
    ASSUME TypeInv, ClientStep
    PROVE  FrameType' /\ CallOk'
  <1>0. /\ call \in Calls /\ FrameType /\ KernelInv /\ CallOk
        /\ requests \subseteq Wire /\ inbox \in Seq(Frames)
    BY DEF TypeInv, ClientInv, LinkInv, FrameType
  <1>1. CASE Connect
    <2>1. /\ sockFile \in Kernel /\ peer' = sockFile /\ linked' \in BOOLEAN /\ inbox' = <<>>
          /\ requests' = Orphaned /\ dead' = FALSE /\ Goes("token")
          /\ call.phase = "open" /\ UNCHANGED <<retries, token, ids, mixed, log>>
      BY <1>0, <1>1 DEF Connect, Connectable, KernelInv, Goes
    <2>2. inbox' \in Seq(Frames)
      BY <2>1, Zenon, NothingIs
    <2>3. FrameType'
      BY <1>0, <2>1, <2>2, OrphanedIs DEF FrameType
    <2>4. call'.no = call.no /\ call'.method = call.method /\ call'.phase = "token"
      BY <1>0, <2>1 DEF Goes, Calls
    <2>5. peer' # NoKernel
      BY <2>1, KernelAssumption
    <2> QED BY <2>1, <2>3, <2>4, <2>5, GoesOnOk
  <1>2. CASE ConnectFails
    <2>1. Ends("failed") /\ UNCHANGED <<requests, retries, ids, mixed, linked, dead, token, inbox, peer>>
      BY <1>2 DEF ConnectFails, connection
    <2> QED BY <1>0, <2>1, QuietType DEF FrameType
  <1>3. CASE LoadToken
    <2>1. UNCHANGED <<requests, retries, ids, mixed, linked, dead, inbox, peer>> /\ call.phase = "token"
          /\ token' \in {token, tokenFile} /\ peer # NoKernel
      BY <1>0, <1>3 DEF LoadToken, CallOk
    <2>2. token' \in Kernel \cup {NoKernel}
      BY <1>0, <2>1 DEF FrameType, KernelInv
    <2>3. CASE Ends("failed")
      BY <1>0, <2>1, <2>2, <2>3, QuietType
    <2>4. CASE Goes(IF call.method = "frame" THEN "wait" ELSE "send")
      <3>1. /\ call'.no = call.no /\ call'.method = call.method /\ UNCHANGED log
            /\ call'.phase = IF call.method = "frame" THEN "wait" ELSE "send"
        BY <1>0, <2>4 DEF Goes, Calls
      <3>2. call'.phase = "send" => call.no # 0
        BY <1>0, <2>1, <3>1 DEF CallOk
      <3> QED BY <1>0, <2>1, <2>2, <3>1, <3>2, QuietType
    <2> QED BY <1>3, <2>3, <2>4 DEF LoadToken
  <1>4. CASE SendRequest
    BY <1>4, SendType
  <1>5. CASE SkipEvent
    <2>1. inbox' \in Seq(Frames)
      BY <1>0, <1>5, TailIs DEF SkipEvent, Arrived
    <2> QED BY <1>0, <1>5, <2>1, QuietType DEF SkipEvent, Arrived, connection, FrameType, CallOk
  <1>6. CASE TakeFrame
    <2>1. inbox' \in Seq(Frames) /\ Ends("answered")
          /\ UNCHANGED <<requests, retries, ids, mixed, linked, dead, token, peer>>
      BY <1>0, <1>6, TailIs DEF TakeFrame, Arrived, connection
    <2> QED BY <1>0, <2>1, QuietType DEF FrameType
  <1>7. CASE TakeAnswer
    <2>1. Tail(inbox) \in Seq(Frames) /\ call.phase = "wait" /\ UNCHANGED <<retries, ids, mixed>>
      BY <1>0, <1>7, TailIs DEF TakeAnswer, Arrived
    <2>2. CASE TransportError(Tail(inbox))
      BY <2>1, <2>2, TransportErrorType
    <2>3. CASE /\ Ends("refused") \/ Ends("answered")
               /\ inbox' = Tail(inbox) /\ UNCHANGED <<connection, requests, dead>>
      <3>1. UNCHANGED <<requests, retries, ids, mixed, linked, dead, token, peer>>
            /\ token' \in Kernel \cup {NoKernel} /\ inbox' \in Seq(Frames)
        BY <1>0, <2>1, <2>3 DEF connection, FrameType
      <3> QED BY <2>3, <3>1, QuietType
    <2> QED BY <1>7, <2>2, <2>3 DEF TakeAnswer
  <1>8. CASE RefreshToken
    <2>1. Tail(inbox) \in Seq(Frames) /\ inbox' = Tail(inbox) /\ call.phase = "wait" /\ call.no # 0
          /\ UNCHANGED <<requests, retries, ids, mixed, linked, dead, peer>>
          /\ token' \in {token, tokenFile} /\ peer # NoKernel
      BY <1>0, <1>8, TailIs DEF RefreshToken, Arrived, CallOk
    <2>2. token' \in Kernel \cup {NoKernel}
      BY <1>0, <2>1 DEF FrameType, KernelInv
    <2>3. CASE Ends("failed")
      BY <1>0, <2>1, <2>2, <2>3, QuietType
    <2>4. CASE call' = [call EXCEPT !.refreshed = TRUE, !.phase = "send"] /\ UNCHANGED log
      <3>1. call'.no = call.no /\ call'.method = call.method /\ call'.phase = "send"
        BY <1>0, <2>4 DEF Calls
      <3> QED BY <1>0, <2>1, <2>2, <2>4, <3>1, QuietType
    <2> QED BY <1>8, <2>3, <2>4 DEF RefreshToken
  <1>9. CASE HearNothing
    BY <1>0, <1>9, TransportErrorType, NothingIs DEF HearNothing
  <1> QED BY <1>1, <1>2, <1>3, <1>4, <1>5, <1>6, <1>7, <1>8, <1>9 DEF ClientStep

LEMMA BeginIs ==
    ASSUME TypeInv, NEW m \in Method, Begin(m)
    PROVE  \E c \in Call :
             /\ call.no = 0 /\ log[c].end = "new" /\ call'.no = c /\ call'.method = m
             /\ call'.phase \in {"open", "send"} /\ call'.tries = 0 /\ ~call'.refreshed
             /\ call'.phase = "send" => peer # NoKernel
             /\ log' \in [Call -> Entries]
             /\ \A b \in Call : /\ log'[b].end = (IF b = c THEN "open" ELSE log[b].end)
                                /\ log'[b].method = (IF b = c THEN m ELSE log[b].method)
                                /\ log'[b].runs = log[b].runs
  <1>1. PICK c \in Call :
          /\ log[c].end = "new"
          /\ call' = [no |-> c, method |-> m, tries |-> 0, refreshed |-> FALSE,
                      phase |-> IF peer = NoKernel \/ token = NoKernel THEN "open" ELSE "send"]
          /\ log' = [log EXCEPT ![c].method = m, ![c].end = "open"]
    BY DEF Begin
  <1>2. log \in [Call -> Entries] /\ call.no = 0
    BY DEF TypeInv, FrameType, Begin, Idle
  <1>3. log' \in [Call -> Entries]
        /\ \A b \in Call : /\ log'[b].end = (IF b = c THEN "open" ELSE log[b].end)
                           /\ log'[b].method = (IF b = c THEN m ELSE log[b].method)
                           /\ log'[b].runs = log[b].runs
    BY <1>1, <1>2 DEF Entries
  <1> QED BY <1>1, <1>2, <1>3

LEMMA OtherStepType ==
    ASSUME TypeInv, [Next]_vars, ~ClientStep
    PROVE  FrameType' /\ CallOk'
  <1>0. /\ call \in Calls /\ FrameType /\ CallOk
        /\ requests \subseteq Wire /\ inbox \in Seq(Frames) /\ log \in [Call -> Entries]
    BY DEF TypeInv, ClientInv, LinkInv, FrameType
  <1>1. CASE \E m \in Method : Begin(m)
    <2> PICK m \in Method : Begin(m)
      BY <1>1
    <2>1. PICK c \in Call :
            /\ call.no = 0 /\ call'.no = c /\ call'.method = m
            /\ call'.phase \in {"open", "send"}
            /\ call'.phase = "send" => peer # NoKernel
            /\ log' \in [Call -> Entries]
            /\ \A b \in Call : /\ log'[b].end = (IF b = c THEN "open" ELSE log[b].end)
                               /\ log'[b].method = (IF b = c THEN m ELSE log[b].method)
      BY BeginIs
    <2>2. UNCHANGED <<retries, linked, token, peer, inbox, requests, dead, ids, mixed>>
      BY DEF Begin, connection
    <2>3. FrameType'
      BY <1>0, <2>1, <2>2 DEF FrameType
    <2>4. CallOk'
      BY <1>0, <2>1, <2>2 DEF CallOk, Call
    <2> QED BY <2>3, <2>4
  <1>2. CASE ReadFrame
    <2>1. /\ call'.no = 0 /\ call'.method = "frame" /\ call.no = 0
          /\ call'.phase \in {"open", "wait"} /\ (call'.phase = "wait" => peer # NoKernel)
          /\ UNCHANGED <<retries, connection, inbox, requests, log, dead, ids, mixed>>
      BY <1>2 DEF ReadFrame, Idle
    <2>2. FrameType'
      BY <1>0, <2>1 DEF FrameType, connection
    <2>3. CallOk'
      BY <1>0, <2>1 DEF CallOk, connection
    <2> QED BY <2>2, <2>3
  <1>3. CASE UNCHANGED clientVars
    BY <1>0, <1>3 DEF clientVars, connection, FrameType, CallOk
  <1>4. CASE RefuseUnsent
    <2>1. Ends("failed") /\ UNCHANGED <<requests, retries, ids, mixed, linked, dead, token, inbox, peer>>
      BY <1>4 DEF RefuseUnsent, connection
    <2> QED BY <1>0, <2>1, QuietType DEF FrameType
  <1>5. ASSUME NEW r \in requests, Execute(r)
        PROVE  FrameType' /\ CallOk'
    <2> DEFINE n == log[r.no].runs + 1
               d == [r EXCEPT !.done = TRUE]
    <2>1. r \in Wire /\ r.no \in Call
      BY <1>0 DEF Wire
    <2>2. n \in Nat /\ log' = [log EXCEPT ![r.no].runs = n]
      BY <1>0, <1>5, <2>1 DEF Execute, Entries
    <2> HIDE DEF n
    <2>3. log' \in [Call -> Entries]
          /\ \A c \in Call : log'[c].end = log[c].end /\ log'[c].method = log[c].method
      BY <1>0, <2>1, <2>2 DEF Entries
    <2>4. d \in Wire /\ requests' = (requests \ {r}) \cup {d}
      BY <1>5, <2>1 DEF Execute, Wire
    <2>5. UNCHANGED <<retries, connection, call, inbox, dead, ids, mixed>>
      BY <1>5 DEF Execute
    <2> HIDE DEF d
    <2>6. FrameType'
      BY <1>0, <2>3, <2>4, <2>5 DEF FrameType, connection
    <2>7. CallOk'
      BY <1>0, <2>3, <2>5, NumberIs DEF CallOk, connection
    <2> QED BY <2>6, <2>7
  <1>6. ASSUME NEW r \in requests, Reply(r)
        PROVE  FrameType' /\ CallOk'
    <2> DEFINE f == [no |-> r.no, status |-> IF r.done THEN "ok" ELSE "denied"]
    <2>1. f \in Frames
      BY <1>0 DEF Frames, Wire
    <2>2. inbox' \in {inbox, Append(inbox, f)} /\ requests' \subseteq requests
          /\ UNCHANGED <<retries, connection, call, log, dead, ids, mixed>>
      BY <1>6 DEF Reply
    <2> HIDE DEF f
    <2>3. inbox' \in Seq(Frames)
      BY <1>0, <2>1, <2>2
    <2> QED BY <1>0, <2>2, <2>3 DEF FrameType, CallOk, connection
  <1>7. CASE Emit
    <2>1. Event \in Frames
      BY DEF Frames
    <2>2. inbox' \in Seq(Frames)
          /\ UNCHANGED <<retries, connection, call, requests, log, dead, ids, mixed>>
      BY <1>0, <1>7, <2>1 DEF Emit
    <2> QED BY <1>0, <2>2 DEF FrameType, CallOk, connection
  <1>8. ASSUME NEW n \in Kernel, Gone(n)
        PROVE  FrameType' /\ CallOk'
    <2>1. linked' \in BOOLEAN
      BY <1>8, Zenon DEF Gone
    <2> QED BY <1>0, <1>8, <2>1 DEF Gone, FrameType, CallOk
  <1> QED BY <1>1, <1>2, <1>3, <1>4, <1>5, <1>6, <1>7, <1>8
          DEF Next, KernelStep, EnsureSocket, vars

LEMMA TypeKeeps ==
    ASSUME TypeInv, [Next]_vars
    PROVE  TypeInv'
  BY NextKeeps, ClientStepType, OtherStepType DEF TypeInv

LEMMA TypeStart == Init => TypeInv
  <1> SUFFICES ASSUME Init PROVE TypeInv
    OBVIOUS
  <1>1. ClientInv
    BY KernelStart, IdleIs DEF Init, ClientInv, LinkInv, TokenFitsConnection
  <1>2. FrameType
    BY NothingIs DEF Init, FrameType, Entries, Unmade
  <1>3. CallOk
    BY DEF Init, CallOk, Idle, Unmade
  <1> QED BY <1>1, <1>2, <1>3 DEF TypeInv

\* Every variable keeps its type, a connection that stands leads to a kernel
\* that is up, and a call sends and waits only on a connection.
THEOREM TypeCorrect == Spec => []TypeOK
  BY TypeStart, TypeKeeps, TypeIs, PTL DEF Spec

-----------------------------------------------------------------------------
(* Frames.                                                                 *)

HasRequest(c) == \E r \in requests : r.mine /\ r.no = c
HasFrame(c) == \E i \in DOMAIN inbox : inbox[i].no = c

\* Nothing of the call is to come on the connection, and one frame at most.
Silent(c) == ~HasRequest(c) /\ ~HasFrame(c)
Single(c) ==
    /\ \A r, q \in requests : r.mine /\ q.mine /\ r.no = c /\ q.no = c => r = q
    /\ \A i, j \in DOMAIN inbox : inbox[i].no = c /\ inbox[j].no = c => i = j
    /\ ~(HasRequest(c) /\ HasFrame(c))

\* A call waits for one frame at most, and leaves one behind only when it fails,
\* unless it is mixed up with one that has failed; while it waits, no other
\* frame with its id is to come.
FramesInv ==
    /\ \A c \in Call :
         log[c].end \in {"new", "answered", "refused"} => Silent(c) \/ c \in mixed
    /\ call.no # 0 /\ call.no \notin mixed =>
         /\ Single(call.no) /\ (call.phase # "wait" => Silent(call.no))
         /\ call.phase = "wait" =>
              \A c \in Call \ {call.no} : ids[c] = ids[call.no] => Silent(c)
    /\ \A c \in mixed :
         /\ log[c].end # "new"
         /\ \E b \in Call \ {c} : ids[b] = ids[c] /\ log[b].end = "failed"
    /\ \A r \in requests : log[r.no].end # "new"

LEMMA TailFrames ==
    ASSUME inbox \in Seq(Frames), inbox # <<>>, inbox' = Tail(inbox), NEW c
    PROVE  /\ HasFrame(c)' => HasFrame(c)
           /\ (\A i, j \in DOMAIN inbox : inbox[i].no = c /\ inbox[j].no = c => i = j)
                => /\ \A i, j \in DOMAIN inbox' :
                        inbox'[i].no = c /\ inbox'[j].no = c => i = j
                   /\ Head(inbox).no = c => ~HasFrame(c)'
  <1>1. /\ Head(inbox) = inbox[1] /\ 1 \in DOMAIN inbox
        /\ \A i \in DOMAIN inbox' : i + 1 \in DOMAIN inbox /\ inbox'[i] = inbox[i + 1] /\ i \in Nat
                                    /\ i # 0
    BY TailIs
  <1>2. HasFrame(c)' => HasFrame(c)
    BY <1>1 DEF HasFrame
  <1>3. ASSUME \A i, j \in DOMAIN inbox : inbox[i].no = c /\ inbox[j].no = c => i = j,
               NEW i \in DOMAIN inbox', NEW j \in DOMAIN inbox',
               inbox'[i].no = c, inbox'[j].no = c
        PROVE  i = j
    <2>1. i + 1 = j + 1
      BY <1>1, <1>3
    <2> QED BY <1>1, <2>1
  <1>4. ASSUME \A i, j \in DOMAIN inbox : inbox[i].no = c /\ inbox[j].no = c => i = j,
               Head(inbox).no = c, NEW i \in DOMAIN inbox', inbox'[i].no = c
        PROVE  FALSE
    <2>1. i + 1 = 1
      BY <1>1, <1>4
    <2> QED BY <1>1, <2>1
  <1> QED BY <1>2, <1>3, <1>4 DEF HasFrame

\* Frames and requests of the connection get fewer.
LEMMA Fewer ==
    ASSUME TypeInv, NEW c,
           \/ inbox' \in {inbox, <<>>}
           \/ inbox # <<>> /\ inbox' = Tail(inbox),
           \A r \in requests' : r.mine => r \in requests
    PROVE  (Silent(c) => Silent(c)') /\ (Single(c) => Single(c)')
  <1>1. inbox \in Seq(Frames)
    BY DEF TypeInv, FrameType
  <1>2. HasRequest(c)' => HasRequest(c)
    BY DEF HasRequest
  <1>3. /\ HasFrame(c)' => HasFrame(c)
        /\ (\A i, j \in DOMAIN inbox : inbox[i].no = c /\ inbox[j].no = c => i = j)
             => \A i, j \in DOMAIN inbox' : inbox'[i].no = c /\ inbox'[j].no = c => i = j
    <2>1. CASE inbox' = inbox
      BY <2>1 DEF HasFrame
    <2>2. CASE inbox' = <<>>
      BY <2>2 DEF HasFrame
    <2>3. CASE inbox # <<>> /\ inbox' = Tail(inbox)
      BY <1>1, <2>3, TailFrames
    <2> QED BY <2>1, <2>2, <2>3
  <1> QED BY <1>2, <1>3 DEF Silent, Single

LEMMA SilentIsSingle ==
    ASSUME NEW c, Silent(c)
    PROVE  Single(c)
  BY DEF Silent, Single, HasRequest, HasFrame

\* The call ends, or goes on with the number it has.
LEMMA FramesStep ==
    ASSUME TypeInv, FramesInv, UNCHANGED <<ids, mixed>>,
           \A c \in Call : (Silent(c) => Silent(c)') /\ (Single(c) => Single(c)'),
           \A r \in requests' : \E q \in requests : q.no = r.no,
           \/ \E how \in {"answered", "refused", "failed"} :
                /\ Ends(how)
                /\ how # "failed" => \A c \in Call : c = call.no => Silent(c)' \/ c \in mixed
           \/ /\ \A c \in Call : log'[c].end = log[c].end
              /\ call'.no = call.no
              /\ call'.phase # "wait" => \A c \in Call : c = call.no => Silent(c)' \/ c \in mixed
              /\ call.no # 0 /\ call'.phase = "wait" => call.phase = "wait"
    PROVE  FramesInv'
  <1>0. /\ call \in Calls /\ CallOk /\ requests \subseteq Wire /\ mixed \subseteq Call
        /\ 0 \notin Call
    BY DEF TypeInv, ClientInv, LinkInv, FrameType, Call
  <1>1. \A r \in requests' : r.no \in Call /\ log[r.no].end # "new"
    BY <1>0 DEF Wire, FramesInv
  <1>2. CASE \E how \in {"answered", "refused", "failed"} :
               /\ Ends(how)
               /\ how # "failed" => \A c \in Call : c = call.no => Silent(c)' \/ c \in mixed
    <2> PICK how \in {"answered", "refused", "failed"} :
               /\ Ends(how)
               /\ how # "failed" => \A c \in Call : c = call.no => Silent(c)' \/ c \in mixed
      BY <1>2
    <2>1. /\ call'.no = 0
          /\ \A c \in Call : log'[c].end = (IF c = call.no THEN how ELSE log[c].end)
      BY EndKeepsLog
    <2>2. \A c \in Call : c = call.no => log[c].end = "open"
      BY <1>0 DEF CallOk
    <2>3. \A c \in Call :
            log'[c].end \in {"new", "answered", "refused"} => Silent(c)' \/ c \in mixed'
      BY <2>1 DEF FramesInv
    <2>4. \A c \in mixed' :
            /\ log'[c].end # "new"
            /\ \E b \in Call \ {c} : ids'[b] = ids'[c] /\ log'[b].end = "failed"
      BY <1>0, <2>1, <2>2 DEF FramesInv
    <2>5. \A r \in requests' : log'[r.no].end # "new"
      BY <1>1, <2>1
    <2> QED BY <2>1, <2>3, <2>4, <2>5 DEF FramesInv
  <1>3. CASE /\ \A c \in Call : log'[c].end = log[c].end
             /\ call'.no = call.no
             /\ call'.phase # "wait" => \A c \in Call : c = call.no => Silent(c)' \/ c \in mixed
             /\ call.no # 0 /\ call'.phase = "wait" => call.phase = "wait"
    <2>1. \A c \in Call :
            log'[c].end \in {"new", "answered", "refused"} => Silent(c)' \/ c \in mixed'
      BY <1>3 DEF FramesInv
    <2>2. \A n \in Call : n = call.no /\ n \notin mixed =>
            /\ Single(n)' /\ (call'.phase # "wait" => Silent(n)')
            /\ call'.phase = "wait" => \A c \in Call \ {n} : ids[c] = ids[n] => Silent(c)'
      BY <1>0, <1>3 DEF FramesInv
    <2>3. \A c \in mixed' :
            /\ log'[c].end # "new"
            /\ \E b \in Call \ {c} : ids'[b] = ids'[c] /\ log'[b].end = "failed"
      BY <1>0, <1>3 DEF FramesInv
    <2>4. \A r \in requests' : log'[r.no].end # "new"
      BY <1>1, <1>3
    <2>5. call'.no # 0 => call.no \in Call /\ call'.no = call.no
      BY <1>0, <1>3, NumberIs
    <2> QED BY <2>1, <2>2, <2>3, <2>4, <2>5 DEF FramesInv
  <1> QED BY <1>2, <1>3

LEMMA TransportErrorFrames ==
    ASSUME TypeInv, FramesInv, UNCHANGED <<ids, mixed>>, NEW rest, TransportError(rest),
           rest \in {inbox, <<>>} \/ (inbox # <<>> /\ rest = Tail(inbox))
    PROVE  FramesInv'
  <1>0. call \in Calls /\ requests \subseteq Wire
    BY DEF TypeInv, ClientInv, LinkInv, FrameType
  <1>1. CASE Reopens
    <2>1. inbox' = <<>> /\ requests' = Orphaned /\ UNCHANGED log
      BY <1>1 DEF Reopens
    <2>2. \A r \in requests' : ~r.mine /\ \E q \in requests : q.no = r.no
      <3>1. \A q \in requests : [q EXCEPT !.mine = FALSE].no = q.no
        BY <1>0 DEF Wire
      <3> QED BY <1>0, <2>1, <3>1, OrphanedIs
    <2>3. \A c : Silent(c)'
      BY <2>1, <2>2 DEF Silent, HasRequest, HasFrame
    <2>4. call'.no = call.no /\ call'.phase = "open"
      BY <1>0, <1>1, ReopensIs
    <2>5. \A c \in Call : (Silent(c) => Silent(c)') /\ (Single(c) => Single(c)')
      BY <2>1, <2>2, Fewer
    <2> QED BY <2>1, <2>2, <2>3, <2>4, <2>5, FramesStep
  <1>2. CASE Ends("failed") /\ inbox' = rest /\ UNCHANGED <<connection, requests>>
    <2>1. \A c \in Call : (Silent(c) => Silent(c)') /\ (Single(c) => Single(c)')
      BY <1>2, Fewer
    <2> QED BY <1>2, <2>1, FramesStep
  <1> QED BY <1>1, <1>2, TransportErrorIs

\* A step that leaves frames and requests alone.
LEMMA QuietFrames ==
    ASSUME TypeInv, FramesInv, UNCHANGED <<inbox, requests, ids, mixed>>,
           \/ Ends("failed")
           \/ /\ UNCHANGED log /\ call'.no = call.no
              /\ call.no # 0 => (call'.phase = "wait" <=> call.phase = "wait")
    PROVE  FramesInv'
  <1>1. \A c : (Silent(c) <=> Silent(c)') /\ (Single(c) <=> Single(c)')
    BY DEF Silent, Single, HasRequest, HasFrame
  <1>2. CASE Ends("failed")
    BY <1>1, <1>2, FramesStep
  <1>3. CASE /\ UNCHANGED log /\ call'.no = call.no
             /\ call.no # 0 => (call'.phase = "wait" <=> call.phase = "wait")
    <2>1. call'.phase # "wait" => \A c \in Call : c = call.no => Silent(c)' \/ c \in mixed
      BY <1>1, <1>3 DEF FramesInv, Call
    <2> QED BY <1>1, <1>3, <2>1, FramesStep
  <1> QED BY <1>2, <1>3

\* Unless the ids were mixed up, a frame that matches is that of the call.
LEMMA MatchIsOwn ==
    ASSUME TypeInv, FramesInv, inbox # <<>>, call.phase = "wait", call.no # 0,
           call.no \notin mixed, Head(inbox) # Event, Matches(Head(inbox))
    PROVE  call.no \in Call /\ Head(inbox).no = call.no
  <1>1. call \in Calls /\ inbox \in Seq(Frames)
    BY DEF TypeInv, ClientInv, LinkInv, FrameType
  <1>2. /\ Head(inbox) \in Frames /\ Head(inbox) = inbox[1] /\ 1 \in DOMAIN inbox
        /\ call.no \in Call
    BY <1>1, TailIs, NumberIs
  <1> DEFINE n == Head(inbox).no
  <1>3. n \in Call /\ ids[n] = ids[call.no]
    BY <1>2 DEF Frames, Matches
  <1>4. HasFrame(n)
    BY <1>2 DEF HasFrame
  <1> HIDE DEF n
  <1>5. n = call.no
    BY <1>3, <1>4 DEF FramesInv, Silent
  <1> QED BY <1>2, <1>5 DEF n

\* The frame of the call was the one that is taken.
LEMMA TakenFrame ==
    ASSUME TypeInv, FramesInv, inbox # <<>>, inbox' = Tail(inbox), UNCHANGED requests,
           NEW n \in Call, n = call.no, n \notin mixed, Head(inbox).no = n
    PROVE  Silent(n)'
  <1>1. inbox \in Seq(Frames) /\ Single(n)
    BY DEF TypeInv, FrameType, FramesInv, Call
  <1>2. HasFrame(n)
    <2>1. Head(inbox) = inbox[1] /\ 1 \in DOMAIN inbox
      BY <1>1, TailIs
    <2> QED BY <2>1 DEF HasFrame
  <1>3. ~HasRequest(n)'
    BY <1>1, <1>2 DEF Single, HasRequest
  <1>4. ~HasFrame(n)'
    BY <1>1, TailFrames DEF Single
  <1> QED BY <1>3, <1>4 DEF Silent

LEMMA SendFrames ==
    ASSUME TypeInv, FramesInv, SendRequest
    PROVE  FramesInv'
  <1>0. call \in Calls /\ CallOk /\ requests \subseteq Wire /\ call.phase = "send" /\ call.no # 0
    BY DEF TypeInv, ClientInv, LinkInv, FrameType, SendRequest, CallOk
  <1>1. CASE linked
    <2> DEFINE r == [no |-> call.no, method |-> call.method, try |-> call.tries,
                     again |-> call.refreshed, at |-> peer, token |-> token,
                     mine |-> TRUE, done |-> FALSE]
    <2>1. requests' = requests \cup {r} /\ Goes("wait") /\ UNCHANGED <<inbox, log>> /\ r.no = call.no
      BY <1>1 DEF SendRequest, Goes
    <2> HIDE DEF r
    <2>2. call'.no = call.no /\ call'.phase = "wait"
      BY <1>0, <2>1 DEF Goes, Calls
    <2>3. call.no \in Call /\ log[call.no].end = "open" /\ (call.no \notin mixed => Silent(call.no))
      BY <1>0, NumberIs DEF FramesInv, CallOk
    <2>4. \A c \in Call : Awaited(c) <=> ~Silent(c)
      BY DEF Awaited, Mine, Silent, HasRequest, HasFrame
    <2>5. /\ mixed \subseteq mixed' /\ mixed' \subseteq mixed \cup {call.no} /\ UNCHANGED ids
          /\ call.no \notin mixed' =>
               \A c \in Call \ {call.no} : ids[c] = ids[call.no] => Silent(c)
      BY <1>1, <2>3, <2>4 DEF SendRequest
    <2>6. \A c \in Call : c # call.no /\ Silent(c) => Silent(c)'
      BY <2>1 DEF Silent, HasRequest, HasFrame
    <2>7. \A c \in Call :
            log'[c].end \in {"new", "answered", "refused"} => Silent(c)' \/ c \in mixed'
      BY <2>1, <2>3, <2>5, <2>6 DEF FramesInv
    <2>8. \A n \in Call : n = call.no /\ n \notin mixed' =>
            Single(n)' /\ \A c \in Call \ {n} : ids[c] = ids[n] => Silent(c)'
      <3> SUFFICES ASSUME NEW n \in Call, n = call.no, n \notin mixed'
                   PROVE  Single(n)' /\ \A c \in Call \ {n} : ids[c] = ids[n] => Silent(c)'
        OBVIOUS
      <3>1. Silent(n)
        BY <2>3, <2>5
      <3>2. Single(n)'
        BY <2>1, <3>1 DEF Silent, Single, HasRequest, HasFrame
      <3> QED BY <2>5, <2>6, <3>2
    <2>9. ASSUME NEW c \in mixed'
          PROVE  /\ log'[c].end # "new"
                 /\ \E b \in Call \ {c} : ids'[b] = ids'[c] /\ log'[b].end = "failed"
      <3>1. CASE c \in mixed
        BY <2>1, <2>5, <3>1 DEF FramesInv
      <3>2. CASE c \notin mixed
        <4>1. c = call.no
          BY <2>5, <2>9, <3>2
        <4>2. PICK d \in Call \ {call.no} : ids[d] = ids[call.no] /\ ~Silent(d)
          BY <1>1, <2>4, <2>9, <3>2, <4>1 DEF SendRequest
        <4>3. log[d].end \in {"new", "open", "answered", "refused", "failed"}
          BY DEF TypeInv, FrameType, Entries
        <4>4. log[d].end = "failed" \/ d \in mixed
          BY <1>0, <4>2, <4>3 DEF FramesInv, CallOk
        <4>5. CASE log[d].end = "failed"
          BY <2>1, <2>3, <2>5, <4>1, <4>2, <4>5
        <4>6. CASE d \in mixed
          <5>1. PICK b \in Call \ {d} : ids[b] = ids[d] /\ log[b].end = "failed"
            BY <4>6 DEF FramesInv
          <5>2. b # call.no
            BY <2>3, <5>1
          <5> QED BY <2>1, <2>3, <2>5, <4>1, <4>2, <5>1, <5>2
        <4> QED BY <4>4, <4>5, <4>6
      <3> QED BY <3>1, <3>2
    <2>10. \A q \in requests' : log'[q.no].end # "new"
      BY <2>1, <2>3 DEF FramesInv
    <2> QED BY <2>2, <2>3, <2>5, <2>7, <2>8, <2>9, <2>10 DEF FramesInv
  <1>2. CASE ~linked
    BY <1>2, TransportErrorFrames DEF SendRequest
  <1> QED BY <1>1, <1>2

LEMMA ClientStepFrames ==
    ASSUME TypeInv, FramesInv, ClientStep
    PROVE  FramesInv'
  <1>0. call \in Calls /\ CallOk /\ requests \subseteq Wire
    BY DEF TypeInv, ClientInv, LinkInv, FrameType
  <1>1. CASE Connect
    <2>1. /\ inbox' = <<>> /\ requests' = Orphaned /\ Goes("token") /\ UNCHANGED <<log, ids, mixed>>
      BY <1>1 DEF Connect, Goes
    <2>2. \A r \in requests' : ~r.mine /\ \E q \in requests : q.no = r.no
      <3>1. \A q \in requests : [q EXCEPT !.mine = FALSE].no = q.no
        BY <1>0 DEF Wire
      <3> QED BY <1>0, <2>1, <3>1, OrphanedIs
    <2>3. \A c : Silent(c)'
      BY <2>1, <2>2 DEF Silent, HasRequest, HasFrame
    <2>4. call'.no = call.no /\ call'.phase = "token"
      BY <1>0, <2>1 DEF Goes, Calls
    <2>5. \A c \in Call : (Silent(c) => Silent(c)') /\ (Single(c) => Single(c)')
      BY <2>1, <2>2, Fewer
    <2> QED BY <2>1, <2>2, <2>3, <2>4, <2>5, FramesStep
  <1>2. CASE ConnectFails
    BY <1>2, QuietFrames DEF ConnectFails
  <1>3. CASE LoadToken
    <2>1. UNCHANGED <<inbox, requests, ids, mixed>> /\ call.phase = "token"
      BY <1>3 DEF LoadToken
    <2>2. CASE Goes(IF call.method = "frame" THEN "wait" ELSE "send")
      <3>1. UNCHANGED log /\ call'.no = call.no /\ (call.no # 0 => call'.phase # "wait")
        BY <1>0, <2>2 DEF Goes, Calls, CallOk, Method
      <3> QED BY <2>1, <3>1, QuietFrames
    <2> QED BY <1>3, <2>1, <2>2, QuietFrames DEF LoadToken
  <1>4. CASE SendRequest
    BY <1>4, SendFrames
  <1>5. CASE SkipEvent
    <2>1. /\ inbox # <<>> /\ inbox' = Tail(inbox) /\ UNCHANGED <<call, requests, log, ids, mixed>>
          /\ call.phase = "wait"
      BY <1>5 DEF SkipEvent, Arrived
    <2>2. \A c \in Call : (Silent(c) => Silent(c)') /\ (Single(c) => Single(c)')
      BY <2>1, Fewer
    <2> QED BY <2>1, <2>2, FramesStep
  <1>6. CASE TakeFrame
    <2>1. /\ inbox # <<>> /\ inbox' = Tail(inbox) /\ UNCHANGED <<requests, ids, mixed>>
          /\ Ends("answered") /\ call.no = 0
      BY <1>6 DEF TakeFrame, Arrived
    <2>2. \A c \in Call : (Silent(c) => Silent(c)') /\ (Single(c) => Single(c)')
      BY <2>1, Fewer
    <2>3. \A c \in Call : c # call.no
      BY <2>1 DEF Call
    <2> QED BY <2>1, <2>2, <2>3, FramesStep
  <1>7. CASE TakeAnswer
    <2>1. inbox # <<>> /\ call.no # 0 /\ UNCHANGED <<ids, mixed>> /\ call.phase = "wait"
      BY <1>7 DEF TakeAnswer, Arrived
    <2>2. CASE TransportError(Tail(inbox))
      BY <2>1, <2>2, TransportErrorFrames
    <2>3. CASE /\ Matches(Head(inbox)) /\ Head(inbox) # Event
               /\ inbox' = Tail(inbox) /\ UNCHANGED requests
               /\ Ends("refused") \/ Ends("answered")
      <3>1. \A c \in Call : (Silent(c) => Silent(c)') /\ (Single(c) => Single(c)')
        BY <2>1, <2>3, Fewer
      <3>2. \A c \in Call : c = call.no => Silent(c)' \/ c \in mixed
        BY <2>1, <2>3, MatchIsOwn, TakenFrame
      <3> QED BY <2>1, <2>3, <3>1, <3>2, FramesStep
    <2> QED BY <1>7, <2>2, <2>3 DEF TakeAnswer
  <1>8. CASE RefreshToken
    <2>1. /\ inbox # <<>> /\ inbox' = Tail(inbox) /\ UNCHANGED <<requests, ids, mixed>>
          /\ call.no # 0 /\ call.phase = "wait" /\ Matches(Head(inbox)) /\ Head(inbox) # Event
      BY <1>8 DEF RefreshToken, Arrived
    <2>2. /\ \A c \in Call : (Silent(c) => Silent(c)') /\ (Single(c) => Single(c)')
          /\ \A c \in Call : c = call.no => Silent(c)' \/ c \in mixed
      BY <2>1, MatchIsOwn, TakenFrame, Fewer
    <2>3. CASE Ends("failed")
      BY <2>1, <2>2, <2>3, FramesStep
    <2>4. CASE call' = [call EXCEPT !.refreshed = TRUE, !.phase = "send"] /\ UNCHANGED log
      <3>1. call'.no = call.no /\ call'.phase = "send"
        BY <1>0, <2>4 DEF Calls
      <3> QED BY <2>1, <2>2, <2>4, <3>1, FramesStep
    <2> QED BY <1>8, <2>3, <2>4 DEF RefreshToken
  <1>9. CASE HearNothing
    BY <1>9, TransportErrorFrames DEF HearNothing
  <1> QED BY <1>1, <1>2, <1>3, <1>4, <1>5, <1>6, <1>7, <1>8, <1>9 DEF ClientStep

LEMMA ExecuteFrames ==
    ASSUME TypeInv, FramesInv, NEW r \in requests, Execute(r)
    PROVE  FramesInv'
  <1> DEFINE n == log[r.no].runs + 1
             d == [r EXCEPT !.done = TRUE]
  <1>0. requests \subseteq Wire /\ log \in [Call -> Entries] /\ r.no \in Call /\ call \in Calls
    BY DEF TypeInv, ClientInv, LinkInv, FrameType, Wire
  <1>1. /\ requests' = (requests \ {r}) \cup {d} /\ UNCHANGED <<call, inbox, ids, mixed>>
        /\ d.mine = r.mine /\ d.no = r.no
    BY <1>0 DEF Execute, Wire
  <1>2. \A c \in Call : log'[c].end = log[c].end
    <2>1. log' = [log EXCEPT ![r.no].runs = n]
      BY DEF Execute
    <2> HIDE DEF n
    <2> QED BY <1>0, <2>1 DEF Entries
  <1> HIDE DEF d
  <1>3. \A c \in Call : (Silent(c) => Silent(c)') /\ (Single(c) => Single(c)')
    <2> SUFFICES ASSUME NEW c \in Call
                 PROVE  (Silent(c) => Silent(c)') /\ (Single(c) => Single(c)')
      OBVIOUS
    <2>1. HasRequest(c)' <=> HasRequest(c)
      BY <1>1 DEF HasRequest
    <2>2. HasFrame(c)' <=> HasFrame(c)
      BY <1>1 DEF HasFrame
    <2>3. Single(c) => Single(c)'
      BY <1>1, <2>1, <2>2 DEF Single
    <2> QED BY <2>1, <2>2, <2>3 DEF Silent
  <1>4. \A q \in requests' : \E p \in requests : p.no = q.no
    BY <1>1
  <1>5. call'.phase # "wait" => \A c \in Call : c = call.no => Silent(c)' \/ c \in mixed
    BY <1>1, <1>3 DEF FramesInv, Call
  <1> QED BY <1>1, <1>2, <1>3, <1>4, <1>5, FramesStep

LEMMA AppendIs ==
    ASSUME NEW S, NEW q \in Seq(S), NEW f \in S
    PROVE  /\ DOMAIN Append(q, f) = DOMAIN q \cup {Len(q) + 1}
           /\ Append(q, f)[Len(q) + 1] = f /\ Len(q) + 1 \notin DOMAIN q
           /\ \A i \in DOMAIN q : Append(q, f)[i] = q[i]
  OBVIOUS

LEMMA ReplyFrames ==
    ASSUME TypeInv, FramesInv, NEW r \in requests, Reply(r)
    PROVE  FramesInv'
  <1> DEFINE f == [no |-> r.no, status |-> IF r.done THEN "ok" ELSE "denied"]
  <1>0. /\ requests \subseteq Wire /\ inbox \in Seq(Frames) /\ call \in Calls
        /\ UNCHANGED <<call, log, ids, mixed>> /\ requests' = requests \ {r}
    BY DEF TypeInv, ClientInv, LinkInv, FrameType, Reply
  <1>1. f \in Frames /\ f.no = r.no
    BY <1>0 DEF Frames, Wire
  <1>2. inbox' = IF r.mine THEN Append(inbox, f) ELSE inbox
    BY DEF Reply
  <1> HIDE DEF f
  <1>3. \A c \in Call : (Silent(c) => Silent(c)') /\ (Single(c) => Single(c)')
    <2>1. CASE ~r.mine
      BY <1>0, <1>2, <2>1, Fewer
    <2>2. CASE r.mine
      <3> SUFFICES ASSUME NEW c \in Call
                   PROVE  (Silent(c) => Silent(c)') /\ (Single(c) => Single(c)')
        OBVIOUS
      <3>1. /\ DOMAIN inbox' = DOMAIN inbox \cup {Len(inbox) + 1}
            /\ inbox'[Len(inbox) + 1] = f
            /\ \A i \in DOMAIN inbox : inbox'[i] = inbox[i]
        BY <1>0, <1>1, <1>2, <2>2, AppendIs
      <3>2. HasFrame(c)' <=> HasFrame(c) \/ r.no = c
        BY <1>1, <3>1 DEF HasFrame
      <3>3. HasRequest(c)' => HasRequest(c)
        BY <1>0 DEF HasRequest
      <3>4. r.no = c => HasRequest(c)
        BY <2>2 DEF HasRequest
      <3>5. Single(c) => Single(c)'
        <4> SUFFICES ASSUME Single(c) PROVE Single(c)'
          OBVIOUS
        <4>1. r.no = c => ~HasFrame(c) /\ ~HasRequest(c)'
          BY <1>0, <2>2, <3>4 DEF Single, HasRequest
        <4>2. \A i, j \in DOMAIN inbox' : inbox'[i].no = c /\ inbox'[j].no = c => i = j
          BY <1>1, <3>1, <4>1 DEF Single, HasFrame
        <4>3. ~(HasRequest(c) /\ HasFrame(c))'
          BY <3>2, <3>3, <4>1 DEF Single
        <4> QED BY <1>0, <4>2, <4>3 DEF Single
      <3> QED BY <3>2, <3>3, <3>4, <3>5 DEF Silent
    <2> QED BY <2>1, <2>2
  <1>4. call'.phase # "wait" => \A c \in Call : c = call.no => Silent(c)' \/ c \in mixed
    BY <1>0, <1>3 DEF FramesInv, Call
  <1> QED BY <1>0, <1>3, <1>4, FramesStep

LEMMA OtherStepFrames ==
    ASSUME TypeInv, FramesInv, [Next]_vars, ~ClientStep
    PROVE  FramesInv'
  <1>0. call \in Calls /\ requests \subseteq Wire /\ inbox \in Seq(Frames)
    BY DEF TypeInv, ClientInv, LinkInv, FrameType
  <1>1. CASE \E m \in Method : Begin(m)
    <2> PICK m \in Method : Begin(m)
      BY <1>1
    <2>1. PICK c \in Call :
            /\ log[c].end = "new" /\ call'.no = c
            /\ \A b \in Call : log'[b].end = (IF b = c THEN "open" ELSE log[b].end)
      BY BeginIs
    <2>2. UNCHANGED <<inbox, requests, ids, mixed>> /\ mixed \subseteq Call
      BY DEF Begin, TypeInv, FrameType
    <2>3. \A b : (Silent(b) <=> Silent(b)') /\ (Single(b) <=> Single(b)')
      BY <2>2 DEF Silent, Single, HasRequest, HasFrame
    <2>4. Silent(c) /\ Single(c) /\ c \notin mixed
      BY <2>1, SilentIsSingle DEF FramesInv
    <2>5. \A r \in requests' : log'[r.no].end # "new"
      BY <1>0, <2>1, <2>2 DEF FramesInv, Wire
    <2>6. \A b \in mixed' :
            /\ log'[b].end # "new"
            /\ \E d \in Call \ {b} : ids'[d] = ids'[b] /\ log'[d].end = "failed"
      BY <2>1, <2>2, <2>4 DEF FramesInv
    <2>7. \A b \in Call :
            log'[b].end \in {"new", "answered", "refused"} => Silent(b)' \/ b \in mixed'
      BY <2>1, <2>2, <2>3 DEF FramesInv
    <2>8. call'.phase # "wait" /\ Silent(call.no)' = Silent(call.no)'
      BY BeginIs
    <2> QED BY <2>1, <2>3, <2>4, <2>5, <2>6, <2>7, <2>8 DEF FramesInv
  <1>2. CASE ReadFrame
    <2>1. call'.no = call.no /\ call.no = 0 /\ UNCHANGED <<inbox, requests, log, ids, mixed>>
      BY <1>2 DEF ReadFrame, Idle
    <2> QED BY <2>1, QuietFrames
  <1>3. CASE UNCHANGED clientVars
    BY <1>3, QuietFrames DEF clientVars
  <1>4. CASE RefuseUnsent
    BY <1>4, QuietFrames DEF RefuseUnsent
  <1>5. CASE Emit
    <2>1. Event \in Frames /\ Event.no = 0
      BY DEF Event, Frames
    <2>2. inbox' = Append(inbox, Event) /\ UNCHANGED <<call, requests, log, ids, mixed>>
      BY <1>5 DEF Emit
    <2> HIDE DEF Event
    <2>3. /\ DOMAIN inbox' = DOMAIN inbox \cup {Len(inbox) + 1}
          /\ inbox'[Len(inbox) + 1].no = 0
          /\ \A i \in DOMAIN inbox : inbox'[i] = inbox[i]
      BY <1>0, <2>1, <2>2, AppendIs
    <2>4. \A c \in Call : (Silent(c) => Silent(c)') /\ (Single(c) => Single(c)')
      BY <2>2, <2>3 DEF Call, Silent, Single, HasRequest, HasFrame
    <2>5. call'.phase # "wait" => \A c \in Call : c = call.no => Silent(c)' \/ c \in mixed
      BY <2>2, <2>4 DEF FramesInv, Call
    <2> QED BY <2>2, <2>4, <2>5, FramesStep
  <1>6. ASSUME NEW n \in Kernel, Gone(n)
        PROVE  FramesInv'
    <2>1. UNCHANGED <<call, inbox, log, ids, mixed>> /\ requests' \subseteq requests
      BY <1>6 DEF Gone
    <2>2. \A c \in Call : (Silent(c) => Silent(c)') /\ (Single(c) => Single(c)')
      BY <2>1, Fewer
    <2>3. call'.phase # "wait" => \A c \in Call : c = call.no => Silent(c)' \/ c \in mixed
      BY <2>1, <2>2 DEF FramesInv, Call
    <2> QED BY <2>1, <2>2, <2>3, FramesStep
  <1> QED BY <1>1, <1>2, <1>3, <1>4, <1>5, <1>6, ExecuteFrames, ReplyFrames
          DEF Next, KernelStep, EnsureSocket, vars

LEMMA FramesKeep ==
    ASSUME TypeInv, FramesInv, [Next]_vars
    PROVE  FramesInv'
  BY ClientStepFrames, OtherStepFrames

LEMMA FramesStart == Init => FramesInv
  BY DEF Init, FramesInv, Silent, HasRequest, HasFrame, Idle

\* A frame of another call that is still to come on the connection is that of a
\* call that failed, or that was mixed up with one that did, whatever ids the
\* calls are given, for any number of calls, retries and kernels.
THEOREM StaleFramesFailed == Spec => []StaleFramesAreAbandoned
  <1>1. ASSUME TypeInv, FramesInv PROVE StaleFramesAreAbandoned
    <2>1. ASSUME NEW c \in Call \ {call.no}, Awaited(c)
          PROVE  log[c].end = "failed" \/ c \in mixed
      <3>1. ~Silent(c)
        BY <2>1 DEF Awaited, Mine, Silent, HasRequest, HasFrame
      <3>2. log[c].end \in {"new", "open", "answered", "refused", "failed"}
        BY <1>1 DEF TypeInv, FrameType, Entries
      <3> QED BY <1>1, <3>1, <3>2 DEF FramesInv, TypeInv, CallOk
    <2> QED BY <1>1, <2>1 DEF StaleFramesAreAbandoned, FramesInv
  <1> QED BY <1>1, TypeStart, TypeKeeps, FramesStart, FramesKeep, PTL DEF Spec

-----------------------------------------------------------------------------
(* Runs.                                                                   *)

\* The requests of the call that may still be run, and how often the call has
\* been or will be run if they are.
Valid(c) == {r \in requests : r.no = c /\ ~r.done /\ r.token = r.at}
Due(c) == log[c].runs + Cardinality(Valid(c))

Allowed(c) == AttemptLimit(log[c].method) + 1

\* The request that the call waits for was refused or will be.
Denied(c) ==
    \/ \E r \in requests : r.mine /\ r.no = c /\ r.token # r.at
    \/ \E i \in DOMAIN inbox : inbox[i].no = c /\ inbox[i].status = "denied"

AllMine(c) == \A r \in requests : r.no = c => r.mine
Once(c) == Allowed(c) = 1 /\ log[c].end \in {"open", "refused"} /\ c \notin mixed

\* An attempt is run once at most: it sends again only what was refused.
CallRuns ==
    call.no # 0 =>
      /\ call.tries <= AttemptLimit(call.method)
      /\ call.no \notin mixed =>
           /\ Due(call.no) <= call.tries + 1
           /\ call.phase # "wait" \/ Denied(call.no) => Due(call.no) <= call.tries

\* What an answer says has happened.
AnswersAreTrue ==
    /\ \A r \in requests : r.done => r.token = r.at /\ log[r.no].runs > 0
    /\ \A i \in DOMAIN inbox :
         /\ inbox[i].status = "event" => inbox[i].no = 0
         /\ inbox[i].status = "ok" => inbox[i].no \in Call /\ log[inbox[i].no].runs > 0

RunsInv ==
    /\ IsFiniteSet(requests)
    /\ \A c \in Call : log[c].end = "new" => log[c].runs = 0
    /\ \A c \in Call \ mixed : log[c].end # "new" => Due(c) <= Allowed(c)
    /\ CallRuns
    /\ AnswersAreTrue
    /\ \A c \in Call : Once(c) => AllMine(c)

LEMMA LimitIs ==
    ASSUME retries \in Retries, NEW m
    PROVE  AttemptLimit(m) \in Nat
  BY ClientAssumption DEF AttemptLimit

LEMMA ValidIs ==
    ASSUME IsFiniteSet(requests), NEW c
    PROVE  IsFiniteSet(Valid(c)) /\ Cardinality(Valid(c)) \in Nat
  <1>1. Valid(c) \in SUBSET requests
    BY DEF Valid
  <1>2. IsFiniteSet(Valid(c))
    BY <1>1, FS_Subset
  <1> QED BY <1>2, FS_CardinalityType

LEMMA SetsAreFinite ==
    ASSUME TypeInv, RunsInv, requests' \subseteq requests
    PROVE  /\ IsFiniteSet(requests')
           /\ \A c : IsFiniteSet(Valid(c)') /\ Cardinality(Valid(c)') \in Nat
                     /\ Cardinality(Valid(c)') <= Cardinality(Valid(c))
  <1>0. IsFiniteSet(requests)
    BY DEF RunsInv
  <1>1. IsFiniteSet(requests')
    BY <1>0, FS_Subset
  <1>2. ASSUME NEW c
        PROVE  IsFiniteSet(Valid(c)') /\ Cardinality(Valid(c)') \in Nat
               /\ Cardinality(Valid(c)') <= Cardinality(Valid(c))
    <2>1. Valid(c)' \in SUBSET Valid(c) /\ IsFiniteSet(Valid(c))
      BY <1>0, ValidIs DEF Valid
    <2>2. IsFiniteSet(Valid(c)') /\ Cardinality(Valid(c)') <= Cardinality(Valid(c))
      BY <2>1, FS_Subset
    <2> QED BY <2>2, FS_CardinalityType
  <1> QED BY <1>1, <1>2

\* Giving the connection up changes nothing in what may be run.
LEMMA OrphanedRuns ==
    ASSUME TypeInv, RunsInv, requests' = Orphaned
    PROVE  /\ IsFiniteSet(requests')
           /\ \A c : IsFiniteSet(Valid(c)') /\ Cardinality(Valid(c)') \in Nat
                     /\ Cardinality(Valid(c)') <= Cardinality(Valid(c))
           /\ \A r \in requests' : \E q \in requests :
                ~r.mine /\ r.no = q.no /\ r.done = q.done /\ r.token = q.token /\ r.at = q.at
  <1>0. IsFiniteSet(requests) /\ requests \subseteq Wire
    BY DEF RunsInv, TypeInv, FrameType
  <1> DEFINE f == [r \in requests |-> [r EXCEPT !.mine = FALSE]]
  <1>1. \A r \in requests : /\ f[r].no = r.no /\ f[r].done = r.done /\ f[r].token = r.token
                            /\ f[r].at = r.at /\ ~f[r].mine
    BY <1>0 DEF Wire
  <1>2. requests' = {f[r] : r \in requests}
    BY DEF Orphaned
  <1>3. f \in Surjection(requests, requests')
    BY <1>2 DEF Surjection
  <1>4. IsFiniteSet(requests')
    BY <1>0, <1>3, FS_Surjection
  <1> HIDE DEF f
  <1>5. ASSUME NEW c
        PROVE  IsFiniteSet(Valid(c)') /\ Cardinality(Valid(c)') \in Nat
               /\ Cardinality(Valid(c)') <= Cardinality(Valid(c))
    <2> DEFINE g == [r \in Valid(c) |-> f[r]]
    <2>1. Valid(c)' = {f[r] : r \in Valid(c)}
      BY <1>1, <1>2 DEF Valid
    <2>2. g \in Surjection(Valid(c), Valid(c)')
      BY <2>1 DEF Surjection
    <2>3. IsFiniteSet(Valid(c))
      BY <1>0, ValidIs
    <2> HIDE DEF g
    <2>4. IsFiniteSet(Valid(c)') /\ Cardinality(Valid(c)') <= Cardinality(Valid(c))
      BY <2>2, <2>3, FS_Surjection
    <2> QED BY <2>4, FS_CardinalityType
  <1> QED BY <1>1, <1>2, <1>4, <1>5

\* No request gets more, and the call ends or goes on.
LEMMA RunsStep ==
    ASSUME TypeInv, RunsInv, UNCHANGED <<retries, mixed>>, FrameType',
           IsFiniteSet(requests'),
           \A c : IsFiniteSet(Valid(c)') /\ Cardinality(Valid(c)') \in Nat
                  /\ Cardinality(Valid(c)') <= Cardinality(Valid(c)),
           \A r \in requests' : \E q \in requests :
             r.no = q.no /\ r.done = q.done /\ r.token = q.token /\ r.at = q.at,
           \A c \in Call : Once(c) => AllMine(c)',
           AnswersAreTrue',
           \/ \E how \in {"answered", "refused", "failed"} : Ends(how)
           \/ UNCHANGED log /\ CallRuns'
    PROVE  RunsInv'
  <1>0. /\ call \in Calls /\ log \in [Call -> Entries] /\ CallOk /\ retries \in Retries
        /\ IsFiniteSet(requests)
    BY DEF TypeInv, ClientInv, LinkInv, FrameType, RunsInv
  <1>1. CallRuns' /\ \A c \in Call : /\ log'[c].method = log[c].method
                                     /\ log'[c].runs = log[c].runs
                                     /\ log'[c].end = "new" <=> log[c].end = "new"
                                     /\ Once(c)' => Once(c)
    <2>1. CASE \E how \in {"answered", "refused", "failed"} : Ends(how)
      <3> PICK how \in {"answered", "refused", "failed"} : Ends(how)
        BY <2>1
      <3>1. /\ call'.no = 0
            /\ \A c \in Call : /\ log'[c].end = (IF c = call.no THEN how ELSE log[c].end)
                               /\ log'[c].method = log[c].method
                               /\ log'[c].runs = log[c].runs
        BY EndKeepsLog
      <3>2. \A c \in Call : c = call.no => log[c].end = "open"
        BY <1>0 DEF CallOk, Call
      <3>3. \A c \in Call : Allowed(c)' = Allowed(c)
        BY <3>1 DEF Allowed, AttemptLimit
      <3> QED BY <3>1, <3>2, <3>3 DEF CallRuns, Once
    <2>2. CASE UNCHANGED log /\ CallRuns'
      BY <2>2 DEF Once, Allowed, AttemptLimit
    <2> QED BY <2>1, <2>2
  <1>2. \A c \in Call : log'[c].end = "new" => log'[c].runs = 0
    BY <1>1 DEF RunsInv
  <1>3. ASSUME NEW c \in Call \ mixed, log'[c].end # "new" PROVE (Due(c) <= Allowed(c))'
    <2>1. Allowed(c)' = Allowed(c) /\ Allowed(c) \in Nat
      BY <1>0, <1>1, LimitIs DEF Allowed, AttemptLimit
    <2>2. /\ Due(c) <= Allowed(c) /\ log[c].runs \in Nat /\ Cardinality(Valid(c)) \in Nat
          /\ Cardinality(Valid(c)') \in Nat /\ Cardinality(Valid(c)') <= Cardinality(Valid(c))
      BY <1>0, <1>1, <1>3, ValidIs DEF RunsInv, Entries
    <2>3. Due(c)' = log[c].runs + Cardinality(Valid(c)')
      BY <1>1 DEF Due
    <2> QED BY <2>1, <2>2, <2>3 DEF Due
  <1>4. \A c \in Call : Once(c)' => AllMine(c)'
    BY <1>1
  <1> QED BY <1>1, <1>2, <1>3, <1>4 DEF RunsInv

LEMMA FewerAnswers ==
    ASSUME TypeInv, RunsInv,
           \/ inbox' \in {inbox, <<>>}
           \/ inbox # <<>> /\ inbox' = Tail(inbox),
           \A r \in requests' : \E q \in requests :
             r.no = q.no /\ r.done = q.done /\ r.token = q.token /\ r.at = q.at,
           \A c \in Call : log'[c].runs = log[c].runs
    PROVE  AnswersAreTrue'
  <1>0. inbox \in Seq(Frames) /\ requests \subseteq Wire /\ AnswersAreTrue
    BY DEF TypeInv, FrameType, RunsInv
  <1>1. \A r \in requests' : r.done => r.token = r.at /\ log'[r.no].runs > 0
    BY <1>0 DEF AnswersAreTrue, Wire
  <1>2. \A i \in DOMAIN inbox' : \E j \in DOMAIN inbox : inbox'[i] = inbox[j]
    <2>1. CASE inbox # <<>> /\ inbox' = Tail(inbox)
      BY <1>0, <2>1, TailIs
    <2> QED BY <2>1
  <1>3. \A i \in DOMAIN inbox' :
          /\ inbox'[i].status = "event" => inbox'[i].no = 0
          /\ inbox'[i].status = "ok" => inbox'[i].no \in Call /\ log'[inbox'[i].no].runs > 0
    BY <1>0, <1>2 DEF AnswersAreTrue
  <1> QED BY <1>1, <1>3 DEF AnswersAreTrue

LEMMA FewerDenied ==
    ASSUME TypeInv, NEW c,
           \/ inbox' \in {inbox, <<>>}
           \/ inbox # <<>> /\ inbox' = Tail(inbox),
           \A r \in requests' : r.mine => r \in requests
    PROVE  Denied(c)' => Denied(c)
  <1>0. inbox \in Seq(Frames)
    BY DEF TypeInv, FrameType
  <1>1. \A i \in DOMAIN inbox' : \E j \in DOMAIN inbox : inbox'[i] = inbox[j]
    <2>1. CASE inbox # <<>> /\ inbox' = Tail(inbox)
      BY <1>0, <2>1, TailIs
    <2> QED BY <2>1
  <1> QED BY <1>1 DEF Denied

\* The call goes on in the attempt that it is in.
LEMMA CallRunsStays ==
    ASSUME TypeInv, RunsInv, UNCHANGED <<log, retries, mixed>>,
           call'.no = call.no, call'.method = call.method, call'.tries = call.tries,
           \A c : Cardinality(Valid(c)') \in Nat
                  /\ Cardinality(Valid(c)') <= Cardinality(Valid(c)),
           \A c \in Call : c = call.no /\ c \notin mixed /\ (call'.phase # "wait" \/ Denied(c)')
                             => call.phase # "wait" \/ Denied(c)
    PROVE  CallRuns'
  <1> SUFFICES ASSUME call.no # 0 PROVE CallRuns'
    BY DEF CallRuns
  <1>1. /\ call \in Calls /\ call.no \in Call /\ log \in [Call -> Entries]
        /\ log[call.no].runs \in Nat /\ call.tries \in Nat /\ IsFiniteSet(requests) /\ CallRuns
    BY NumberIs DEF TypeInv, ClientInv, LinkInv, FrameType, Entries, Calls, RunsInv
  <1> DEFINE n == call.no
  <1>2. /\ Due(n) = log[n].runs + Cardinality(Valid(n)) /\ Cardinality(Valid(n)) \in Nat
    BY <1>1, ValidIs DEF Due
  <1>3. /\ Due(call.no)' = log[n].runs + Cardinality({r \in requests' : r.no = n /\ ~r.done /\ r.token = r.at})
        /\ Cardinality({r \in requests' : r.no = n /\ ~r.done /\ r.token = r.at}) <= Cardinality(Valid(n))
        /\ Cardinality({r \in requests' : r.no = n /\ ~r.done /\ r.token = r.at}) \in Nat
    BY DEF Due, Valid
  <1>4. Due(call.no)' <= Due(call.no) /\ Due(call.no)' \in Nat /\ Due(call.no) \in Nat
    BY <1>1, <1>2, <1>3
  <1>5. call.no \notin mixed /\ (call'.phase # "wait" \/ Denied(call.no)')
          => call.phase # "wait" \/ Denied(call.no)
    BY <1>1 DEF Denied
  <1>6. AttemptLimit(call.method)' = AttemptLimit(call.method)
    BY DEF AttemptLimit
  <1> QED BY <1>1, <1>4, <1>5, <1>6 DEF CallRuns

LEMMA NothingChanged ==
    ASSUME TypeInv, RunsInv, UNCHANGED <<requests, mixed>>
    PROVE  /\ IsFiniteSet(requests')
           /\ \A c : IsFiniteSet(Valid(c)') /\ Cardinality(Valid(c)') \in Nat
                     /\ Cardinality(Valid(c)') <= Cardinality(Valid(c))
           /\ \A c \in Call : Once(c) => AllMine(c)'
  <1>1. requests' \subseteq requests
    OBVIOUS
  <1> QED BY <1>1, SetsAreFinite DEF AllMine, RunsInv

\* A step that leaves the requests alone and takes frames away.
LEMMA QuietRuns ==
    ASSUME TypeInv, RunsInv, FrameType', UNCHANGED <<requests, retries, mixed>>,
           \/ inbox' \in {inbox, <<>>}
           \/ inbox # <<>> /\ inbox' = Tail(inbox),
           \/ \E how \in {"answered", "refused", "failed"} : Ends(how)
           \/ /\ UNCHANGED log
              /\ call'.no = call.no /\ call'.method = call.method /\ call'.tries = call.tries
              /\ \A c \in Call : c = call.no /\ c \notin mixed /\ call'.phase # "wait"
                                   => call.phase # "wait" \/ Denied(c)
    PROVE  RunsInv'
  <1>1. \A r \in requests' : \E q \in requests :
          r.no = q.no /\ r.done = q.done /\ r.token = q.token /\ r.at = q.at
    OBVIOUS
  <1>2. CASE \E how \in {"answered", "refused", "failed"} : Ends(how)
    <2>1. \A c \in Call : log'[c].runs = log[c].runs
      BY <1>2, EndKeepsLog
    <2>2. AnswersAreTrue'
      BY <1>1, <2>1, FewerAnswers
    <2> QED BY <1>1, <1>2, <2>2, NothingChanged, RunsStep
  <1>3. CASE /\ UNCHANGED log
             /\ call'.no = call.no /\ call'.method = call.method /\ call'.tries = call.tries
             /\ \A c \in Call : c = call.no /\ c \notin mixed /\ call'.phase # "wait"
                                  => call.phase # "wait" \/ Denied(c)
    <2>1. AnswersAreTrue'
      BY <1>1, <1>3, FewerAnswers
    <2>2. \A c : Denied(c)' => Denied(c)
      BY FewerDenied
    <2>3. CallRuns'
      BY <1>3, <2>2, NothingChanged, CallRunsStays
    <2> QED BY <1>1, <1>3, <2>1, <2>3, NothingChanged, RunsStep
  <1> QED BY <1>2, <1>3

\* Nothing is left of a call that may run once only when its connection is
\* given up before it has sent anything.
LEMMA OnceIsSilent ==
    ASSUME TypeInv, FramesInv, RunsInv, NEW c \in Call, Once(c),
           c = call.no => call.phase # "wait"
    PROVE  \A r \in requests : r.no # c
  <1>1. Silent(c)
    BY DEF Once, FramesInv, TypeInv, CallOk, Call
  <1>2. AllMine(c)
    BY DEF RunsInv
  <1> QED BY <1>1, <1>2 DEF Silent, HasRequest, AllMine

LEMMA TransportErrorRuns ==
    ASSUME TypeInv, FramesInv, RunsInv, FrameType', NEW rest, TransportError(rest),
           UNCHANGED <<retries, mixed>>,
           rest \in {inbox, <<>>} \/ (inbox # <<>> /\ rest = Tail(inbox))
    PROVE  RunsInv'
  <1>0. call \in Calls /\ requests \subseteq Wire /\ log \in [Call -> Entries] /\ CallOk
    BY DEF TypeInv, ClientInv, LinkInv, FrameType
  <1>1. CASE Reopens
    <2>1. /\ inbox' = <<>> /\ requests' = Orphaned /\ UNCHANGED log /\ call.no # 0
          /\ call.tries < AttemptLimit(call.method)
      BY <1>1 DEF Reopens
    <2>2. \A r \in requests' : \E q \in requests :
            r.no = q.no /\ r.done = q.done /\ r.token = q.token /\ r.at = q.at
      BY <2>1, OrphanedRuns
    <2>3. AnswersAreTrue'
      BY <2>1, <2>2, FewerAnswers
    <2>4. call.no \in Call /\ retries \in Retries /\ call.tries \in Nat
          /\ AttemptLimit(call.method) \in Nat /\ log[call.no].method = call.method
      BY <1>0, <2>1, NumberIs, LimitIs DEF Calls, TypeInv, FrameType, CallOk
    <2>5. \A c \in Call : Once(c) => AllMine(c)'
      <3> SUFFICES ASSUME NEW c \in Call, Once(c) PROVE AllMine(c)'
        OBVIOUS
      <3>1. c # call.no
        BY <2>1, <2>4 DEF Once, Allowed
      <3>2. \A r \in requests : r.no # c
        BY <3>1, OnceIsSilent
      <3> QED BY <2>2, <3>2 DEF AllMine
    <2>6. CallRuns'
      <3> SUFFICES ASSUME call.no \notin mixed PROVE CallRuns'
        <4>1. call'.no = call.no /\ call'.method = call.method /\ call'.tries = call.tries + 1
          BY <1>0, <1>1, ReopensIs
        <4>2. AttemptLimit(call.method)' = AttemptLimit(call.method)
          BY <4>1 DEF AttemptLimit
        <4> QED BY <2>1, <2>4, <4>1, <4>2 DEF CallRuns
      <3> DEFINE n == call.no
                 d == Cardinality({r \in requests' : r.no = n /\ ~r.done /\ r.token = r.at})
      <3>1. /\ call'.no = call.no /\ call'.method = call.method /\ call'.phase = "open"
            /\ call'.tries = call.tries + 1
        BY <1>0, <1>1, ReopensIs
      <3>2. /\ Due(n) = log[n].runs + Cardinality(Valid(n)) /\ Due(n) <= call.tries + 1
            /\ log[n].runs \in Nat /\ Cardinality(Valid(n)) \in Nat
        BY <1>0, <2>1, <2>4, ValidIs DEF RunsInv, CallRuns, Due, Entries
      <3>3. d \in Nat /\ d <= Cardinality(Valid(n)) /\ Due(call.no)' = log[n].runs + d
        BY <2>1, <3>1, OrphanedRuns DEF Due, Valid
      <3> HIDE DEF d
      <3>4. Due(call.no)' <= call.tries + 1
        BY <2>4, <3>2, <3>3
      <3>5. AttemptLimit(call.method)' = AttemptLimit(call.method)
        BY <3>1 DEF AttemptLimit
      <3>6. Due(call.no)' \in Nat
        BY <3>2, <3>3
      <3> QED BY <2>1, <2>4, <3>1, <3>4, <3>5, <3>6 DEF CallRuns
    <2> QED BY <2>1, <2>2, <2>3, <2>5, <2>6, OrphanedRuns, RunsStep
  <1>2. CASE Ends("failed") /\ inbox' = rest /\ UNCHANGED <<connection, requests>>
    BY <1>2, QuietRuns
  <1> QED BY <1>1, <1>2, TransportErrorIs

LEMMA ConnectRuns ==
    ASSUME TypeInv, FramesInv, RunsInv, FrameType', Connect
    PROVE  RunsInv'
  <1>0. /\ call \in Calls /\ requests \subseteq Wire /\ call.phase = "open"
        /\ inbox' = <<>> /\ requests' = Orphaned /\ UNCHANGED <<log, retries, mixed>> /\ Goes("token")
    BY DEF TypeInv, ClientInv, LinkInv, FrameType, Connect, Goes
  <1>1. \A r \in requests' : \E q \in requests :
          r.no = q.no /\ r.done = q.done /\ r.token = q.token /\ r.at = q.at
    BY <1>0, OrphanedRuns
  <1>2. AnswersAreTrue'
    BY <1>0, <1>1, FewerAnswers
  <1>3. \A c \in Call : Once(c) => AllMine(c)'
    BY <1>0, <1>1, OnceIsSilent DEF AllMine
  <1>4. call'.no = call.no /\ call'.method = call.method /\ call'.tries = call.tries
    BY <1>0 DEF Goes, Calls
  <1>5. CallRuns'
    BY <1>0, <1>4, OrphanedRuns, CallRunsStays
  <1> QED BY <1>0, <1>1, <1>2, <1>3, <1>5, OrphanedRuns, RunsStep

LEMMA SendRuns ==
    ASSUME TypeInv, FramesInv, RunsInv, FrameType', SendRequest
    PROVE  RunsInv'
  <1>0. /\ call \in Calls /\ requests \subseteq Wire /\ log \in [Call -> Entries] /\ CallOk
        /\ call.phase = "send" /\ call.no \in Call /\ call.no # 0 /\ retries \in Retries
        /\ UNCHANGED retries /\ IsFiniteSet(requests) /\ log[call.no].end = "open"
    BY NumberIs DEF TypeInv, ClientInv, LinkInv, FrameType, SendRequest, CallOk, RunsInv
  <1>1. CASE linked
    <2> DEFINE n == call.no
               r == [no |-> call.no, method |-> call.method, try |-> call.tries,
                     again |-> call.refreshed, at |-> peer, token |-> token,
                     mine |-> TRUE, done |-> FALSE]
    <2>1. /\ requests' = requests \cup {r} /\ Goes("wait") /\ UNCHANGED <<inbox, log>>
          /\ r.no = n /\ r.mine /\ ~r.done /\ r.token = token /\ r.at = peer
      BY <1>1 DEF SendRequest, Goes
    <2> HIDE DEF r
    <2>2. /\ call'.no = call.no /\ call'.method = call.method /\ call'.tries = call.tries
          /\ call'.phase = "wait"
      BY <1>0, <2>1 DEF Goes, Calls
    <2>3. IsFiniteSet(requests')
      BY <1>0, <2>1, FS_AddElement
    <2>4. \A c \in Call : c # n => Valid(c)' = Valid(c)
      BY <2>1 DEF Valid
    <2> DEFINE now == {q \in requests' : q.no = n /\ ~q.done /\ q.token = q.at}
    <2>5. now = IF token = peer THEN Valid(n) \cup {r} ELSE Valid(n)
      BY <2>1 DEF Valid
    <2>6. IsFiniteSet(Valid(n)) /\ Cardinality(Valid(n)) \in Nat
      BY <1>0, ValidIs
    <2>7. /\ Cardinality(now) \in Nat
          /\ Cardinality(now) <= Cardinality(Valid(n)) + 1
          /\ token # peer => Cardinality(now) = Cardinality(Valid(n))
      <3> HIDE DEF now
      <3>1. CASE token = peer
        <4>1. Cardinality(now) = IF r \in Valid(n) THEN Cardinality(Valid(n))
                                 ELSE Cardinality(Valid(n)) + 1
          BY <2>5, <2>6, <3>1, FS_AddElement
        <4> QED BY <2>6, <3>1, <4>1
      <3>2. CASE token # peer
        BY <2>5, <2>6, <3>2
      <3> QED BY <3>1, <3>2
    <2>8. /\ Due(n) = log[n].runs + Cardinality(Valid(n)) /\ log[n].runs \in Nat
          /\ n \notin mixed => Due(n) <= call.tries
          /\ call.tries \in Nat /\ call.tries <= AttemptLimit(call.method)
          /\ mixed \subseteq mixed'
      BY <1>0, <1>1 DEF Due, RunsInv, CallRuns, Entries, Calls, SendRequest
    <2>9. Valid(n)' = now /\ Due(call.no)' = log[n].runs + Cardinality(now)
      BY <2>1, <2>2 DEF Valid, Due
    <2> HIDE DEF now
    <2>10. n \notin mixed =>
             /\ log[n].runs + Cardinality(now) <= call.tries + 1
             /\ token # peer => log[n].runs + Cardinality(now) <= call.tries
      BY <2>6, <2>7, <2>8
    <2>11. n \notin mixed /\ Denied(call.no)' => token # peer
      <3>1. n \notin mixed => Silent(n)
        BY <1>0 DEF FramesInv
      <3> QED BY <2>1, <2>2, <3>1 DEF Denied, Silent, HasRequest, HasFrame
    <2>12. AttemptLimit(call.method)' = AttemptLimit(call.method) /\ AttemptLimit(call.method) \in Nat
      BY <1>0, <2>2, LimitIs DEF AttemptLimit
    <2>13. CallRuns'
      BY <2>2, <2>8, <2>9, <2>10, <2>11, <2>12 DEF CallRuns
    <2>14. \A c \in Call : Allowed(c)' = Allowed(c)
      BY <1>0, <2>1 DEF Allowed, AttemptLimit
    <2>15. ASSUME NEW c \in Call \ mixed', log'[c].end # "new" PROVE (Due(c) <= Allowed(c))'
      <3>1. CASE c = n
        <4>1. Due(c)' = log[n].runs + Cardinality(now)
          <5>1. Valid(c)' = now
            BY <3>1 DEF Valid, now
          <5> QED BY <2>1, <3>1, <5>1 DEF Due
        <4>2. Allowed(c) = AttemptLimit(call.method) + 1
          BY <1>0, <3>1 DEF Allowed, CallOk
        <4>3. Allowed(c)' = AttemptLimit(call.method) + 1
          BY <2>14, <4>2
        <4>4. log[n].runs + Cardinality(now) <= AttemptLimit(call.method) + 1
          BY <2>7, <2>8, <2>10, <2>12, <2>15, <3>1
        <4> QED BY <4>1, <4>3, <4>4
      <3>2. CASE c # n
        <4>1. Due(c)' = Due(c)
          BY <2>1, <2>4, <3>2 DEF Due
        <4> QED BY <2>1, <2>8, <2>14, <2>15, <4>1 DEF RunsInv
      <3> QED BY <3>1, <3>2
    <2>16. AnswersAreTrue'
      BY <2>1 DEF RunsInv, AnswersAreTrue
    <2>17. \A c \in Call : Once(c)' => AllMine(c)'
      BY <2>1, <2>8, <2>14 DEF RunsInv, Once, AllMine
    <2> QED BY <2>1, <2>3, <2>13, <2>15, <2>16, <2>17 DEF RunsInv
  <1>2. CASE ~linked
    BY <1>0, <1>2, TransportErrorRuns DEF SendRequest
  <1> QED BY <1>1, <1>2

LEMMA ClientStepRuns ==
    ASSUME TypeInv, FramesInv, RunsInv, FrameType', ClientStep
    PROVE  RunsInv'
  <1>0. call \in Calls /\ requests \subseteq Wire /\ inbox \in Seq(Frames)
    BY DEF TypeInv, ClientInv, LinkInv, FrameType
  <1>1. CASE ConnectFails
    BY <1>1, QuietRuns DEF ConnectFails
  <1>2. CASE LoadToken
    <2>1. UNCHANGED <<inbox, requests, retries, mixed>> /\ call.phase = "token"
      BY <1>2 DEF LoadToken
    <2>2. CASE Goes(IF call.method = "frame" THEN "wait" ELSE "send")
      <3>1. /\ UNCHANGED log /\ call'.no = call.no /\ call'.method = call.method
            /\ call'.tries = call.tries
        BY <1>0, <2>2 DEF Goes, Calls
      <3> QED BY <2>1, <3>1, QuietRuns
    <2> QED BY <1>2, <2>1, <2>2, QuietRuns DEF LoadToken
  <1>3. CASE SkipEvent
    BY <1>3, QuietRuns DEF SkipEvent, Arrived
  <1>4. CASE TakeFrame
    BY <1>4, QuietRuns DEF TakeFrame, Arrived
  <1>5. CASE TakeAnswer
    <2>1. inbox # <<>> /\ UNCHANGED <<retries, mixed>>
      BY <1>5 DEF TakeAnswer, Arrived
    <2>2. CASE TransportError(Tail(inbox))
      BY <2>1, <2>2, TransportErrorRuns
    <2>3. CASE inbox' = Tail(inbox) /\ UNCHANGED requests /\ (Ends("refused") \/ Ends("answered"))
      BY <2>1, <2>3, QuietRuns
    <2> QED BY <1>5, <2>2, <2>3 DEF TakeAnswer
  <1>6. CASE RefreshToken
    <2>1. /\ inbox # <<>> /\ inbox' = Tail(inbox) /\ UNCHANGED <<requests, retries, mixed>>
          /\ call.no \notin mixed => Head(inbox).no = call.no
          /\ Head(inbox).status = "denied"
      BY <1>6, MatchIsOwn DEF RefreshToken, Arrived
    <2>2. CASE Ends("failed")
      BY <2>1, <2>2, QuietRuns
    <2>3. CASE call' = [call EXCEPT !.refreshed = TRUE, !.phase = "send"] /\ UNCHANGED log
      <3>1. call'.no = call.no /\ call'.method = call.method /\ call'.tries = call.tries
        BY <1>0, <2>3 DEF Calls
      <3>2. call.no \notin mixed => Denied(call.no)
        <4>1. Head(inbox) = inbox[1] /\ 1 \in DOMAIN inbox
          BY <1>0, <2>1, TailIs
        <4> QED BY <2>1, <4>1 DEF Denied
      <3> QED BY <2>1, <2>3, <3>1, <3>2, QuietRuns
    <2> QED BY <1>6, <2>2, <2>3 DEF RefreshToken
  <1>7. CASE HearNothing
    BY <1>7, TransportErrorRuns DEF HearNothing
  <1> QED BY <1>1, <1>2, <1>3, <1>4, <1>5, <1>6, <1>7, ConnectRuns, SendRuns DEF ClientStep

LEMMA ExecuteRuns ==
    ASSUME TypeInv, FramesInv, RunsInv, NEW r \in requests, Execute(r)
    PROVE  RunsInv'
  <1> DEFINE n == r.no
             m == log[r.no].runs + 1
             d == [r EXCEPT !.done = TRUE]
  <1>0. /\ requests \subseteq Wire /\ log \in [Call -> Entries] /\ n \in Call /\ call \in Calls
        /\ UNCHANGED <<call, inbox, retries, mixed>> /\ ~r.done /\ r.token = r.at
        /\ IsFiniteSet(requests) /\ log[n].runs \in Nat /\ log[n].end # "new"
    BY DEF TypeInv, ClientInv, LinkInv, FrameType, Wire, Entries, Execute, RunsInv, FramesInv
  <1>1. /\ requests' = (requests \ {r}) \cup {d}
        /\ d.mine = r.mine /\ d.no = r.no /\ d.done /\ d.token = r.token /\ d.at = r.at
    BY <1>0 DEF Execute, Wire
  <1>2. m \in Nat /\ log' = [log EXCEPT ![n].runs = m]
    BY <1>0 DEF Execute
  <1>3. \A c \in Call : /\ log'[c].end = log[c].end /\ log'[c].method = log[c].method
                        /\ log'[c].runs = IF c = n THEN log[c].runs + 1 ELSE log[c].runs
    <2> HIDE DEF m, n
    <2>1. \A c \in Call : /\ log'[c].end = log[c].end /\ log'[c].method = log[c].method
                          /\ log'[c].runs = IF c = n THEN m ELSE log[c].runs
      BY <1>0, <1>2 DEF Entries
    <2> QED BY <2>1 DEF m, n
  <1> HIDE DEF d, m
  <1>4. IsFiniteSet(requests')
    <2>1. IsFiniteSet(requests \ {r})
      BY <1>0, FS_RemoveElement
    <2> QED BY <1>1, <2>1, FS_AddElement
  <1>5. \A c \in Call : c # n => Valid(c)' = Valid(c)
    BY <1>1 DEF Valid
  <1>6. Valid(n)' = Valid(n) \ {r} /\ r \in Valid(n)
    BY <1>0, <1>1 DEF Valid
  <1>7. \A c \in Call : Due(c)' = Due(c)
    <2>1. IsFiniteSet(Valid(n)) /\ Cardinality(Valid(n)) \in Nat
      BY <1>0, ValidIs
    <2>2. Cardinality(Valid(n) \ {r}) = Cardinality(Valid(n)) - 1
      BY <1>6, <2>1, FS_RemoveElement
    <2>3. Due(n)' = log[n].runs + 1 + Cardinality(Valid(n) \ {r})
      BY <1>0, <1>3, <1>6 DEF Due
    <2>4. Due(n)' = Due(n)
      BY <1>0, <2>1, <2>2, <2>3 DEF Due
    <2>5. \A c \in Call : c # n => Due(c)' = Due(c)
      BY <1>3, <1>5 DEF Due
    <2> QED BY <2>4, <2>5
  <1>8. \A c \in Call : Allowed(c)' = Allowed(c) /\ (Once(c)' <=> Once(c))
    BY <1>0, <1>3 DEF Allowed, AttemptLimit, Once
  <1>9. \A c : Denied(c)' <=> Denied(c)
    BY <1>0, <1>1 DEF Denied
  <1>10. CallRuns'
    <2> SUFFICES ASSUME call.no # 0 PROVE CallRuns'
      BY <1>0 DEF CallRuns
    <2>1. call.no \in Call
      BY <1>0, NumberIs
    <2>2. Due(call.no)' = Due(call.no) /\ (Denied(call.no)' <=> Denied(call.no))
      <3>1. \A c \in Call : c = call.no => Due(call.no)' = Due(c)'
        BY <1>0 DEF Due, Valid
      <3>2. Denied(call.no)' <=> Denied(call.no)
        BY <1>0, <1>1 DEF Denied
      <3> QED BY <1>7, <2>1, <3>1, <3>2
    <2> QED BY <1>0, <2>2 DEF RunsInv, CallRuns, AttemptLimit
  <1>11. AnswersAreTrue'
    <2>1. ASSUME NEW q \in requests', q.done
          PROVE  q.token = q.at /\ log'[q.no].runs > 0
      BY <1>0, <1>1, <1>3, <2>1 DEF RunsInv, AnswersAreTrue, Wire
    <2>2. ASSUME NEW i \in DOMAIN inbox, inbox[i].status = "ok"
          PROVE  inbox[i].no \in Call /\ log'[inbox[i].no].runs > 0
      BY <1>0, <1>3, <2>2 DEF RunsInv, AnswersAreTrue
    <2> QED BY <1>0, <2>1, <2>2 DEF RunsInv, AnswersAreTrue
  <1>12. \A c \in Call : Once(c)' => AllMine(c)'
    BY <1>1, <1>8 DEF RunsInv, AllMine
  <1>13. \A c \in Call : log'[c].end = "new" => log'[c].runs = 0
    BY <1>0, <1>3 DEF RunsInv
  <1>14. \A c \in Call \ mixed' : log'[c].end # "new" => (Due(c) <= Allowed(c))'
    BY <1>0, <1>3, <1>7, <1>8 DEF RunsInv
  <1> QED BY <1>4, <1>10, <1>11, <1>12, <1>13, <1>14 DEF RunsInv

LEMMA ReplyRuns ==
    ASSUME TypeInv, FramesInv, RunsInv, FrameType', NEW r \in requests, Reply(r)
    PROVE  RunsInv'
  <1> DEFINE f == [no |-> r.no, status |-> IF r.done THEN "ok" ELSE "denied"]
  <1>0. /\ requests \subseteq Wire /\ inbox \in Seq(Frames)
        /\ UNCHANGED <<call, log, retries, mixed>> /\ requests' = requests \ {r}
        /\ r.done \/ r.token # r.at
        /\ inbox' = IF r.mine THEN Append(inbox, f) ELSE inbox
    BY DEF TypeInv, FrameType, Reply
  <1>1. /\ f \in Frames /\ f.no = r.no /\ f.no \in Call /\ f.no # 0
        /\ f.status \in {"ok", "denied"} /\ (f.status = "ok" <=> r.done)
    BY <1>0, ClientAssumption DEF Frames, Wire, Call
  <1> HIDE DEF f
  <1>2. \A i \in DOMAIN inbox' : \/ i \in DOMAIN inbox /\ inbox'[i] = inbox[i]
                                 \/ r.mine /\ inbox'[i] = f
    <2>1. CASE r.mine
      <3>1. /\ DOMAIN inbox' = DOMAIN inbox \cup {Len(inbox) + 1}
            /\ inbox'[Len(inbox) + 1] = f
            /\ \A i \in DOMAIN inbox : inbox'[i] = inbox[i]
        BY <1>0, <1>1, <2>1, AppendIs
      <3> QED BY <2>1, <3>1
    <2>2. CASE ~r.mine
      BY <1>0, <2>2
    <2> QED BY <2>1, <2>2
  <1>3. AnswersAreTrue'
    BY <1>0, <1>1, <1>2 DEF RunsInv, AnswersAreTrue
  <1>4. \A c : Denied(c)' => Denied(c)
    BY <1>0, <1>1, <1>2 DEF Denied
  <1>5. requests' \subseteq requests
    BY <1>0
  <1>6. CallRuns'
    BY <1>0, <1>4, <1>5, SetsAreFinite, CallRunsStays
  <1>7. \A c \in Call : Once(c) => AllMine(c)'
    BY <1>5 DEF RunsInv, AllMine
  <1> QED BY <1>0, <1>3, <1>5, <1>6, <1>7, SetsAreFinite, RunsStep

LEMMA OtherStepRuns ==
    ASSUME TypeInv, FramesInv, RunsInv, FrameType', [Next]_vars, ~ClientStep
    PROVE  RunsInv'
  <1>0. /\ call \in Calls /\ requests \subseteq Wire /\ inbox \in Seq(Frames)
        /\ log \in [Call -> Entries] /\ retries \in Retries
    BY DEF TypeInv, ClientInv, LinkInv, FrameType
  <1>1. CASE \E m \in Method : Begin(m)
    <2> PICK m \in Method : Begin(m)
      BY <1>1
    <2>1. PICK c \in Call :
            /\ log[c].end = "new" /\ call'.no = c /\ call'.method = m /\ call'.tries = 0
            /\ \A b \in Call : /\ log'[b].end = (IF b = c THEN "open" ELSE log[b].end)
                               /\ log'[b].method = (IF b = c THEN m ELSE log[b].method)
                               /\ log'[b].runs = log[b].runs
      BY BeginIs
    <2>2. UNCHANGED <<inbox, requests, retries, mixed>>
      BY DEF Begin
    <2>3. \A b : Valid(b)' = Valid(b)
      BY <2>2 DEF Valid
    <2>4. \A r \in requests : r.no # c
      BY <2>1 DEF FramesInv
    <2>5. Cardinality(Valid(c)) = 0 /\ log[c].runs = 0
      <3>1. Valid(c) = {}
        BY <2>4 DEF Valid
      <3> QED BY <2>1, <3>1, FS_EmptySet DEF RunsInv
    <2>6. AttemptLimit(m) \in Nat /\ AttemptLimit(m)' = AttemptLimit(m)
      BY <1>0, <2>2, LimitIs DEF AttemptLimit
    <2>7. Due(call.no)' = 0 /\ Due(c)' = 0
      <3>1. Valid(c)' = Valid(c) /\ Valid(call.no)' = Valid(c) /\ log'[c].runs = 0
        BY <2>1, <2>2, <2>5 DEF Valid
      <3>2. Due(c)' = 0
        BY <2>5, <3>1 DEF Due
      <3>3. Due(call.no)' = log'[c].runs + Cardinality(Valid(c))
        BY <2>1, <3>1 DEF Due
      <3> QED BY <2>5, <3>1, <3>2, <3>3
    <2>8. CallRuns'
      BY <2>1, <2>6, <2>7 DEF CallRuns, AttemptLimit
    <2>9. ASSUME NEW b \in Call \ mixed, log'[b].end # "new" PROVE (Due(b) <= Allowed(b))'
      <3>1. CASE b = c
        <4>1. Allowed(b)' = AttemptLimit(m) + 1
          BY <2>1, <2>6, <3>1 DEF Allowed, AttemptLimit
        <4> QED BY <2>6, <2>7, <3>1, <4>1
      <3>2. CASE b # c
        <4>1. Due(b)' = Due(b) /\ Allowed(b)' = Allowed(b) /\ log[b].end # "new"
          BY <2>1, <2>2, <2>3, <2>9, <3>2 DEF Due, Allowed, AttemptLimit
        <4> QED BY <4>1 DEF RunsInv
      <3> QED BY <3>1, <3>2
    <2>10. AnswersAreTrue'
      BY <1>0, <2>1, <2>2 DEF RunsInv, AnswersAreTrue, Wire
    <2>11. ASSUME NEW b \in Call, Once(b)' PROVE AllMine(b)'
      <3>1. CASE b = c
        BY <2>2, <2>4, <3>1 DEF AllMine
      <3>2. CASE b # c
        BY <2>1, <2>2, <2>11, <3>2 DEF RunsInv, Once, Allowed, AttemptLimit, AllMine
      <3> QED BY <3>1, <3>2
    <2>12. IsFiniteSet(requests') /\ \A b \in Call : log'[b].end = "new" => log'[b].runs = 0
      BY <2>1, <2>2 DEF RunsInv
    <2> QED BY <2>2, <2>8, <2>9, <2>10, <2>11, <2>12 DEF RunsInv
  <1>2. CASE ReadFrame
    <2>1. call'.no = 0 /\ UNCHANGED <<inbox, requests, log, retries, mixed>>
      BY <1>2 DEF ReadFrame, Idle
    <2>2. CallRuns' /\ AnswersAreTrue'
      BY <2>1 DEF CallRuns, RunsInv, AnswersAreTrue
    <2> QED BY <2>1, <2>2, NothingChanged, RunsStep
  <1>3. CASE UNCHANGED clientVars
    BY <1>3, QuietRuns DEF clientVars
  <1>4. CASE RefuseUnsent
    BY <1>4, QuietRuns DEF RefuseUnsent
  <1>5. CASE Emit
    <2>1. Event \in Frames /\ Event.no = 0 /\ Event.status = "event"
      BY DEF Event, Frames
    <2>2. inbox' = Append(inbox, Event) /\ UNCHANGED <<call, requests, log, retries, mixed>>
      BY <1>5 DEF Emit
    <2> HIDE DEF Event
    <2>3. \A i \in DOMAIN inbox' : \/ i \in DOMAIN inbox /\ inbox'[i] = inbox[i]
                                   \/ inbox'[i] = Event
      <3>1. /\ DOMAIN inbox' = DOMAIN inbox \cup {Len(inbox) + 1}
            /\ inbox'[Len(inbox) + 1] = Event
            /\ \A i \in DOMAIN inbox : inbox'[i] = inbox[i]
        BY <1>0, <2>1, <2>2, AppendIs
      <3> QED BY <3>1
    <2>4. AnswersAreTrue'
      BY <2>1, <2>2, <2>3 DEF RunsInv, AnswersAreTrue
    <2>5. \A c : Denied(c)' => Denied(c)
      BY <2>1, <2>2, <2>3 DEF Denied
    <2>6. CallRuns'
      BY <2>2, <2>5, NothingChanged, CallRunsStays
    <2> QED BY <2>2, <2>4, <2>6, NothingChanged, RunsStep
  <1>6. ASSUME NEW n \in Kernel, Gone(n)
        PROVE  RunsInv'
    <2>1. UNCHANGED <<call, inbox, log, retries, mixed>> /\ requests' \subseteq requests
      BY <1>6 DEF Gone
    <2>2. AnswersAreTrue' /\ \A c \in Call : Once(c) => AllMine(c)'
      BY <2>1 DEF RunsInv, AnswersAreTrue, AllMine
    <2>3. \A c : Denied(c)' => Denied(c)
      BY <2>1 DEF Denied
    <2>4. CallRuns'
      BY <2>1, <2>3, SetsAreFinite, CallRunsStays
    <2> QED BY <2>1, <2>2, <2>4, SetsAreFinite, RunsStep
  <1> QED BY <1>1, <1>2, <1>3, <1>4, <1>5, <1>6, ExecuteRuns, ReplyRuns
          DEF Next, KernelStep, EnsureSocket, vars

LEMMA RunsKeep ==
    ASSUME TypeInv, FramesInv, RunsInv, [Next]_vars
    PROVE  RunsInv'
  <1>1. FrameType'
    BY TypeKeeps DEF TypeInv
  <1> QED BY <1>1, ClientStepRuns, OtherStepRuns

LEMMA RunsStart == Init => RunsInv
  <1> SUFFICES ASSUME Init PROVE RunsInv
    OBVIOUS
  <1>1. /\ requests = {} /\ inbox = <<>> /\ call.no = 0
        /\ \A c \in Call : log[c].end = "new" /\ log[c].runs = 0
    BY DEF Init, Idle, Unmade
  <1> QED BY <1>1, FS_EmptySet DEF RunsInv, CallRuns, AnswersAreTrue, AllMine

-----------------------------------------------------------------------------
(* The calls keep their contract.                                          *)

LEMMA LimitFits ==
    ASSUME retries \in Retries, NEW m
    PROVE  AttemptLimit(m) + 1 \in 1..MaxRunsPerCall
  <1> DEFINE top == CHOOSE x \in Retries : \A n \in Retries : n <= x
  <1>1. top \in Retries /\ \A n \in Retries : n <= top
    BY ClientAssumption
  <1>2. top \in Nat /\ retries \in Nat /\ retries <= top
    BY <1>1, ClientAssumption
  <1>3. MaxRunsPerCall = 2 + top
    BY DEF MaxRunsPerCall
  <1> HIDE DEF top
  <1>4. AttemptLimit(m) \in Nat /\ AttemptLimit(m) <= 1 + top
    BY <1>2 DEF AttemptLimit
  <1> QED BY <1>2, <1>3, <1>4

\* What the contract sees of a call.
Stages == [c \in Call |-> IF c \in mixed THEN "confused" ELSE log[c].end]
Limits == [c \in Call |-> IF log[c].end = "new" THEN 0 ELSE AttemptLimit(log[c].method) + 1]
Counts == [c \in Call |-> log[c].runs]

LEMMA ClosesCall ==
    ASSUME TypeInv, UNCHANGED <<retries, mixed>>,
           NEW how \in {"answered", "refused", "failed"}, Ends(how),
           call.no # 0 /\ call.no \notin mixed =>
             /\ how = "answered" => log[call.no].runs > 0
             /\ how = "refused" /\ AttemptLimit(call.method) = 0 => log[call.no].runs = 0
    PROVE  [Contract!Next]_<<Stages, Limits, Counts>>
  <1>0. call \in Calls /\ log \in [Call -> Entries] /\ CallOk /\ retries \in Retries
    BY DEF TypeInv, ClientInv, LinkInv, FrameType
  <1>1. CASE call.no = 0
    BY <1>1 DEF Ends, Stages, Limits, Counts, AttemptLimit
  <1>2. CASE call.no # 0
    <2> DEFINE n == call.no
    <2>1. n \in Call /\ log[n].end = "open" /\ log[n].method = call.method
      BY <1>0, <1>2, NumberIs DEF CallOk
    <2>2. \A c \in Call : /\ log'[c].end = (IF c = n THEN how ELSE log[c].end)
                          /\ log'[c].method = log[c].method /\ log'[c].runs = log[c].runs
      BY EndKeepsLog
    <2>3. AttemptLimit(call.method) \in Nat
      BY <1>0, LimitIs
    <2>4. UNCHANGED <<Limits, Counts>>
      BY <2>1, <2>2 DEF Limits, Counts, AttemptLimit
    <2>5. CASE n \in mixed
      <3>1. UNCHANGED Stages
        BY <2>1, <2>2, <2>5 DEF Stages
      <3> QED BY <2>4, <3>1
    <2>6. CASE n \notin mixed
      <3>1. /\ Limits[n] = AttemptLimit(call.method) + 1
            /\ Stages[n] = "open" /\ Counts[n] = log[n].runs
        BY <2>1, <2>6 DEF Limits, Stages, Counts
      <3>2. Stages' = [Stages EXCEPT ![n] = how]
        BY <2>1, <2>2, <2>6 DEF Stages
      <3>3. /\ how = "answered" => Counts[n] > 0
            /\ how = "refused" /\ Limits[n] = 1 => Counts[n] = 0
        BY <1>2, <2>3, <2>6, <3>1
      <3> HIDE DEF n
      <3>4. Contract!Close(n, how)
        BY <2>4, <3>1, <3>2, <3>3 DEF Contract!Close, Limits, Counts, Stages
      <3> QED BY <2>1, <3>4 DEF Contract!Next
    <2> QED BY <2>5, <2>6
  <1> QED BY <1>1, <1>2

LEMMA QuietContract ==
    ASSUME UNCHANGED <<log, retries, mixed>>
    PROVE  [Contract!Next]_<<Stages, Limits, Counts>>
  BY DEF Stages, Limits, Counts, AttemptLimit

LEMMA TransportErrorContract ==
    ASSUME TypeInv, UNCHANGED <<retries, mixed>>, NEW rest, TransportError(rest)
    PROVE  [Contract!Next]_<<Stages, Limits, Counts>>
  <1>1. Ends("failed") \/ UNCHANGED log
    BY DEF TransportError
  <1> QED BY <1>1, ClosesCall, QuietContract

LEMMA TakeAnswerContract ==
    ASSUME TypeInv, FramesInv, RunsInv, TakeAnswer
    PROVE  [Contract!Next]_<<Stages, Limits, Counts>>
  <1> DEFINE n == call.no
             frame == Head(inbox)
  <1>0. /\ call \in Calls /\ log \in [Call -> Entries] /\ CallOk /\ retries \in Retries
        /\ inbox \in Seq(Frames) /\ inbox # <<>> /\ n # 0 /\ UNCHANGED <<retries, mixed>>
        /\ call.phase = "wait" /\ frame # Event
        /\ IsFiniteSet(requests) /\ AnswersAreTrue /\ CallRuns
    BY DEF TypeInv, ClientInv, LinkInv, FrameType, TakeAnswer, Arrived, RunsInv
  <1>1. frame = inbox[1] /\ 1 \in DOMAIN inbox /\ frame \in Frames
    BY <1>0, TailIs
  <1>2. n \in Call /\ log[n].runs \in Nat
    BY <1>0, NumberIs DEF Entries
  <1>3. ASSUME frame.no = n, frame.status # "denied" PROVE log[n].runs > 0
    <2>1. frame.status \in {"event", "ok", "denied"}
      BY <1>1 DEF Frames, Event
    <2> QED BY <1>0, <1>1, <1>3, <2>1 DEF AnswersAreTrue
  <1>4. ASSUME frame.no = n, n \notin mixed, frame.status = "denied",
               AttemptLimit(call.method) = 0
        PROVE  log[n].runs = 0
    <2>1. Denied(n)
      BY <1>1, <1>4 DEF Denied
    <2>2. Due(n) <= call.tries /\ call.tries <= 0 /\ call.tries \in Nat
      BY <1>0, <1>4, <2>1 DEF CallRuns, Calls
    <2>3. Cardinality(Valid(n)) \in Nat /\ Due(n) = log[n].runs + Cardinality(Valid(n))
      BY <1>0, ValidIs DEF Due
    <2> QED BY <1>2, <2>2, <2>3
  <1>5. CASE /\ Matches(frame)
             /\ Ends(IF frame.status = "denied" THEN "refused" ELSE "answered")
    <2>0. n \notin mixed => frame.no = n
      BY <1>0, <1>5, MatchIsOwn
    <2>1. CASE frame.status = "denied"
      BY <1>0, <1>4, <1>5, <2>0, <2>1, ClosesCall
    <2>2. CASE frame.status # "denied"
      BY <1>0, <1>3, <1>5, <2>0, <2>2, ClosesCall
    <2> QED BY <2>1, <2>2
  <1>6. CASE TransportError(Tail(inbox))
    BY <1>0, <1>6, TransportErrorContract
  <1> QED BY <1>5, <1>6 DEF TakeAnswer

\* A call that is sent while an answer with its id is to come is confused.
LEMMA SendContract ==
    ASSUME TypeInv, SendRequest
    PROVE  [Contract!Next]_<<Stages, Limits, Counts>>
  <1>0. call \in Calls /\ CallOk /\ call.phase = "send" /\ call.no # 0 /\ UNCHANGED retries
    BY DEF TypeInv, ClientInv, LinkInv, SendRequest, CallOk
  <1>1. CASE linked /\ UNCHANGED <<log, mixed>>
    BY <1>0, <1>1, QuietContract
  <1>2. CASE linked /\ UNCHANGED log /\ call.no \notin mixed /\ mixed' = mixed \cup {call.no}
    <2>1. PICK n \in Call : n = call.no /\ log[n].end = "open"
      BY <1>0, NumberIs DEF CallOk
    <2>2. Stages[n] = "open" /\ Stages' = [Stages EXCEPT ![n] = "confused"]
      BY <1>2, <2>1 DEF Stages
    <2>3. UNCHANGED <<Limits, Counts>>
      BY <1>0, <1>2 DEF Limits, Counts, AttemptLimit
    <2>4. Contract!Confuse(n)
      BY <2>2, <2>3 DEF Contract!Confuse, Stages, Limits, Counts
    <2>5. Contract!Next
      BY <2>4 DEF Contract!Next
    <2> QED BY <2>5
  <1>3. CASE ~linked
    BY <1>0, <1>3, TransportErrorContract DEF SendRequest
  <1>4. linked => UNCHANGED log /\ (mixed' = mixed \/ mixed' = mixed \cup {call.no})
    BY DEF SendRequest, Goes
  <1> QED BY <1>1, <1>2, <1>3, <1>4

LEMMA ClientStepContract ==
    ASSUME TypeInv, FramesInv, RunsInv, ClientStep
    PROVE  [Contract!Next]_<<Stages, Limits, Counts>>
  <1>1. CASE Connect
    BY <1>1, QuietContract DEF Connect, Goes
  <1>2. CASE ConnectFails
    BY <1>2, ClosesCall DEF ConnectFails
  <1>3. CASE LoadToken
    BY <1>3, ClosesCall, QuietContract DEF LoadToken, Goes
  <1>4. CASE SendRequest
    BY <1>4, SendContract
  <1>5. CASE SkipEvent
    BY <1>5, QuietContract DEF SkipEvent
  <1>6. CASE TakeFrame
    BY <1>6, ClosesCall DEF TakeFrame
  <1>7. CASE RefreshToken
    BY <1>7, ClosesCall, QuietContract DEF RefreshToken
  <1>8. CASE HearNothing
    BY <1>8, TransportErrorContract DEF HearNothing
  <1> QED BY <1>1, <1>2, <1>3, <1>4, <1>5, <1>6, <1>7, <1>8, TakeAnswerContract DEF ClientStep

LEMMA BeginContract ==
    ASSUME TypeInv, FramesInv, RunsInv, NEW m \in Method, Begin(m)
    PROVE  [Contract!Next]_<<Stages, Limits, Counts>>
  <1>0. log \in [Call -> Entries] /\ retries \in Retries /\ UNCHANGED <<retries, mixed>>
    BY DEF TypeInv, FrameType, Begin
  <1>1. PICK c \in Call :
          /\ log[c].end = "new"
          /\ \A b \in Call : /\ log'[b].end = (IF b = c THEN "open" ELSE log[b].end)
                             /\ log'[b].method = (IF b = c THEN m ELSE log[b].method)
                             /\ log'[b].runs = log[b].runs
    BY BeginIs
  <1>2. AttemptLimit(m) + 1 \in 1..MaxRunsPerCall
    BY <1>0, LimitFits
  <1>3. Stages[c] = "new" /\ Stages' = [Stages EXCEPT ![c] = "open"] /\ UNCHANGED Counts
    <2>1. c \notin mixed
      BY <1>1 DEF FramesInv
    <2> QED BY <1>0, <1>1, <2>1 DEF Stages, Counts
  <1>4. Limits' = [Limits EXCEPT ![c] = AttemptLimit(m) + 1]
    BY <1>0, <1>1 DEF Limits, AttemptLimit
  <1>5. Contract!Open(c)
    BY <1>2, <1>3, <1>4 DEF Contract!Open, Stages, Limits, Counts
  <1> QED BY <1>5 DEF Contract!Next

LEMMA ExecuteContract ==
    ASSUME TypeInv, FramesInv, RunsInv, NEW r \in requests, Execute(r)
    PROVE  [Contract!Next]_<<Stages, Limits, Counts>>
  <1> DEFINE c == r.no
             m == log[r.no].runs + 1
  <1>0. /\ log \in [Call -> Entries] /\ c \in Call /\ retries \in Retries
        /\ UNCHANGED <<retries, mixed>>
        /\ ~r.done /\ r.token = r.at /\ log[c].end # "new" /\ log[c].runs \in Nat
        /\ IsFiniteSet(requests)
    BY DEF TypeInv, FrameType, Wire, Entries, Execute, RunsInv, FramesInv
  <1>1. m \in Nat /\ log' = [log EXCEPT ![c].runs = m]
    BY <1>0 DEF Execute
  <1>2. \A b \in Call : /\ log'[b].end = log[b].end /\ log'[b].method = log[b].method
                        /\ log'[b].runs = IF b = c THEN m ELSE log[b].runs
    <2> HIDE DEF m, c
    <2> QED BY <1>0, <1>1 DEF Entries
  <1>3. Stages[c] # "new" /\ Limits[c] = Allowed(c) /\ Counts[c] = log[c].runs
    BY <1>0 DEF Stages, Limits, Counts, Allowed
  <1>4. ASSUME c \notin mixed PROVE log[c].runs < Allowed(c)
    <2>1. r \in Valid(c) /\ IsFiniteSet(Valid(c)) /\ Cardinality(Valid(c)) \in Nat
      BY <1>0, ValidIs DEF Valid
    <2>2. Cardinality(Valid(c)) # 0
      BY <2>1, FS_EmptySet
    <2>3. log[c].runs + Cardinality(Valid(c)) <= Allowed(c)
      BY <1>0, <1>4 DEF RunsInv, Due
    <2>4. Allowed(c) \in Nat
      BY <1>0, LimitIs DEF Allowed
    <2> QED BY <1>0, <2>1, <2>2, <2>3, <2>4
  <1>5. ~(Allowed(c) = 1 /\ log[c].end = "refused" /\ c \notin mixed)
    <2> SUFFICES ASSUME Allowed(c) = 1, log[c].end = "refused", c \notin mixed PROVE FALSE
      OBVIOUS
    <2>1. Silent(c) /\ AllMine(c)
      BY <1>0 DEF FramesInv, RunsInv, Once
    <2> QED BY <2>1 DEF Silent, HasRequest, AllMine
  <1>6. UNCHANGED <<Stages, Limits>> /\ Counts' = [Counts EXCEPT ![c] = m]
    BY <1>0, <1>2 DEF Stages, Limits, Counts, AttemptLimit
  <1>7. m = Counts[c] + 1
    BY <1>3
  <1> HIDE DEF m, c
  <1>8. Contract!Run(c)
    <2>1. CASE c \in mixed
      BY <1>0, <1>3, <1>6, <1>7, <2>1 DEF Contract!Run, Stages, Limits, Counts
    <2>2. CASE c \notin mixed
      BY <1>0, <1>3, <1>4, <1>5, <1>6, <1>7, <2>2 DEF Contract!Run, Stages, Limits, Counts
    <2> QED BY <2>1, <2>2
  <1> QED BY <1>0, <1>8 DEF Contract!Next

LEMMA ContractStep ==
    ASSUME TypeInv, FramesInv, RunsInv, [Next]_vars
    PROVE  [Contract!Next]_<<Stages, Limits, Counts>>
  <1>1. CASE UNCHANGED clientVars
    BY <1>1, QuietContract DEF clientVars
  <1>2. CASE ReadFrame \/ Emit \/ \E n \in Kernel : Gone(n)
    BY <1>2, QuietContract DEF ReadFrame, Emit, Gone
  <1>3. CASE RefuseUnsent
    BY <1>3, ClosesCall DEF RefuseUnsent
  <1>4. ASSUME NEW r \in requests, Reply(r)
        PROVE  [Contract!Next]_<<Stages, Limits, Counts>>
    BY <1>4, QuietContract DEF Reply
  <1> QED BY <1>1, <1>2, <1>3, <1>4, ClientStepContract, BeginContract, ExecuteContract
          DEF Next, KernelStep, EnsureSocket, vars

\* For any kernels, retries, ids and number of calls, and unless the id of the
\* call was mixed up with that of a call that failed: the kernel runs it at most
\* as often as the client may send it, an answer is the answer to that call,
\* and a call that is sent once and is refused is never run (send_rpc,
\* raw_call).
THEOREM CallsKeepTheirContract == Spec => ImplementsCallContract
  <1>1. Init => Contract!Init
    <2> SUFFICES ASSUME Init PROVE Contract!Init
      OBVIOUS
    <2>1. mixed = {} /\ \A c \in Call : log[c].end = "new" /\ log[c].runs = 0
      BY DEF Init, Unmade
    <2> QED BY <2>1 DEF Contract!Init
  <1>2. TypeInv /\ FramesInv /\ RunsInv /\ [Next]_vars => [Contract!Next]_(Contract!vars)
    BY ContractStep DEF Contract!vars, Stages, Limits, Counts
  <1> QED BY <1>1, <1>2, TypeStart, TypeKeeps, FramesStart, FramesKeep, RunsStart, RunsKeep,
             PTL DEF Spec, ImplementsCallContract, Contract!Spec

\* A mutation of a client without retries is run once at most, whatever becomes
\* of its answer and of its connection, unless its id was mixed up: then its
\* refusal may have been another call's, and it is sent again (raw_call,
\* --retries).
MutationsRunOnce ==
    retries = 0 =>
      \A c \in Call \ mixed : log[c].method = "mutate" => log[c].runs <= 1

\* As CallsKeepTheirContract, of the calls of which the caller must know most.
THEOREM MutationsAreRunOnce == Spec => []MutationsRunOnce
  <1>1. TypeInv /\ FramesInv /\ RunsInv => MutationsRunOnce
    <2> SUFFICES ASSUME TypeInv, RunsInv, retries = 0,
                        NEW c \in Call \ mixed, log[c].method = "mutate"
                 PROVE  log[c].runs <= 1
      BY DEF MutationsRunOnce
    <2>1. log[c].runs \in Nat /\ IsFiniteSet(requests)
      BY DEF TypeInv, FrameType, Entries, RunsInv
    <2>2. CASE log[c].end = "new"
      BY <2>2 DEF RunsInv
    <2>3. CASE log[c].end # "new"
      <3>1. Due(c) <= Allowed(c)
        BY <2>3 DEF RunsInv
      <3>2. Allowed(c) = 1
        BY DEF Allowed, AttemptLimit
      <3>3. Cardinality(Valid(c)) \in Nat /\ Due(c) = log[c].runs + Cardinality(Valid(c))
        BY <2>1, ValidIs DEF Due
      <3> QED BY <2>1, <3>1, <3>2, <3>3
    <2> QED BY <2>2, <2>3
  <1> QED BY <1>1, TypeStart, TypeKeeps, FramesStart, FramesKeep, RunsStart, RunsKeep, PTL DEF Spec

-----------------------------------------------------------------------------
(* Connections on which a call has failed.                                 *)

\* Such a connection was closed by its kernel, and a call that meets it is at
\* its first attempt.
DeadInv == dead => ~linked /\ call.tries = 0

LEMMA DeadStays ==
    ASSUME DeadInv, dead' => dead, linked' => linked,
           call'.tries = call.tries \/ call'.tries = 0
    PROVE  DeadInv'
  BY DEF DeadInv

LEMMA DeadFrame ==
    ASSUME DeadInv, UNCHANGED clientVars
    PROVE  DeadInv'
  <1>1. UNCHANGED <<connection, call, dead>>
    BY DEF clientVars
  <1>2. UNCHANGED linked
    BY <1>1 DEF connection
  <1> QED BY <1>1, <1>2 DEF DeadInv

LEMMA DeadEnds ==
    ASSUME NEW how, Ends(how)
    PROVE  call'.tries = 0
  BY DEF Ends, Idle

LEMMA DeadGoes ==
    ASSUME TypeInv, NEW phase, Goes(phase)
    PROVE  call'.tries = call.tries
  BY DEF Goes, TypeInv, ClientInv, LinkInv, Calls

LEMMA DeadError ==
    ASSUME DeadInv, NEW rest, TransportError(rest)
    PROVE  DeadInv'
  <1>1. CASE Reopens
    BY <1>1 DEF Reopens, DeadInv
  <1>2. CASE /\ Ends("failed") /\ UNCHANGED connection
             /\ dead' = (dead \/ (call.no # 0 /\ ~linked))
    <2>1. call'.tries = 0 /\ linked' = linked
      BY <1>2, DeadEnds DEF connection
    <2>2. dead' => dead \/ ~linked
      BY <1>2
    <2> QED BY <2>1, <2>2 DEF DeadInv
  <1> QED BY <1>1, <1>2, TransportErrorIs

LEMMA DeadKeeps ==
    ASSUME TypeInv, DeadInv, [Next]_vars
    PROVE  DeadInv'
  <1>0. call \in Calls
    BY DEF TypeInv, ClientInv, LinkInv
  <1>1. CASE Connect
    BY <1>1 DEF Connect, DeadInv
  <1>2. CASE ConnectFails \/ RefuseUnsent \/ TakeFrame
    <2>1. UNCHANGED <<linked, dead>>
      BY <1>2 DEF ConnectFails, RefuseUnsent, TakeFrame, connection
    <2> QED BY <1>2, <2>1, DeadEnds, DeadStays DEF ConnectFails, RefuseUnsent, TakeFrame
  <1>3. CASE LoadToken
    BY <1>3, DeadEnds, DeadGoes, DeadStays DEF LoadToken
  <1>4. CASE SendRequest
    <2>1. CASE linked
      BY <1>4, <2>1, DeadGoes, DeadStays DEF SendRequest, connection
    <2>2. CASE ~linked
      BY <1>4, <2>2, DeadError DEF SendRequest
    <2> QED BY <2>1, <2>2
  <1>5. CASE TakeAnswer
    <2>1. CASE UNCHANGED <<connection, dead>> /\ \E how : Ends(how)
      BY <2>1, DeadEnds, DeadStays DEF connection
    <2>2. CASE TransportError(Tail(inbox))
      BY <2>2, DeadError
    <2> QED BY <1>5, <2>1, <2>2 DEF TakeAnswer
  <1>6. CASE RefreshToken
    <2>1. UNCHANGED <<linked, dead>>
      BY <1>6 DEF RefreshToken
    <2>2. call'.tries = call.tries \/ call'.tries = 0
      BY <1>0, <1>6, DeadEnds DEF RefreshToken, Calls
    <2> QED BY <2>1, <2>2, DeadStays
  <1>7. CASE HearNothing
    BY <1>7, DeadError DEF HearNothing
  <1>8. CASE \E m \in Method : Begin(m)
    <2> PICK m \in Method : Begin(m)
      BY <1>8
    <2>1. UNCHANGED connection /\ UNCHANGED dead
      BY DEF Begin
    <2>2. call'.tries = 0
      BY DEF Begin
    <2> QED BY <2>1, <2>2 DEF DeadInv, connection
  <1>9. CASE ReadFrame
    <2>1. UNCHANGED connection /\ UNCHANGED dead
      BY <1>9 DEF ReadFrame
    <2>2. call'.tries = 0
      BY <1>9 DEF ReadFrame, Idle
    <2> QED BY <2>1, <2>2 DEF DeadInv, connection
  <1>10. CASE EnsureSocket \/ UNCHANGED vars
    <2>1. UNCHANGED clientVars
      BY <1>10 DEF EnsureSocket, vars
    <2> QED BY <2>1, DeadFrame
  <1>11. CASE SkipEvent \/ Emit \/ \E r \in requests : Execute(r) \/ Reply(r)
    <2>1. UNCHANGED connection /\ UNCHANGED call /\ UNCHANGED dead
      BY <1>11 DEF SkipEvent, Emit, Execute, Reply
    <2> QED BY <2>1 DEF DeadInv, connection
  <1>12. CASE KernelStep
    <2>1. UNCHANGED clientVars \/ \E n \in Kernel : Gone(n)
      BY <1>12 DEF KernelStep
    <2>2. ASSUME NEW n \in Kernel, Gone(n) PROVE DeadInv'
      <3>1. linked' = (linked /\ peer # n) /\ UNCHANGED call /\ UNCHANGED dead
        BY <2>2 DEF Gone
      <3>2. linked' => linked
        BY <3>1, Zenon
      <3> QED BY <3>1, <3>2 DEF DeadInv
    <2> QED BY <2>1, <2>2, DeadFrame
  <1> QED BY <1>1, <1>2, <1>3, <1>4, <1>5, <1>6, <1>7, <1>8, <1>9, <1>10, <1>11, <1>12
          DEF Next, ClientStep

\* A read that meets a connection on which a call has failed leaves it, however
\* few retries the client was created with.
THEOREM DeadConnectionsAreLeft == Spec => ReadsLeaveDeadConnections
  <1>1. Init => DeadInv
    BY DEF Init, DeadInv
  <1>2. TypeInv /\ DeadInv /\ [Next]_vars
          => [SendRequest /\ dead /\ call.method = "read" => ~dead']_vars
    <2> SUFFICES ASSUME TypeInv, DeadInv, SendRequest, dead, call.method = "read"
                 PROVE  ~dead'
      OBVIOUS
    <2>1. call.no # 0 /\ call.tries = 0 /\ ~linked
      BY DEF TypeInv, CallOk, SendRequest, DeadInv
    <2>2. 0 < AttemptLimit("read")
      <3>1. retries \in Nat
        BY ClientAssumption DEF TypeInv, FrameType
      <3> QED BY <3>1 DEF AttemptLimit
    <2>3. TransportError(inbox)
      BY <2>1 DEF SendRequest
    <2> QED BY <2>1, <2>2, <2>3 DEF TransportError
  <1> QED BY <1>1, <1>2, TypeStart, TypeKeeps, DeadKeeps, PTL
          DEF Spec, ReadsLeaveDeadConnections
-----------------------------------------------------------------------------
(* What is left to do for a call.                                           *)

PhaseRank == [open |-> 4, token |-> 3, send |-> 2, wait |-> 1, idle |-> 0]

\* One turn of an attempt passes through the phases, a refresh of the token
\* sends the request once more, and every attempt that is left may do both.
BudgetOf(stage, refreshed, tries, limit) ==
    PhaseRank[stage] + (IF refreshed THEN 0 ELSE 4) + 8 * (limit - tries)

CallBudget ==
    IF call = Idle THEN 0
    ELSE BudgetOf(call.phase, call.refreshed, call.tries, AttemptLimit(call.method))

\* No step but Begin and ReadFrame, which need an idle client, gives a call
\* more to do, and every step of the client takes from it, but to skip an
\* event, which shortens the inbox: an attempt, a refresh and an event are
\* each used up (the loops of raw_call and send_rpc).
CallsDrawNearer ==
    [][ /\ call # Idle => CallBudget' <= CallBudget
        /\ ClientStep => CallBudget' < CallBudget
                         \/ (SkipEvent /\ UNCHANGED call /\ Len(inbox') < Len(inbox))
      ]_vars

\* A call has not had more attempts than it may have.
TriesFit == call.tries <= AttemptLimit(call.method)

LEMMA PhasesFall ==
    ASSUME NEW limit \in Nat, NEW tries \in Nat, NEW refreshed \in BOOLEAN, tries <= limit
    PROVE  /\ \A s \in {"open", "token", "send", "wait"} : BudgetOf(s, refreshed, tries, limit) > 0
           /\ BudgetOf("token", refreshed, tries, limit) < BudgetOf("open", refreshed, tries, limit)
           /\ BudgetOf("send", refreshed, tries, limit) < BudgetOf("token", refreshed, tries, limit)
           /\ BudgetOf("wait", refreshed, tries, limit) < BudgetOf("token", refreshed, tries, limit)
           /\ BudgetOf("wait", refreshed, tries, limit) < BudgetOf("send", refreshed, tries, limit)
           /\ BudgetOf("send", TRUE, tries, limit) < BudgetOf("wait", FALSE, tries, limit)
           /\ tries < limit => \A s \in {"send", "wait"} :
                 BudgetOf("open", refreshed, tries + 1, limit) < BudgetOf(s, refreshed, tries, limit)
  BY DEF BudgetOf, PhaseRank

LEMMA BudgetTyped ==
    ASSUME TypeInv, TriesFit
    PROVE  /\ call.tries \in Nat /\ call.refreshed \in BOOLEAN
           /\ AttemptLimit(call.method) \in Nat
           /\ CallBudget \in Int
           /\ call.phase # "idle" =>
                /\ CallBudget = BudgetOf(call.phase, call.refreshed, call.tries,
                                         AttemptLimit(call.method))
                /\ CallBudget > 0
  <1>1. call \in Calls /\ retries \in Retries
    BY DEF TypeInv, ClientInv, LinkInv, FrameType
  <1>2. call.tries \in Nat /\ call.refreshed \in BOOLEAN
    BY <1>1 DEF Calls
  <1>3. AttemptLimit(call.method) \in Nat
    BY <1>1, LimitIs
  <1>4. ASSUME call.phase # "idle"
        PROVE  /\ CallBudget = BudgetOf(call.phase, call.refreshed, call.tries,
                                        AttemptLimit(call.method))
               /\ call.phase \in {"open", "token", "send", "wait"}
    BY <1>1, <1>4 DEF CallBudget, Idle, Calls
  <1>5. CallBudget \in Int
    <2>1. call.phase \in {"idle", "open", "token", "send", "wait"}
      BY <1>1 DEF Calls
    <2>2. BudgetOf(call.phase, call.refreshed, call.tries, AttemptLimit(call.method)) \in Int
      BY <1>2, <1>3, <2>1 DEF BudgetOf, PhaseRank
    <2> QED BY <2>2 DEF CallBudget
  <1> QED BY <1>2, <1>3, <1>4, <1>5, PhasesFall DEF TriesFit

LEMMA EndsSpend ==
    ASSUME TypeInv, TriesFit, call.phase # "idle", UNCHANGED retries, NEW how, Ends(how)
    PROVE  TriesFit' /\ CallBudget' < CallBudget
  <1>1. call' = Idle
    BY DEF Ends
  <1>2. CallBudget' = 0
    BY <1>1 DEF CallBudget
  <1>3. retries \in Nat
    BY ClientAssumption DEF TypeInv, FrameType
  <1>4. TriesFit'
    BY <1>1, <1>3 DEF TriesFit, Idle, AttemptLimit
  <1> QED BY <1>2, <1>4, BudgetTyped

\* The call goes on with the same attempt.
LEMMA GoesSpend ==
    ASSUME TypeInv, TriesFit, UNCHANGED retries, NEW stage, stage # "idle",
           call'.phase = stage, call'.method = call.method, call'.tries = call.tries
    PROVE  /\ TriesFit'
           /\ CallBudget' = BudgetOf(stage, call'.refreshed, call.tries, AttemptLimit(call.method))
  <1>1. call' # Idle
    BY DEF Idle
  <1>2. AttemptLimit(call.method)' = AttemptLimit(call.method)
    BY DEF AttemptLimit
  <1> QED BY <1>1, <1>2 DEF TriesFit, CallBudget

LEMMA PhaseSpends ==
    ASSUME TypeInv, TriesFit, UNCHANGED retries, NEW stage, Goes(stage),
           \/ call.phase = "open" /\ stage = "token"
           \/ call.phase = "token" /\ stage \in {"send", "wait"}
           \/ call.phase = "send" /\ stage = "wait"
    PROVE  TriesFit' /\ CallBudget' < CallBudget
  <1>1. call \in Calls
    BY DEF TypeInv, ClientInv, LinkInv
  <1>2. /\ call'.phase = stage /\ call'.method = call.method /\ call'.tries = call.tries
        /\ call'.refreshed = call.refreshed
    BY <1>1 DEF Goes, Calls
  <1>3. /\ TriesFit'
        /\ CallBudget' = BudgetOf(stage, call.refreshed, call.tries, AttemptLimit(call.method))
    BY <1>2, GoesSpend
  <1> QED BY <1>3, BudgetTyped, PhasesFall DEF TriesFit

LEMMA ErrorSpends ==
    ASSUME TypeInv, TriesFit, UNCHANGED retries, call.phase \in {"send", "wait"},
           NEW rest, TransportError(rest)
    PROVE  TriesFit' /\ CallBudget' < CallBudget
  <1> DEFINE limit == AttemptLimit(call.method)
  <1>1. CASE Reopens
    <2>1. /\ call'.method = call.method /\ call'.phase = "open"
          /\ call'.tries = call.tries + 1 /\ call'.refreshed = call.refreshed
      BY <1>1, ReopensIs DEF TypeInv, ClientInv, LinkInv
    <2>2. /\ call.tries \in Nat /\ call.refreshed \in BOOLEAN /\ limit \in Nat
          /\ CallBudget = BudgetOf(call.phase, call.refreshed, call.tries, limit)
      BY BudgetTyped
    <2>3. call.tries < limit
      BY <1>1 DEF Reopens
    <2>4. AttemptLimit(call.method)' = limit
      BY <2>1 DEF AttemptLimit
    <2>5. TriesFit'
      BY <2>1, <2>2, <2>3, <2>4 DEF TriesFit
    <2>6. call' # Idle
      BY <2>1 DEF Idle
    <2>7. CallBudget' = BudgetOf("open", call.refreshed, call.tries + 1, limit)
      BY <2>1, <2>4, <2>6 DEF CallBudget
    <2>8. call.tries <= limit
      <3> HIDE DEF limit
      <3> QED BY <2>2, <2>3
    <2>9. BudgetOf("open", call.refreshed, call.tries + 1, limit)
            < BudgetOf(call.phase, call.refreshed, call.tries, limit)
      <3> HIDE DEF limit
      <3> QED BY <2>2, <2>3, <2>8, PhasesFall
    <2> QED BY <2>2, <2>5, <2>7, <2>9
  <1>2. CASE Ends("failed")
    BY <1>2, EndsSpend
  <1> QED BY <1>1, <1>2, TransportErrorIs

LEMMA RefreshSpends ==
    ASSUME TypeInv, TriesFit, RefreshToken
    PROVE  TriesFit' /\ CallBudget' < CallBudget
  <1>0. call \in Calls /\ call.phase = "wait" /\ call.refreshed = FALSE /\ UNCHANGED retries
    BY DEF TypeInv, ClientInv, LinkInv, Calls, RefreshToken, Arrived
  <1>1. CASE Ends("failed")
    BY <1>0, <1>1, EndsSpend
  <1>2. CASE call' = [call EXCEPT !.refreshed = TRUE, !.phase = "send"]
    <2>1. /\ call'.phase = "send" /\ call'.method = call.method /\ call'.tries = call.tries
          /\ call'.refreshed = TRUE
      BY <1>0, <1>2 DEF Calls
    <2>2. /\ TriesFit'
          /\ CallBudget' = BudgetOf("send", TRUE, call.tries, AttemptLimit(call.method))
      BY <1>0, <2>1, GoesSpend
    <2> QED BY <1>0, <2>2, BudgetTyped, PhasesFall DEF TriesFit
  <1> QED BY <1>1, <1>2 DEF RefreshToken

LEMMA SkipSpends ==
    ASSUME TypeInv, SkipEvent
    PROVE  UNCHANGED call /\ UNCHANGED retries /\ Len(inbox') < Len(inbox)
  <1>1. inbox \in Seq(Frames) /\ inbox # <<>> /\ inbox' = Tail(inbox)
    BY DEF TypeInv, FrameType, SkipEvent, Arrived
  <1>2. UNCHANGED call /\ UNCHANGED retries
    BY DEF SkipEvent
  <1> QED BY <1>1, <1>2

LEMMA ClientStepSpends ==
    ASSUME TypeInv, TriesFit, ClientStep
    PROVE  /\ TriesFit'
           /\ CallBudget' < CallBudget
              \/ (SkipEvent /\ UNCHANGED call /\ UNCHANGED retries /\ Len(inbox') < Len(inbox))
  <1>1. CASE Connect
    BY <1>1, PhaseSpends DEF Connect
  <1>2. CASE ConnectFails \/ TakeFrame
    BY <1>2, EndsSpend DEF ConnectFails, TakeFrame, Arrived
  <1>3. CASE LoadToken
    BY <1>3, EndsSpend, PhaseSpends DEF LoadToken
  <1>4. CASE SendRequest
    BY <1>4, PhaseSpends, ErrorSpends DEF SendRequest
  <1>5. CASE SkipEvent
    BY <1>5, SkipSpends DEF TriesFit, AttemptLimit
  <1>6. CASE TakeAnswer
    <2>1. call.phase = "wait" /\ UNCHANGED retries
      BY <1>6 DEF TakeAnswer, Arrived
    <2>2. (\E how : Ends(how)) \/ TransportError(Tail(inbox))
      BY <1>6 DEF TakeAnswer
    <2> QED BY <2>1, <2>2, EndsSpend, ErrorSpends
  <1>7. CASE HearNothing
    BY <1>7, ErrorSpends DEF HearNothing
  <1> QED BY <1>1, <1>2, <1>3, <1>4, <1>5, <1>6, <1>7, RefreshSpends DEF ClientStep

\* A step of anybody else leaves the call as it is; a new call is made by an
\* idle client.
LEMMA OthersSpend ==
    ASSUME TypeInv, TriesFit, [Next]_vars, ~ClientStep
    PROVE  /\ TriesFit'
           /\ call # Idle => CallBudget' <= CallBudget \/ CallBudget' < CallBudget
  <1>0. retries \in Nat
    BY ClientAssumption DEF TypeInv, FrameType
  <1>1. CASE UNCHANGED call /\ UNCHANGED retries
    <2>1. TriesFit'
      BY <1>1 DEF TriesFit, AttemptLimit
    <2>2. CallBudget' = CallBudget
      BY <1>1 DEF CallBudget, AttemptLimit
    <2> QED BY <2>1, <2>2, BudgetTyped
  <1>2. CASE \E m \in Method : Begin(m)
    <2> PICK m \in Method : Begin(m)
      BY <1>2
    <2>1. call = Idle /\ call'.tries = 0 /\ UNCHANGED retries
      BY DEF Begin
    <2> QED BY <1>0, <2>1 DEF TriesFit, AttemptLimit
  <1>3. CASE ReadFrame
    <2>1. call = Idle /\ call'.tries = 0 /\ UNCHANGED retries
      BY <1>3 DEF ReadFrame, Idle
    <2> QED BY <1>0, <2>1 DEF TriesFit, AttemptLimit
  <1>4. CASE RefuseUnsent
    <2>1. call.phase # "idle" /\ UNCHANGED retries /\ Ends("failed")
      BY <1>4 DEF RefuseUnsent
    <2> QED BY <2>1, EndsSpend
  <1>5. CASE Emit \/ EnsureSocket \/ (\E n \in Kernel : Gone(n)) \/ UNCHANGED clientVars
    BY <1>1, <1>5 DEF Emit, EnsureSocket, Gone, clientVars
  <1>6. CASE \E r \in requests : Execute(r) \/ Reply(r)
    BY <1>1, <1>6 DEF Execute, Reply
  <1> QED BY <1>2, <1>3, <1>4, <1>5, <1>6 DEF Next, KernelStep, vars

\* A call takes boundedly many steps of its client, whatever the kernels do:
\* with the fairness of the client this is why every call ends.
THEOREM CallsTakeFewSteps == Spec => CallsDrawNearer
  <1>1. Init => TriesFit
    <2>1. ASSUME Init PROVE retries \in Nat /\ call = Idle
      BY <2>1, ClientAssumption DEF Init
    <2> QED BY <2>1 DEF TriesFit, AttemptLimit, Idle
  <1>2. TypeInv /\ TriesFit /\ [Next]_vars => TriesFit'
    BY ClientStepSpends, OthersSpend
  <1>3. (TypeInv /\ TriesFit => CallBudget \in Int)'
    BY BudgetTyped, PTL
  <1>4. TypeInv /\ TriesFit /\ [Next]_vars
          => [ /\ call # Idle => CallBudget' <= CallBudget
               /\ ClientStep => CallBudget' < CallBudget
                                \/ (SkipEvent /\ UNCHANGED call /\ Len(inbox') < Len(inbox))
             ]_vars
    <2> SUFFICES ASSUME TypeInv, TriesFit, [Next]_vars
                 PROVE  /\ call # Idle => CallBudget' <= CallBudget
                        /\ ClientStep => CallBudget' < CallBudget
                             \/ (SkipEvent /\ UNCHANGED call /\ Len(inbox') < Len(inbox))
      OBVIOUS
    <2>1. CallBudget \in Int /\ CallBudget' \in Int
      BY <1>2, <1>3, TypeKeeps, BudgetTyped
    <2>2. CASE ~ClientStep
      BY <2>1, <2>2, OthersSpend
    <2>3. CASE ClientStep
      <3>1. CASE CallBudget' < CallBudget
        BY <2>1, <3>1
      <3>2. CASE SkipEvent /\ UNCHANGED call /\ UNCHANGED retries /\ Len(inbox') < Len(inbox)
        <4>1. CallBudget' = CallBudget
          BY <3>2 DEF CallBudget, AttemptLimit
        <4> QED BY <2>1, <3>2, <4>1
      <3> QED BY <2>3, <3>1, <3>2, ClientStepSpends
    <2> QED BY <2>2, <2>3
  <1> QED BY <1>1, <1>2, <1>4, TypeStart, TypeKeeps, PTL DEF Spec, CallsDrawNearer
=============================================================================
