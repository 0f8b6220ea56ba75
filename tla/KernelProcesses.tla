--------------------------- MODULE KernelProcesses --------------------------
(***************************************************************************)
(* The kernel processes of one home directory and the two files by which   *)
(* clients find them: control.sock, which leads to the kernel that bound   *)
(* it last, and session.token, which holds the token of the kernel that    *)
(* wrote it last.                                                          *)
(*                                                                         *)
(* A kernel is launched by an --ensure-socket that could not connect, and  *)
(* nothing tells it of another one that was launched at the same time.  It *)
(* writes its token before it listens.  A kernel that is told to stop      *)
(* unlinks both files, whoever they belong to; one that crashes leaves     *)
(* them behind.                                                            *)
(***************************************************************************)
EXTENDS Naturals

CONSTANTS
    Kernel,   \* kernel processes
    NoKernel  \* "no kernel": no file, no connection, no token

ASSUME KernelAssumption == NoKernel \notin Kernel

VARIABLES
    kernel,      \* the state of each process
    sockFile,    \* the kernel that control.sock leads to
    tokenFile,   \* the kernel whose token is in session.token
    overlapped   \* history: two kernels have been up at the same time

kernelVars == <<kernel, sockFile, tokenFile, overlapped>>

KernelState == {"unborn", "launched", "token", "up", "gone"}

\* Processes that hold a token that requests have to present.
Alive == {n \in Kernel : kernel[n] \in {"token", "up"}}

\* connect() on control.sock succeeds.
Connectable == sockFile # NoKernel /\ kernel[sockFile] = "up"

-----------------------------------------------------------------------------
KernelInit ==
    /\ kernel = [n \in Kernel |-> "unborn"]
    /\ sockFile = NoKernel
    /\ tokenFile = NoKernel
    /\ overlapped = FALSE

Launch(n) ==
    /\ kernel[n] = "unborn"
    /\ ~Connectable
    /\ kernel' = [kernel EXCEPT ![n] = "launched"]
    /\ UNCHANGED <<sockFile, tokenFile, overlapped>>

WriteToken(n) ==
    /\ kernel[n] = "launched"
    /\ kernel' = [kernel EXCEPT ![n] = "token"]
    /\ tokenFile' = n
    /\ overlapped' = (overlapped \/ Alive # {})
    /\ UNCHANGED sockFile

Listen(n) ==
    /\ kernel[n] = "token"
    /\ kernel' = [kernel EXCEPT ![n] = "up"]
    /\ sockFile' = n
    /\ UNCHANGED <<tokenFile, overlapped>>

Stop(n) ==
    /\ kernel[n] = "up"
    /\ kernel' = [kernel EXCEPT ![n] = "gone"]
    /\ sockFile' = NoKernel
    /\ tokenFile' = NoKernel
    /\ UNCHANGED overlapped

Crash(n) ==
    /\ kernel[n] \in {"token", "up"}
    /\ kernel' = [kernel EXCEPT ![n] = "gone"]
    /\ UNCHANGED <<sockFile, tokenFile, overlapped>>
=============================================================================
