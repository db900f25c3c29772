---------------------------- MODULE PipeConnection ----------------------------
(***************************************************************************)
(* One named pipe connection on Windows (internal/pipe/pipe_windows.go):   *)
(* reads and writes are overlapped operations of the kernel, each with a   *)
(* deadline; Close may run at any time, from several goroutines.  The      *)
(* memory and the event of an operation belong to the kernel until it has  *)
(* completed, and the handle may not be used once it is closed: its number *)
(* may by then be another object's.                                        *)
(***************************************************************************)
EXTENDS FiniteSets

CONSTANTS
    Calls,      \* goroutines that read or write
    Closers     \* goroutines that close

VARIABLES
    io,         \* where each Read or Write is
    kernel,     \* the overlapped operation of each call, as the kernel sees it
    pending,    \* pipeConn.pending
    closed,     \* pipeConn.closed
    handle,     \* the Windows handle
    closeAt,    \* where each Close is; closeOnce lets one of them work
    awaited,    \* the operations the working Close cancelled and waits for
    misuse      \* history: the handle was used after CloseHandle

pipeVars == <<io, kernel, pending, closed, handle, closeAt, awaited, misuse>>

PipeInit ==
    /\ io = [c \in Calls |-> "idle"] /\ kernel = [c \in Calls |-> "none"]
    /\ pending = {} /\ closed = FALSE /\ handle = "open"
    /\ closeAt = [c \in Closers |-> "idle"] /\ awaited = {}
    /\ misuse = FALSE

-----------------------------------------------------------------------------
(* Read and Write *)

\* beginIO.
Begin(c) ==
    /\ io[c] = "idle"
    /\ IF closed
       THEN io' = [io EXCEPT ![c] = "refused"] /\ UNCHANGED pending
       ELSE io' = [io EXCEPT ![c] = "registered"] /\ pending' = pending \cup {c}
    /\ UNCHANGED <<kernel, closed, handle, closeAt, awaited, misuse>>

\* ReadFile or WriteFile: at once, failing, or pending.
Issue(c) ==
    /\ io[c] = "registered"
    /\ misuse' = (misuse \/ handle = "closed")
    /\ \/ io' = [io EXCEPT ![c] = "ending"] /\ UNCHANGED kernel
       \/ io' = [io EXCEPT ![c] = "waiting"] /\ kernel' = [kernel EXCEPT ![c] = "inflight"]
    /\ UNCHANGED <<pending, closed, handle, closeAt, awaited>>

\* Data, a lost peer, or the end of a cancellation.
Complete(c) ==
    /\ kernel[c] \in {"inflight", "cancelling"}
    /\ kernel' = [kernel EXCEPT ![c] = "complete"]
    /\ UNCHANGED <<io, pending, closed, handle, closeAt, awaited, misuse>>

\* The event is signalled; GetOverlappedResult asks the handle.
Wake(c) ==
    /\ io[c] \in {"waiting", "reaping"} /\ kernel[c] = "complete"
    /\ misuse' = (misuse \/ handle = "closed")
    /\ io' = [io EXCEPT ![c] = "ending"]
    /\ UNCHANGED <<kernel, pending, closed, handle, closeAt, awaited>>

\* The deadline: cancelAndReap.
Deadline(c) ==
    /\ io[c] = "waiting" /\ kernel[c] # "complete"
    /\ misuse' = (misuse \/ handle = "closed")
    /\ kernel' = [kernel EXCEPT ![c] = "cancelling"] /\ io' = [io EXCEPT ![c] = "reaping"]
    /\ UNCHANGED <<pending, closed, handle, closeAt, awaited>>

\* endIO: the event is closed, and whoever waits for the operation goes on.
EndIO(c) ==
    /\ io[c] = "ending" /\ io' = [io EXCEPT ![c] = "idle"]
    /\ pending' = pending \ {c} /\ awaited' = awaited \ {c}
    /\ kernel' = [kernel EXCEPT ![c] = IF kernel[c] = "complete" THEN "none" ELSE kernel[c]]
    /\ UNCHANGED <<closed, handle, closeAt, misuse>>

-----------------------------------------------------------------------------
(* Close *)

CloseEnters(c) ==
    /\ closeAt[c] = "idle"
    /\ IF \A d \in Closers : closeAt[d] = "idle"
       THEN /\ closeAt' = [closeAt EXCEPT ![c] = "cancel"]
            /\ closed' = TRUE /\ awaited' = pending
       ELSE closeAt' = [closeAt EXCEPT ![c] = "joined"] /\ UNCHANGED <<closed, awaited>>
    /\ UNCHANGED <<io, kernel, pending, handle, misuse>>

\* Operations that are registered and not yet issued are not cancelled by this.
CloseCancels(c) ==
    /\ closeAt[c] = "cancel" /\ closeAt' = [closeAt EXCEPT ![c] = "wait"]
    /\ kernel' = [o \in Calls |-> IF o \in awaited /\ kernel[o] = "inflight" THEN "cancelling" ELSE kernel[o]]
    /\ UNCHANGED <<io, pending, closed, handle, awaited, misuse>>

\* Mutant: the handle is closed as soon as the operations are cancelled.
CloseEager(c) ==
    /\ closeAt[c] = "wait" /\ handle' = "closed"
    /\ closeAt' = [d \in Closers |-> IF closeAt[d] = "idle" THEN "idle" ELSE "done"]
    /\ UNCHANGED <<io, kernel, pending, closed, awaited, misuse>>

\* Every awaited operation has ended: CloseHandle, and all callers return.
CloseEnds(c) ==
    /\ closeAt[c] = "wait" /\ awaited = {} /\ handle' = "closed"
    /\ closeAt' = [closeAt EXCEPT ![c] = "done"]
    /\ UNCHANGED <<io, kernel, pending, closed, awaited, misuse>>

CloseJoins(c) ==
    /\ closeAt[c] \in {"idle", "joined"} /\ handle = "closed"
    /\ closeAt' = [closeAt EXCEPT ![c] = "done"]
    /\ UNCHANGED <<io, kernel, pending, closed, handle, awaited, misuse>>

CallStep(c) == Issue(c) \/ Wake(c) \/ Deadline(c) \/ EndIO(c)
CloseStep(c) == CloseCancels(c) \/ CloseEnds(c) \/ CloseJoins(c)

PipeNext ==
    \/ \E c \in Calls : Begin(c) \/ Issue(c) \/ Complete(c) \/ Wake(c) \/ Deadline(c) \/ EndIO(c)
    \/ \E c \in Closers : CloseEnters(c) \/ CloseCancels(c) \/ CloseEnds(c) \/ CloseJoins(c)

\* Goroutines go on; the kernel ends what was cancelled; armed deadlines pass
\* (every reader and writer of src/ calls SetDeadline first).
PipeFairness ==
    /\ \A c \in Calls : WF_pipeVars(CallStep(c))
    /\ \A c \in Calls : WF_pipeVars(kernel[c] = "cancelling" /\ Complete(c))
    /\ \A c \in Closers : WF_pipeVars(CloseStep(c))

PipeSpec == PipeInit /\ [][PipeNext]_pipeVars /\ PipeFairness

-----------------------------------------------------------------------------
(* Properties *)

PipeTypeOK ==
    /\ io \in [Calls -> {"idle", "registered", "waiting", "reaping", "ending", "refused"}]
    /\ kernel \in [Calls -> {"none", "inflight", "cancelling", "complete"}]
    /\ pending \subseteq Calls /\ awaited \subseteq Calls
    /\ closed \in BOOLEAN /\ handle \in {"open", "closed"} /\ misuse \in BOOLEAN
    /\ closeAt \in [Closers -> {"idle", "cancel", "wait", "joined", "done"}]

\* The handle is never used after CloseHandle, and what the kernel still writes
\* to is still held by its call (pipe_windows.go:307-327, 382-408, 605-640).
HandlesAreSafe ==
    /\ ~misuse
    /\ \A c \in Calls : kernel[c] \in {"inflight", "cancelling"} => io[c] \in {"waiting", "reaping"}

\* Every Close returns, also one that meets an operation between its
\* registration and ReadFile, which it cannot cancel (pipe_windows.go:307-313, 357-380).
CloseReturns == \A c \in Closers : closeAt[c] # "idle" ~> closeAt[c] = "done"
=============================================================================
