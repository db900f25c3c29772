----------------------------- MODULE PipeListener -----------------------------
(***************************************************************************)
(* The listener of a named pipe (internal/pipe/pipe_windows.go): several   *)
(* goroutines each create an instance of the pipe, wait for a client and   *)
(* hand the connection over a bounded Go channel to Accept.  Close must    *)
(* get them all out, whatever they are doing, and leave no handle behind.  *)
(***************************************************************************)
EXTENDS Naturals

CONSTANTS
    Instances,      \* goroutines of startInstance
    QueueLength,    \* capacity of connCh (64 in the code)
    MaxAccepted     \* bound: connections that Accept returns

ASSUME ListenerAssumption == QueueLength \in Nat /\ MaxAccepted \in Nat

VARIABLES
    loops,          \* where each listenLoop is
    queued,         \* connections in connCh
    queueOpen,      \* connCh is not closed
    stopping,       \* l.closing, and l.done is closed
    shutting,       \* where Close is
    accepted,       \* connections given to the caller of Accept
    broken          \* history: a send on the closed connCh, which panics

listenerVars == <<loops, queued, queueOpen, stopping, shutting, accepted, broken>>

Live == {"check", "create", "connecting", "offer"}   \* counted by l.wg

ListenerInit ==
    /\ loops = [i \in Instances |-> "new"] /\ queued = 0 /\ queueOpen = TRUE
    /\ stopping = FALSE /\ shutting = "open" /\ accepted = 0 /\ broken = FALSE

GoTo(i, place) == loops' = [loops EXCEPT ![i] = place]

-----------------------------------------------------------------------------
(* The instances *)

\* NewListener and PreCreateInstances.
StartInstance(i) ==
    /\ loops[i] = "new" /\ GoTo(i, IF stopping THEN "refused" ELSE "check")
    /\ UNCHANGED <<queued, queueOpen, stopping, shutting, accepted, broken>>

CheckDone(i) ==
    /\ loops[i] = "check" /\ GoTo(i, IF stopping THEN "gone" ELSE "create")
    /\ UNCHANGED <<queued, queueOpen, stopping, shutting, accepted, broken>>

\* CreateNamedPipe; a failure waits for a moment, or for l.done.
Create(i) ==
    /\ loops[i] = "create"
    /\ \/ GoTo(i, "connecting")
       \/ GoTo(i, IF stopping THEN "gone" ELSE "check")
    /\ UNCHANGED <<queued, queueOpen, stopping, shutting, accepted, broken>>

\* ConnectNamedPipe: a client, or a failure that closes the handle.
Connect(i) ==
    /\ loops[i] = "connecting" /\ (GoTo(i, "offer") \/ GoTo(i, "check"))
    /\ UNCHANGED <<queued, queueOpen, stopping, shutting, accepted, broken>>

\* Mutant: the wait for a client goes on whatever l.done says.
PollIgnoresDone(i) ==
    /\ loops[i] = "connecting" /\ stopping /\ GoTo(i, "connecting")
    /\ UNCHANGED <<queued, queueOpen, stopping, shutting, accepted, broken>>

\* Twice a second the wait for a client looks at l.done.
PollSeesDone(i) ==
    /\ loops[i] = "connecting" /\ stopping /\ GoTo(i, "gone")
    /\ UNCHANGED <<queued, queueOpen, stopping, shutting, accepted, broken>>

Offer(i) ==
    /\ loops[i] = "offer" /\ queued < QueueLength
    /\ IF queueOpen THEN queued' = queued + 1 /\ UNCHANGED broken
                    ELSE broken' = TRUE /\ UNCHANGED queued
    /\ GoTo(i, "check") /\ UNCHANGED <<queueOpen, stopping, shutting, accepted>>

\* The connection that nobody took is closed.
OfferSeesDone(i) ==
    /\ loops[i] = "offer" /\ stopping /\ GoTo(i, "gone")
    /\ UNCHANGED <<queued, queueOpen, stopping, shutting, accepted, broken>>

-----------------------------------------------------------------------------
(* Accept and Close *)

\* Accept may still win a connection after l.done is closed.
Accept ==
    /\ queued > 0 /\ accepted < MaxAccepted
    /\ queued' = queued - 1 /\ accepted' = accepted + 1
    /\ UNCHANGED <<loops, queueOpen, stopping, shutting, broken>>

CloseListener ==
    /\ shutting = "open" /\ shutting' = "joining" /\ stopping' = TRUE
    /\ UNCHANGED <<loops, queued, queueOpen, accepted, broken>>

\* The goroutine that closes what is in connCh.
DrainOne ==
    /\ shutting \in {"joining", "draining"} /\ queued > 0 /\ queued' = queued - 1
    /\ UNCHANGED <<loops, queueOpen, stopping, shutting, accepted, broken>>

\* l.wg.Wait, then close(l.connCh).
JoinLoops ==
    /\ shutting = "joining" /\ \A i \in Instances : loops[i] \notin Live
    /\ shutting' = "draining" /\ queueOpen' = FALSE
    /\ UNCHANGED <<loops, queued, stopping, accepted, broken>>

EndClose ==
    /\ shutting = "draining" /\ queued = 0 /\ shutting' = "closed"
    /\ UNCHANGED <<loops, queued, queueOpen, stopping, accepted, broken>>

LoopStep(i) == CheckDone(i) \/ Create(i) \/ PollSeesDone(i) \/ Offer(i) \/ OfferSeesDone(i)

ListenerNext ==
    \/ \E i \in Instances : \/ StartInstance(i) \/ CheckDone(i) \/ Create(i) \/ Connect(i)
                            \/ PollSeesDone(i) \/ Offer(i) \/ OfferSeesDone(i)
    \/ Accept \/ CloseListener \/ DrainOne \/ JoinLoops \/ EndClose

\* Goroutines go on.  Clients and failures need not come.
ListenerFairness ==
    /\ \A i \in Instances : WF_listenerVars(LoopStep(i))
    /\ WF_listenerVars(DrainOne) /\ WF_listenerVars(JoinLoops) /\ WF_listenerVars(EndClose)

-----------------------------------------------------------------------------
(* Properties *)

ListenerTypeOK ==
    /\ loops \in [Instances -> Live \cup {"new", "refused", "gone"}]
    /\ queued \in 0..QueueLength /\ accepted \in 0..MaxAccepted
    /\ queueOpen \in BOOLEAN /\ stopping \in BOOLEAN /\ broken \in BOOLEAN
    /\ shutting \in {"open", "joining", "draining", "closed"}

\* When Close has returned, no goroutine and no handle of the listener is left,
\* and nothing was sent on the closed channel, also with instances that are
\* started while it closes (pipe_windows.go:104-112, 214-238).
ListenerLeavesNothing ==
    /\ ~broken
    /\ shutting = "closed" => queued = 0 /\ \A i \in Instances : loops[i] \notin Live

\* Close returns, whatever the instances wait for (pipe_windows.go:148-160, 230-238).
ListenerCloses == shutting = "joining" ~> shutting = "closed"
=============================================================================
