------------------------------ MODULE IpcSession ------------------------------
(***************************************************************************)
(* Requests of the Agent to the Service over its named pipe: one call at a *)
(* time, up to three attempts under one request id, a new connection after *)
(* every error (internal/agent/agent.go), and the Service's replay cache   *)
(* that executes a request id once (internal/service/ipc_replay.go).  No   *)
(* side compares the id of an answer with the id it asked for.             *)
(***************************************************************************)
EXTENDS Naturals, Sequences, FiniteSets, SequencesExt

CONSTANTS
    Requests,       \* logical calls of the Agent, each with a request id of its own
    NoRequest,      \* a value outside Requests
    Links,          \* pipe connections that exist at one time
    NoLink,         \* a value outside Links
    Attempts,       \* 3 in the code
    CacheLimit,     \* completed requests that the Service remembers (256)
    MaxRestarts     \* bound: restarts of the Service

ASSUME IpcAssumption ==
    NoRequest \notin Requests /\ NoLink \notin Links /\ Attempts \in Nat /\ CacheLimit \in Nat /\ MaxRestarts \in Nat

VARIABLES
    calls,          \* where each call of SendToServiceContext is
    turn,           \* who holds serviceMu
    tries,          \* attempts that the call has used
    channel,        \* a.serviceCh
    wires,          \* each pipe connection: who still holds it, what is on it
    workers,        \* handleConnection of each link: what it executes or waits for
    running,        \* ids in the cache that are being executed
    completed,      \* ids in the cache with an answer, oldest first
    got,            \* what each call returned
    executions,     \* history: executions by this Service process
    forgotten,      \* history: ids that this Service process evicted
    restarts

ipcVars == <<calls, turn, tries, channel, wires, workers, running, completed, got,
             executions, forgotten, restarts>>

AnyRequest == Requests \cup {NoRequest}

\* An answer is the id it belongs to; `ok` is FALSE for REQUEST_REPLAY_WAIT_FAILED.
AnswerOf(r, ok) == [of |-> r, ok |-> ok]
NoAnswer == AnswerOf(NoRequest, FALSE)

FreeWire == [held |-> {}, request |-> NoRequest, answer |-> NoAnswer]
IdleWorker == [id |-> NoRequest, runs |-> FALSE]

IpcInit ==
    /\ calls = [r \in Requests |-> "idle"] /\ turn = NoRequest /\ tries = 0
    /\ channel = NoLink /\ wires = [l \in Links |-> FreeWire]
    /\ workers = [l \in Links |-> IdleWorker]
    /\ running = {} /\ completed = <<>>
    /\ got = [r \in Requests |-> NoAnswer]
    /\ executions = [r \in Requests |-> 0] /\ forgotten = {} /\ restarts = 0

serviceVars == <<workers, running, completed, executions, forgotten, restarts>>
callVars == <<calls, turn, tries, got>>

-----------------------------------------------------------------------------
(* The Agent *)

\* SendToServiceContext, prepareServiceRequest and lockService.
Call(r) ==
    /\ calls[r] = "idle" /\ turn = NoRequest
    /\ calls' = [calls EXCEPT ![r] = "ready"] /\ turn' = r /\ tries' = 0
    /\ UNCHANGED <<channel, wires, got, serviceVars>>

Left(l) == [wires EXCEPT ![l].held = @ \ {"agent"}]

\* connectToService, by the call or, before the first one, by waitForServicePipe.
Dial(l) ==
    /\ channel = NoLink /\ wires[l] = FreeWire /\ workers[l] = IdleWorker
    /\ turn # NoRequest => calls[turn] = "ready" /\ tries < Attempts
    /\ wires' = [wires EXCEPT ![l].held = {"agent", "service"}] /\ channel' = l
    /\ UNCHANGED <<callVars, serviceVars>>

DialFails(r) ==
    /\ turn = r /\ calls[r] = "ready" /\ channel = NoLink /\ tries < Attempts
    /\ tries' = tries + 1 /\ UNCHANGED <<calls, turn, got, channel, wires, serviceVars>>

\* The Service may have hung up: then the write fails.
SendRequest(r) ==
    /\ turn = r /\ calls[r] = "ready" /\ channel # NoLink /\ tries < Attempts
    /\ IF "service" \in wires[channel].held
       THEN /\ wires' = [wires EXCEPT ![channel].request = r]
            /\ calls' = [calls EXCEPT ![r] = "sent"] /\ UNCHANGED <<tries, channel>>
       ELSE /\ wires' = Left(channel) /\ channel' = NoLink
            /\ tries' = tries + 1 /\ UNCHANGED calls
    /\ UNCHANGED <<turn, got, serviceVars>>

Return(r, a) ==
    /\ calls' = [calls EXCEPT ![r] = "returned"] /\ turn' = NoRequest
    /\ got' = [got EXCEPT ![r] = a]

\* restoreParentRequestID puts the caller's id over whatever id the answer has.
Receive(r) ==
    /\ turn = r /\ calls[r] = "sent" /\ wires[channel].answer # NoAnswer
    /\ Return(r, wires[channel].answer)
    /\ wires' = [wires EXCEPT ![channel].answer = NoAnswer]
    /\ UNCHANGED <<tries, channel, serviceVars>>

\* Mutant: a receive that fails keeps the connection for the next attempt.
ReceiveFailsKeeping(r) ==
    /\ turn = r /\ calls[r] = "sent" /\ tries' = tries + 1
    /\ calls' = [calls EXCEPT ![r] = "ready"]
    /\ UNCHANGED <<turn, got, channel, wires, serviceVars>>

\* The deadline, or a connection that the Service has closed: dropServiceChannelLocked.
ReceiveFails(r) ==
    /\ turn = r /\ calls[r] = "sent" /\ tries' = tries + 1
    /\ calls' = [calls EXCEPT ![r] = "ready"]
    /\ wires' = Left(channel) /\ channel' = NoLink
    /\ UNCHANGED <<turn, got, serviceVars>>

\* Three attempts have failed, or the caller's context has ended between two.
GiveUpCall(r) ==
    /\ turn = r /\ calls[r] = "ready" /\ tries > 0
    /\ Return(r, NoAnswer) /\ UNCHANGED <<tries, channel, wires, serviceVars>>

\* The context ends while another call holds serviceMu.
GiveUpTurn(r) ==
    /\ calls[r] = "idle" /\ turn # NoRequest
    /\ calls' = [calls EXCEPT ![r] = "returned"]
    /\ UNCHANGED <<turn, tries, got, channel, wires, serviceVars>>

-----------------------------------------------------------------------------
(* The Service: handleConnection, dispatch and the replay cache *)

Known(r) == r \in running \/ Contains(completed, r)

\* The worker's answer, if the Agent is still there to take it; if not, the worker ends.
Reply(l, a) ==
    wires' = IF "agent" \in wires[l].held
             THEN [wires EXCEPT ![l].request = NoRequest, ![l].answer = a]
             ELSE [wires EXCEPT ![l] = FreeWire]

\* What the Agent wrote can be read after the Agent has closed its end.
ReadRequest(l) ==
    LET r == wires[l].request IN
    /\ r # NoRequest /\ workers[l] = IdleWorker /\ "service" \in wires[l].held
    /\ IF Contains(completed, r)
       THEN Reply(l, AnswerOf(r, TRUE)) /\ UNCHANGED <<workers, running, executions>>
       ELSE /\ workers' = [workers EXCEPT ![l] = [id |-> r, runs |-> r \notin running]]
            /\ wires' = [wires EXCEPT ![l].request = NoRequest]
            /\ running' = running \cup {r}
            /\ executions' = IF r \in running THEN executions
                             ELSE [executions EXCEPT ![r] = @ + 1]
    /\ UNCHANGED <<callVars, channel, completed, forgotten, restarts>>

\* Mutant: one answer more than the limit is kept.
ExcessLate(all) == Len(all) - (CacheLimit + 1)

\* How many of the oldest answers must go.
Excess(all) == Len(all) - CacheLimit

\* The handler returns (or panics): the answer is kept, the oldest ones are evicted.
Execute(l) ==
    LET r == workers[l].id
        all == Append(completed, r)
        evicted == Excess(all) IN
    /\ r # NoRequest /\ workers[l].runs
    /\ running' = running \ {r}
    /\ IF evicted > 0
       THEN /\ completed' = SubSeq(all, evicted + 1, Len(all))
            /\ forgotten' = forgotten \cup {all[i] : i \in 1..evicted}
       ELSE completed' = all /\ UNCHANGED forgotten
    /\ workers' = [workers EXCEPT ![l] = IdleWorker]
    /\ Reply(l, AnswerOf(r, TRUE))
    /\ UNCHANGED <<callVars, channel, executions, restarts>>

\* A worker that waited for another one's execution: its answer, or the deadline.
Joined(l) ==
    LET r == workers[l].id IN
    /\ r # NoRequest /\ ~workers[l].runs
    /\ \/ r \notin running /\ Reply(l, AnswerOf(r, TRUE))
       \/ Reply(l, AnswerOf(r, FALSE))
    /\ workers' = [workers EXCEPT ![l] = IdleWorker]
    /\ UNCHANGED <<callVars, channel, running, completed, executions, forgotten, restarts>>

\* Nothing was asked for 30 seconds, or the Agent has closed its end.
HangUp(l) ==
    /\ "service" \in wires[l].held /\ workers[l] = IdleWorker
    /\ wires[l].request = NoRequest
    /\ wires' = [wires EXCEPT ![l].held = @ \ {"service"}]
    /\ UNCHANGED <<callVars, channel, serviceVars>>

\* The link is gone when both ends are.
Forget(l) ==
    /\ wires[l].held = {} /\ wires[l] # FreeWire
    /\ wires' = [wires EXCEPT ![l] = FreeWire] /\ UNCHANGED <<callVars, channel, serviceVars>>

\* What is left of a connection whose other end has gone: the answer that was sent.
Severed(wire) == [held |-> wire.held \ {"service"}, request |-> NoRequest, answer |-> wire.answer]

RestartService ==
    /\ restarts < MaxRestarts /\ restarts' = restarts + 1
    /\ workers' = [l \in Links |-> IdleWorker] /\ running' = {} /\ completed' = <<>>
    /\ wires' = [l \in Links |-> Severed(wires[l])]
    /\ executions' = [r \in Requests |-> 0] /\ forgotten' = {}
    /\ UNCHANGED <<callVars, channel>>

IpcNext ==
    \/ \E r \in Requests : \/ Call(r) \/ DialFails(r) \/ SendRequest(r) \/ Receive(r)
                           \/ ReceiveFails(r) \/ GiveUpCall(r) \/ GiveUpTurn(r)
    \/ \E l \in Links : \/ Dial(l) \/ ReadRequest(l) \/ Execute(l) \/ Joined(l)
                        \/ HangUp(l) \/ Forget(l)
    \/ RestartService

-----------------------------------------------------------------------------
(* Properties *)

IpcTypeOK ==
    /\ calls \in [Requests -> {"idle", "ready", "sent", "returned"}]
    /\ turn \in AnyRequest /\ tries \in 0..Attempts /\ channel \in Links \cup {NoLink}
    /\ \A l \in Links : /\ wires[l].held \subseteq {"agent", "service"}
                        /\ wires[l].request \in AnyRequest /\ wires[l].answer.of \in AnyRequest
                        /\ workers[l].id \in AnyRequest
    /\ running \subseteq Requests /\ Len(completed) <= CacheLimit

\* A call never returns another call's answer, although nobody compares ids
\* (agent.go:346-371: every error drops the connection with what is still on it).
AnswersAreOwn == \A r \in Requests : got[r].of \in {r, NoRequest}

\* One Service process executes a request once, whatever was resent and however
\* late a first copy is read, unless it has evicted the id (ipc_replay.go:20-21).
AtMostOnce == \A r \in Requests : executions[r] <= 1 \/ r \in forgotten

\* Each request is executed once and gets its own answer: AnswersAreOwn and
\* AtMostOnce (internal/agent/agent.go:311-380, internal/service/ipc_replay.go).
RequestsAreSafe == AnswersAreOwn /\ AtMostOnce
=============================================================================
