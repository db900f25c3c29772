----------------------------- MODULE Environment -----------------------------
(***************************************************************************)
(* What the Agent knows of the network and what it does about it           *)
(* (internal/agent/environment.go, environment_faults.go,                  *)
(* capture_transition.go, internal/networkenv and the network.observe of   *)
(* the Service).  A refresh collects a snapshot in several reads, while    *)
(* connection transactions go on; the analyzer derives findings from it,   *)
(* and the store shows it for ten seconds.  The health monitor looks every *)
(* two seconds, takes a finding for a fault or probes by itself, and after *)
(* three looks starts a repair, as the user may for one finding.           *)
(* A transition of capture is a few steps here; CaptureTransition has it.  *)
(***************************************************************************)
EXTENDS Naturals, FiniteSets

CONSTANTS
    MaxEvents   \* bound: requests of the user and things that go wrong

ASSUME EnvironmentAssumption == MaxEvents \in Nat

Collectors == {"monitor", "user"}
Captures == {"system_proxy", "tun"}
Modes == Captures \cup {"off"}

\* The codes of the findings that are errors, in the order of the analyzer.
\* The three findings on DNS, NRPT and the firewall are as ROUTE_RESIDUAL is.
Codes == <<"CAPTURE_DATAPLANE_FAILED", "NAVO_ROUTE_RESIDUAL", "NAVO_TUN_DISABLED", "NAVO_TUN_MISSING",
           "NETWORK_JOURNAL_PENDING", "PHYSICAL_NETWORK_UNAVAILABLE",
           "SYSTEM_PROXY_ENDPOINT_UNREACHABLE", "SYSTEM_PROXY_STALE_NAVO">>

VARIABLES
    actual,     \* the machine: core, proxy, marker of ownership, TUN expected,
                \* network left, physical network
    shown,      \* the capture snapshot every controller reads
    connection, \* the connection transaction
    signal,     \* environmentRefresh, a channel of one
    guard,      \* who holds environmentRefreshMu
    collect,    \* the refreshes under way
    published,  \* what the store holds
    old,        \* it is older than SnapshotStaleAfter
    health,     \* monitorCaptureHealth
    events      \* requests and failures so far

environmentVars == <<actual, shown, connection, signal, guard, collect, published, old, health, events>>
watchers == <<guard, collect, published, old, health>>
machine == <<actual, shown, connection>>

Shown(committed, desired, faulted, ready) ==
    [committed |-> committed, desired |-> desired, faulted |-> faulted, ready |-> ready]
NoTurn == [op |-> "none", at |-> "none", target |-> "off"]

\* The zero MachineSnapshot: what is left of an observation that failed.
NothingSeen == [physical |-> TRUE, expected |-> FALSE, adapter |-> "missing", journal |-> "none"]
Blank == [shown |-> Shown("off", "off", FALSE, TRUE), busy |-> FALSE, machine |-> NothingSeen,
          partial |-> FALSE, proxy |-> "none", marker |-> FALSE, reachable |-> FALSE]
NoEvidence == [code |-> "none", owner |-> "none", partial |-> FALSE]
Quiet == [at |-> "idle", mode |-> "off", count |-> 0, evidence |-> NoEvidence]
Evidence(code, owner, partial) == [code |-> code, owner |-> owner, partial |-> partial]

-----------------------------------------------------------------------------
(* Analyze *)

ProxyExpected(s) == "system_proxy" \in {s.committed} \cup (IF s.faulted THEN {s.desired} ELSE {})
TunExpected(s) == "tun" \in {s.committed} \cup (IF s.faulted THEN {s.desired} ELSE {})

\* [code, owner, recoverable] of the errors in a snapshot
Errors(s) ==
    LET Of(found, code, owner, recoverable) == IF found THEN {<<code, owner, recoverable>>} ELSE {}
        expected == s.machine.expected \/ TunExpected(s.shown)
        claimed == s.marker \/ ProxyExpected(s.shown)
    IN UNION {
        Of(~s.machine.physical, "PHYSICAL_NETWORK_UNAVAILABLE", "none", FALSE),
        Of(s.proxy = "external" /\ claimed, "SYSTEM_PROXY_STALE_NAVO", "external", FALSE),
        Of(s.proxy = "none" /\ claimed, "SYSTEM_PROXY_STALE_NAVO", "navo", TRUE),
        Of(s.proxy = "navo" /\ ~s.reachable, "SYSTEM_PROXY_ENDPOINT_UNREACHABLE", "navo", TRUE),
        Of(expected /\ s.machine.adapter = "missing", "NAVO_TUN_MISSING", "navo", TRUE),
        Of(expected /\ s.machine.adapter = "disabled", "NAVO_TUN_DISABLED", "navo", TRUE),
        Of(s.machine.journal = "unread", "NETWORK_JOURNAL_PENDING", "unknown", FALSE),
        Of(s.machine.journal = "kept" /\ s.shown.committed # "tun", "NAVO_ROUTE_RESIDUAL", "navo", TRUE),
        Of(s.machine.journal = "unread", "NAVO_ROUTE_RESIDUAL", "unknown", FALSE),
        Of(s.shown.committed # "off" /\ ~s.shown.ready, "CAPTURE_DATAPLANE_FAILED", "navo", TRUE)}

\* Analyze, as far as anything is decided by it
Report(s) == [shown |-> s.shown, busy |-> s.busy, partial |-> s.partial, errors |-> Errors(s)]

-----------------------------------------------------------------------------
\* Run refreshes once before it starts monitorEnvironment; the store is stale.
EnvironmentInit ==
    /\ actual = [core |-> "off", proxy |-> "none", marker |-> FALSE,
                  expected |-> FALSE, left |-> FALSE, physical |-> TRUE]
    /\ shown = Shown("off", "off", FALSE, TRUE)
    /\ connection = NoTurn /\ signal = TRUE /\ guard = "free"
    /\ collect = [c \in Collectors |-> [at |-> IF c = "monitor" THEN "wait" ELSE "idle", seen |-> Report(Blank)]]
    /\ published = Report(Blank) /\ old = TRUE
    /\ health = Quiet
    /\ events = 0

-----------------------------------------------------------------------------
(* Transactions. *)

Happens == events < MaxEvents /\ events' = events + 1

\* setCaptureSnapshot
Announce(value) == shown' = value /\ signal' = TRUE

Free(n) == [n EXCEPT !.core = "off", !.expected = FALSE, !.marker = FALSE,
                     !.proxy = IF n.proxy = "navo" THEN "none" ELSE n.proxy]

\* transitionCaptureModeWithOrigin, and the selections that take capture
\* down and bring it back (selectCoreWithCapture).
BeginTurn(op, target) ==
    /\ connection = NoTurn /\ Happens
    /\ op = "switch" => target # shown.committed \/ shown.faulted
    /\ op = "select" => target = shown.committed /\ target # "off"
    /\ connection' = [op |-> op, at |-> "stop", target |-> target]
    /\ Announce([shown EXCEPT !.desired = target, !.faulted = FALSE])
    /\ UNCHANGED <<actual, watchers>>

\* The Service stops the old capture; the network it has set up may stay.
CaptureStopped ==
    \/ actual' = [Free(actual) EXCEPT !.left = FALSE] /\ UNCHANGED events
    \/ actual.left /\ actual' = Free(actual) /\ Happens

\* All but a switch commit off before they go on.
TakeDown ==
    /\ connection.at = "stop"
    /\ CaptureStopped
    /\ IF connection.op = "switch" THEN UNCHANGED <<shown, signal>>
       ELSE Announce(Shown("off", connection.target, FALSE, TRUE))
    /\ connection' = [connection EXCEPT !.at = IF connection.target = "off" THEN "commit" ELSE "start"]
    /\ UNCHANGED watchers

ExpectAdapter ==
    /\ connection.at = "start"
    /\ actual' = [actual EXCEPT !.expected = connection.target = "tun"]
    /\ connection' = [connection EXCEPT !.at = "up"]
    /\ UNCHANGED <<shown, signal, watchers, events>>

BringUp ==
    /\ connection.at = "up"
    /\ actual' = [actual EXCEPT !.core = connection.target, !.left = connection.target = "tun" \/ actual.left,
                          !.proxy = IF connection.target = "system_proxy" THEN "navo" ELSE actual.proxy,
                          !.marker = connection.target = "system_proxy"]
    /\ connection' = [connection EXCEPT !.at = "commit"]
    /\ UNCHANGED <<shown, signal, watchers, events>>

CommitTurn ==
    /\ connection.at = "commit"
    /\ Announce(Shown(connection.target, connection.target, FALSE, TRUE))
    /\ connection' = NoTurn
    /\ UNCHANGED <<actual, watchers, events>>

\* failClosedRecovery, and captureFailure where a step fails.
FailClosed ==
    /\ connection.at \in {"start", "up", "close"}
    /\ IF connection.at = "close" THEN CaptureStopped ELSE actual' = Free(actual) /\ Happens
    /\ Announce(Shown("off", connection.target, TRUE, FALSE))
    /\ connection' = NoTurn
    /\ UNCHANGED watchers

-----------------------------------------------------------------------------
(* What goes wrong: a core dies, the adapter is disabled, somebody else    *)
(* takes or clears the proxy setting, the physical network goes and comes. *)
Trouble ==
    /\ Happens
    /\ actual' \in {[actual EXCEPT !.core = c] : c \in CASE actual.core = "tun" -> {"dead", "disabled"}
                                                          [] actual.core = "off" -> {} [] OTHER -> {"dead"}}
                \cup {[actual EXCEPT !.proxy = p] : p \in {"none", "external"} \ {actual.proxy}}
                \cup {[actual EXCEPT !.physical = ~actual.physical]}
    /\ UNCHANGED <<shown, connection, signal, watchers>>

-----------------------------------------------------------------------------
(* refreshEnvironment, by the monitor or for a repair the user asks for.   *)

Put(c, at) == collect' = [collect EXCEPT ![c].at = at]

Wake ==
    /\ collect["monitor"].at = "idle"
    /\ signal' = FALSE \/ UNCHANGED signal
    /\ Put("monitor", "wait")
    /\ UNCHANGED <<machine, guard, published, old, health, events>>

AskRepair ==
    /\ collect["user"].at = "idle"
    /\ Happens
    /\ Put("user", "wait")
    /\ UNCHANGED <<actual, shown, connection, signal, guard, published, old, health>>

Reads(c, next, seen) == collect' = [collect EXCEPT ![c] = [at |-> next, seen |-> seen]]
ReadsCapture(c) == Reads(c, "turn", [Blank EXCEPT !.shown = shown])

\* Mutant: two refreshes at a time.
ReadCaptureAtWill(c) ==
    /\ collect[c].at = "wait"
    /\ guard' = c
    /\ ReadsCapture(c)
    /\ UNCHANGED <<machine, signal, published, old, health, events>>

\* Under the mutex; the capture snapshot is read first.
ReadCapture(c) ==
    /\ collect[c].at = "wait" /\ guard = "free"
    /\ guard' = c
    /\ ReadsCapture(c)
    /\ UNCHANGED <<machine, signal, published, old, health, events>>

\* A transaction that is changing the network, as the analyzer sees it: a
\* selection brings capture back in its verifying phase.
Changing == connection.op # "none" /\ ~(connection.op = "select" /\ connection.at \in {"start", "up", "commit"})

ReadTurn(c) ==
    /\ collect[c].at = "turn"
    /\ Reads(c, "machine", [collect[c].seen EXCEPT !.busy = Changing])
    /\ UNCHANGED <<machine, signal, guard, published, old, health, events>>

\* observeMachineNetwork and Manager.Observe
Observation(journal) ==
    [physical |-> actual.physical, expected |-> actual.expected, journal |-> journal,
     adapter |-> CASE actual.core = "tun" -> "enabled" [] actual.core = "disabled" -> "disabled" [] OTHER -> "missing"]

\* collectMachineEnvironment.  The Service may not answer in time, and the
\* resources of the journal may be unreadable, which counts as a conflict.
ReadMachine(c) ==
    /\ collect[c].at = "machine"
    /\ \/ /\ Reads(c, "proxy", [collect[c].seen EXCEPT !.machine = Observation(IF actual.left THEN "kept" ELSE "none")])
          /\ UNCHANGED events
       \/ /\ Happens
          /\ \E got \in {NothingSeen} \cup (IF actual.left THEN {Observation("unread")} ELSE {}) :
               Reads(c, "proxy", [collect[c].seen EXCEPT !.machine = got, !.partial = TRUE])
    /\ UNCHANGED <<machine, signal, guard, published, old, health>>

\* The proxy setting is read last, and the snapshot is published.
ReadProxy(c) ==
    /\ collect[c].at = "proxy"
    /\ LET seen == [collect[c].seen EXCEPT !.proxy = actual.proxy, !.marker = actual.marker,
                                           !.reachable = actual.core = "system_proxy"]
       IN /\ published' = Report(seen) /\ old' = FALSE
          /\ IF c = "user" THEN Reads(c, "decide", Report(seen)) ELSE Reads(c, "idle", Report(Blank))
    /\ guard' = "free"
    /\ UNCHANGED <<machine, signal, health, events>>

\* What it says counts no more.
GrowOld ==
    /\ ~old /\ old' = TRUE
    /\ published' = [shown |-> published.shown, busy |-> FALSE, partial |-> FALSE, errors |-> {}]
    /\ UNCHANGED <<machine, signal, guard, collect, health, events>>

-----------------------------------------------------------------------------
(* environmentCaptureFault *)

\* findingAppliesToMode
Applies(code, mode) ==
    CASE code \in {"PHYSICAL_NETWORK_UNAVAILABLE", "CAPTURE_DATAPLANE_FAILED"} -> mode # "off"
      [] code \in {"SYSTEM_PROXY_ENDPOINT_UNREACHABLE", "SYSTEM_PROXY_STALE_NAVO"} -> mode = "system_proxy"
      [] OTHER -> mode = "tun"

\* The first error that is about this mode, unless it was seen in the middle
\* of a change.
Faults(mode) == {e \in published.errors : ~published.busy /\ Applies(e[1], mode)}
First(errors) == CHOOSE e \in errors : \A f \in errors :
                    (CHOOSE i \in DOMAIN Codes : Codes[i] = e[1]) <= (CHOOSE i \in DOMAIN Codes : Codes[i] = f[1])

-----------------------------------------------------------------------------
(* monitorCaptureHealth *)

\* selfHealIdentityForFinding and classifyCaptureFault: what counts as one
\* fault.
Key(code) ==
    CASE code \in {"SYSTEM_PROXY_STALE_NAVO", "SYSTEM_PROXY_ENDPOINT_UNREACHABLE"} -> "SYSTEM_PROXY_MISMATCH"
      [] code \in {"NAVO_ROUTE_RESIDUAL", "NETWORK_JOURNAL_PENDING"} -> "ROUTE_BYPASS_MISSING"
      [] code = "NAVO_TUN_MISSING" -> "TUN_ADAPTER_MISSING"
      [] OTHER -> code

Sound == health' = Quiet

\* The third look in a row at one fault starts a repair.
Count(mode, evidence) ==
    LET count == IF health.evidence.code = evidence.code THEN health.count + 1 ELSE 1
    IN health' = IF count = 3 THEN [at |-> "heal", mode |-> mode, count |-> 3, evidence |-> evidence]
                 ELSE [Quiet EXCEPT !.count = count, !.evidence.code = evidence.code]

\* Every two seconds: nothing to look at, a fault the store shows, nothing
\* wrong there, or a probe, where the store does not know or it is time.
LookAtHealth ==
    /\ health.at = "idle"
    /\ LET mode == shown.committed
           faults == IF old THEN {} ELSE Faults(mode)
       IN \/ mode = "off" /\ Sound
          \/ mode # "off" /\ faults # {}
             /\ Count(mode, Evidence(Key(First(faults)[1]), First(faults)[2], published.partial))
          \/ mode # "off" /\ faults = {} /\ ~old /\ ~published.partial /\ health.count = 0 /\ Sound
          \/ mode # "off" /\ faults = {} /\ health' = [health EXCEPT !.at = "probe", !.mode = mode]
    /\ UNCHANGED <<machine, signal, guard, collect, published, old, events>>

\* captureHealthFault: the adapter, or the proxy and the core, and every so
\* often the data plane, whose result is written to the snapshot.
Probe ==
    /\ health.at = "probe"
    /\ LET Finds(code) == Count(health.mode, Evidence(code, "none", FALSE))
       IN \/ /\ \/ health.mode = "tun" /\ actual.core # "tun" /\ Finds("TUN_ADAPTER_MISSING")
                \/ health.mode = "system_proxy" /\ actual.proxy # "navo" /\ Finds("SYSTEM_PROXY_MISMATCH")
                \/ health.mode = "system_proxy" /\ actual.proxy = "navo" /\ actual.core # "system_proxy"
                   /\ Finds("CORE_CRASHED")
             /\ UNCHANGED <<shown, signal>>
          \/ /\ actual.core = health.mode /\ (health.mode = "system_proxy" => actual.proxy = "navo")
             /\ \/ health.count = 0 /\ Sound /\ UNCHANGED <<shown, signal>>
                \/ actual.physical /\ Sound /\ Announce([shown EXCEPT !.ready = TRUE])
                \/ ~actual.physical /\ Finds("NODE_UNAVAILABLE") /\ Announce([shown EXCEPT !.ready = FALSE])
    /\ UNCHANGED <<actual, connection, guard, collect, published, old, events>>

-----------------------------------------------------------------------------
(* recoverUnhealthyCapture *)

ModeWanted(mode) ==
    \/ shown.committed = mode
    \/ shown.faulted /\ shown.desired = mode /\ shown.committed = "off"

\* The physical network is not Navo's to repair, nor is a proxy setting that
\* somebody else has taken, or that Navo has lost with nothing to say it was.
OutOfReach(evidence) ==
    \/ evidence.code = "PHYSICAL_NETWORK_UNAVAILABLE"
    \/ evidence.code = "SYSTEM_PROXY_MISMATCH" /\ actual.proxy # "navo" /\ evidence.owner # "navo"

BeginRepair(mode, evidence) ==
    connection' = IF connection # NoTurn \/ ~ModeWanted(mode) THEN connection
            ELSE [op |-> "heal", at |-> IF OutOfReach(evidence) THEN "close" ELSE "stop", target |-> mode]

Heal ==
    /\ health.at = "heal"
    /\ BeginRepair(health.mode, health.evidence)
    /\ health' = Quiet
    /\ UNCHANGED <<actual, shown, signal, guard, collect, published, old, events>>

\* handleEnvironmentRepair
Decide ==
    /\ collect["user"].at = "decide"
    /\ LET seen == collect["user"].seen
           mode == IF shown.committed = "off" THEN shown.desired ELSE shown.committed
       IN \/ \E e \in seen.errors :
               e[2] = "navo" /\ e[3] /\ ~seen.busy /\ BeginRepair(mode, Evidence(Key(e[1]), e[2], seen.partial))
          \/ UNCHANGED connection
    /\ Reads("user", "idle", Report(Blank))
    /\ UNCHANGED <<actual, shown, signal, guard, published, old, health, events>>

EnvironmentNext ==
    \/ \E op \in {"switch", "select"}, target \in Modes : BeginTurn(op, target)
    \/ TakeDown \/ ExpectAdapter \/ BringUp \/ CommitTurn \/ FailClosed
    \/ Trouble
    \/ Wake \/ AskRepair
    \/ \E c \in Collectors : ReadCapture(c) \/ ReadTurn(c) \/ ReadMachine(c) \/ ReadProxy(c)
    \/ GrowOld
    \/ LookAtHealth \/ Probe \/ Heal \/ Decide

EnvironmentSpec == EnvironmentInit /\ [][EnvironmentNext]_environmentVars

-----------------------------------------------------------------------------
EnvironmentTypeOK ==
    /\ actual \in [core : {"off", "dead", "disabled"} \cup Captures, proxy : {"none", "navo", "external"},
                   marker : BOOLEAN, expected : BOOLEAN, left : BOOLEAN, physical : BOOLEAN]
    /\ shown \in [committed : Modes, desired : Modes, faulted : BOOLEAN, ready : BOOLEAN]
    /\ connection.op \in {"none", "switch", "select", "heal"}
    /\ signal \in BOOLEAN /\ guard \in Collectors \cup {"free"}
    /\ health.at \in {"idle", "probe", "heal"} /\ health.count \in 0..3

(* A change of capture is not missed: as long as the store shows a capture *)
(* state that is no longer true, a refresh that will read the present one  *)
(* is asked for or under way, and no older snapshot replaces a newer one   *)
(* (requestEnvironmentRefresh, environmentRefreshMu).                      *)
ChangesAreObserved ==
    published.shown # shown =>
        \/ signal
        \/ collect["monitor"].at = "wait"
        \/ collect["monitor"].at # "idle" /\ collect["monitor"].seen.shown = shown

HealBegins == health.at = "heal" /\ connection = NoTurn /\ connection'.op = "heal" /\ health'.at = "idle"

Broken(mode) == actual.core # mode \/ ~actual.physical \/ (mode = "system_proxy" /\ actual.proxy # "navo")

(* "Health monitoring ... trusts only fresh complete evidence ... and      *)
(* falls back to the legacy targeted probes ... for stale or partial       *)
(* evidence" (findings.md:1730): a capture with which nothing is wrong is  *)
(* not taken down because an observation failed.                           *)
CompleteEvidenceOnly == [][HealBegins => Broken(health.mode) \/ ~health.evidence.partial]_environmentVars

(* Not even a complete observation takes down a healthy capture            *)
(* ("Snapshot evidence is revalidated before any mutation",                *)
(* findings.md:1642).                                                      *)
HealthyIsLeftAlone == [][HealBegins => Broken(health.mode)]_environmentVars

(* "Ownership loss while Navo is active must fail closed ... not seize the *)
(* external configuration" (findings.md:1641).                             *)
SeizesNothing == [][connection.op = "heal" => ~(actual.proxy = "external" /\ actual'.proxy = "navo")]_environmentVars
=============================================================================
