------------------------------ MODULE TunSession ------------------------------
(***************************************************************************)
(* A TUN session of the Service (internal/service/capture_transition.go,   *)
(* runtime.go, tun_dataplane_verify_windows.go).  A handler under          *)
(* captureMu stops the core, takes the old network down, freezes a plan,   *)
(* starts the core (which creates the adapter), has the network manager    *)
(* bind routes and DNS to that adapter, probes the data path and commits;  *)
(* whatever fails is rolled back.  A reload replaces the core under the    *)
(* session and binds the network again.  Meanwhile monitorTUNAdapter looks *)
(* at the adapter without any lock, and the core or the process may die.   *)
(* NetworkJournal models what the network manager does inside one of its   *)
(* calls.                                                                  *)
(***************************************************************************)
EXTENDS Integers

CONSTANTS
    Interfaces,         \* the interface numbers that Windows gives out
    MaxSessions,        \* bound: TUN sessions planned
    MaxTunFaults        \* bound: calls that fail, deaths and changes of the adapter

ASSUME TunAssumption ==
    Interfaces \subseteq Nat \ {0} /\ MaxSessions \in Nat /\ MaxTunFaults \in Nat

VARIABLES
    tun,        \* what the Service remembers: networkManager, TUNEnabled, tunPlan, the runtime result, the fault
    tunJob,     \* the handler that holds captureMu, and its next step
    tunCore,    \* the core; "dead" until the supervisor notices, then "failed" or, outside of a handler, "dirty"
    adapter,    \* the Wintun adapter, as InspectAdapter sees it
    net,        \* routes, DNS rules and firewall rule: the session they are of, the interface they are bound to
    watch,      \* monitorTUNAdapter
    blame,      \* history: in how many looks on end the adapter of which session was found wrong
    proof,      \* history: when the present session was last verified, traffic was captured and left at the node
    sessions, tunFaults

tunVars == <<tun, tunJob, tunCore, adapter, net, watch, blame, proof, sessions, tunFaults>>

Sessions == 0 .. MaxSessions        \* 0 is no session
Numbers == Interfaces \cup {0}
NoAdapter == [state |-> "missing", index |-> 0]
NoNet == [session |-> 0, index |-> 0]
NoFaultId == [by |-> "nobody", seen |-> 0]
NoExpectation == [session |-> 0, index |-> 0]
Unwatched == [at |-> "wait", expected |-> NoExpectation, session |-> 0, count |-> 0]
TunIdle == [kind |-> "none", step |-> "idle", session |-> 0, index |-> 0, direct |-> FALSE, before |-> FALSE, answer |-> "none"]

\* How traffic goes: whether the routes capture it, where the core lets it out, and
\* what answers within the retries of a probe.
Worlds == [captured : BOOLEAN, out : {"home", "node"}, sites : BOOLEAN, udp : BOOLEAN]
Proves(world) == world.captured /\ world.out = "node"

\* The selected outbound, and the addresses that its name resolves to.
Selections == {"none", "missing", "listed"}
Addresses == {"v4routed", "v4unrouted", "v6"}

Begun(kind) == [TunIdle EXCEPT !.kind = kind]
TunAt(step) == tunJob' = [tunJob EXCEPT !.step = step]
TunAnswers(answer) == tunJob' = [TunIdle EXCEPT !.answer = answer]
TunBreaks == tunFaults < MaxTunFaults /\ tunFaults' = tunFaults + 1
TunAlive == tunJob.kind # "boot"
\* Supervisor.State() = running
SaysRunning == tunCore \in {"running", "dead"}
NewAdapter == \E i \in Interfaces : adapter' = [state |-> "enabled", index |-> i]

TunInit ==
    /\ tun = [manager |-> "none", enabled |-> FALSE, plan |-> 0, stage |-> "none",
              session |-> 0, index |-> 0, direct |-> FALSE, fault |-> NoFaultId]
    /\ tunJob = TunIdle /\ tunCore = "stopped" /\ adapter = NoAdapter /\ net = NoNet
    /\ watch = Unwatched /\ blame = [session |-> 0, count |-> 0] /\ proof = FALSE
    /\ sessions = 0 /\ tunFaults = 0

-----------------------------------------------------------------------------
(* What the handlers share *)

\* deactivateTUNNetwork gives the manager up only after it has cleaned up.
Deactivated(memory) == [memory EXCEPT !.manager = "none"]
NotDeactivated(memory) == memory

\* clearTUNRuntimeResult
Cleared(memory) == [memory EXCEPT !.stage = "none", !.session = 0, !.index = 0]

\* isDirectRuntime: direct mode, or nothing was ever selected.
isDirectRuntime(direct, selection) == direct \/ selection = "none"

\* buildActivationPlan of the selected outbound, which must exist: it needs a usable
\* address with a physical route to it, and blocked IPv6 is not usable.  Direct mode
\* only needs the way to the internet.
Plannable(direct, selection, addresses) ==
    isDirectRuntime(direct, selection) \/ (selection = "listed" /\ "v4routed" \in addresses)

\* Verify needs the proxy port or the DNS address of the core.  Names, TCP and TLS answer; the address seen through TUN is the one from
\* before in direct mode, and otherwise another one, the same as through the proxy;
\* the sites answer; UDP answers where the outbound promises it.
ExitOf(world) == IF world.captured THEN world.out ELSE "home"
DataPlaneVerified(world, direct, udpRequired) ==
    /\ IF direct THEN ExitOf(world) = "home" ELSE ExitOf(world) # "home" /\ ExitOf(world) = world.out
    /\ world.sites /\ tunCore = "running"
    /\ direct \/ udpRequired => world.udp

-----------------------------------------------------------------------------
(* capture.prepare *)

\* handleCapturePrepare; the recovery manager cleans up what an earlier session,
\* even of another process, has left.
BeginPrepare(kind) ==
    /\ tunJob.step = "idle" /\ TunAlive
    /\ tunJob' = [Begun(kind) EXCEPT !.step = "stop"]
    /\ tun' = IF tun.manager = "none" THEN [tun EXCEPT !.manager = "recovery"] ELSE tun
    /\ UNCHANGED <<tunCore, adapter, net, watch, blame, proof, sessions, tunFaults>>

\* An adapter may stay, disabled, when its core has gone.  A dirty core is refused.
StopOldCore ==
    /\ tunJob.step = "stop"
    /\ \/ /\ tunCore # "dirty" /\ tunCore' = "stopped" /\ TunAt("clean") /\ UNCHANGED tunFaults
          /\ adapter' \in {NoAdapter} \cup (IF adapter = NoAdapter THEN {} ELSE {[adapter EXCEPT !.state = "disabled"]})
       \/ tunCore = "dirty" /\ TunAt("rollback") /\ UNCHANGED <<tunCore, adapter, tunFaults>>
       \/ TunBreaks /\ TunAt("rollback") /\ UNCHANGED <<tunCore, adapter>>
    /\ UNCHANGED <<tun, net, watch, blame, proof, sessions>>

\* cleanupTUNForCaptureLocked: the network, then the adapter, then the result.
CleanOld ==
    /\ tunJob.step = "clean"
    /\ \/ /\ tun' = Cleared(Deactivated(tun)) /\ net' = NoNet /\ adapter' = NoAdapter /\ proof' = FALSE
          /\ TunAt(IF tunJob.kind = "tun" THEN "preflight" ELSE "compile") /\ UNCHANGED tunFaults
       \/ TunBreaks /\ tun' = NotDeactivated(tun) /\ TunAt("rollback") /\ UNCHANGED <<net, adapter, proof>>
       \/ TunBreaks /\ tun' = Deactivated(tun) /\ net' = NoNet /\ TunAt("rollback") /\ UNCHANGED <<adapter, proof>>
    /\ UNCHANGED <<tunCore, watch, blame, sessions>>

\* setTUNRuntime, or setSystemProxyRuntime which pins the address of the outbound, on a
\* stopped core; what fails is restored in the memory.
CompileWithout ==
    /\ tunJob.step = "compile"
    /\ \/ /\ tun' = [tun EXCEPT !.enabled = FALSE, !.plan = 0, !.fault = IF tunJob.kind = "off" THEN NoFaultId ELSE @]
          /\ IF tunJob.kind = "off" THEN TunAnswers("ok") ELSE TunAt("start")
          /\ UNCHANGED tunFaults
       \/ TunBreaks /\ TunAt("rollback") /\ UNCHANGED tun
    /\ UNCHANGED <<tunCore, adapter, net, watch, blame, proof, sessions>>

\* Preflight and the two readings; the planned manager is remembered before anything is
\* changed.
Plan ==
    /\ tunJob.step = "preflight" /\ UNCHANGED tunFaults
    /\ \E mode \in BOOLEAN, selection \in Selections, addresses \in SUBSET Addresses :
         LET direct == isDirectRuntime(mode, selection)
         IN IF Plannable(mode, selection, addresses)
            THEN /\ sessions < MaxSessions /\ sessions' = sessions + 1
                 /\ tun' = [tun EXCEPT !.manager = "planned", !.stage = "preparing", !.direct = direct]
                 /\ tunJob' = [tunJob EXCEPT !.step = "config", !.session = sessions + 1]
            ELSE /\ tun' = [tun EXCEPT !.manager = "recovery", !.stage = "preparing", !.direct = direct]
                 /\ TunAt("rollback") /\ UNCHANGED sessions
    /\ UNCHANGED <<tunCore, adapter, net, watch, blame, proof>>

\* gatherTUNPreparation: the address before the capture or the plan cannot be read, and
\* the other reading is given up; the preflight fails; or the deadline passes.
PreparationFails ==
    /\ tunJob.step = "preflight" /\ TunBreaks /\ TunAt("rollback")
    /\ tun' = [tun EXCEPT !.manager = "recovery", !.stage = "preparing"]
    /\ UNCHANGED <<tunCore, adapter, net, watch, blame, proof, sessions>>

\* setTUNRuntimeWithPlan: the outbound is compiled with the planned address, if it is
\* still the planned one; what fails is restored in the memory.
CompilePinned ==
    /\ tunJob.step = "config"
    /\ \/ tun' = [tun EXCEPT !.enabled = TRUE, !.plan = tunJob.session] /\ TunAt("start") /\ UNCHANGED tunFaults
       \/ TunBreaks /\ TunAt("rollback") /\ UNCHANGED tun
    /\ UNCHANGED <<tunCore, adapter, net, watch, blame, proof, sessions>>

\* The core creates the adapter.
StartForCapture ==
    /\ tunJob.step = "start"
    /\ \/ /\ tunCore' = "running" /\ TunAt(IF tunJob.kind = "tun" THEN "activate" ELSE "verify") /\ UNCHANGED tunFaults
          /\ IF tunJob.kind = "tun" THEN NewAdapter ELSE UNCHANGED adapter
       \/ TunBreaks /\ TunAt("rollback") /\ tunCore' = "failed" /\ UNCHANGED adapter
    /\ UNCHANGED <<tun, net, watch, blame, proof, sessions>>

\* Manager.Activate: waits for the adapter, installs, and undoes what it installed
\* when something fails, as far as that goes.
BindNet(done, failed) ==
    \/ /\ adapter.state = "enabled"
       /\ net' = [session |-> tunJob.session, index |-> adapter.index]
       /\ tunJob' = [tunJob EXCEPT !.step = done, !.index = adapter.index]
       /\ UNCHANGED tunFaults
    \/ /\ adapter.state # "enabled" /\ TunAt(failed) /\ UNCHANGED <<net, tunFaults>>
    \/ /\ TunBreaks /\ TunAt(failed)
       /\ net' \in {NoNet, [session |-> tunJob.session, index |-> adapter.index]}

Activate ==
    /\ tunJob.step = "activate" /\ BindNet("verify", "rollback")
    /\ UNCHANGED <<tun, tunCore, adapter, watch, blame, proof, sessions>>

\* Verify and commitHealthyRuntime; setTUNRuntimeResult is the last step.
VerifyAndCommit ==
    /\ tunJob.step = "verify" /\ tunJob.kind = "tun"
    /\ \E world \in Worlds, udpRequired \in BOOLEAN :
         IF DataPlaneVerified(world, tun.direct, udpRequired)
         THEN /\ tun' = [tun EXCEPT !.stage = "committed", !.session = tunJob.session,
                                    !.index = tunJob.index, !.fault = NoFaultId]
              /\ proof' = Proves(world) /\ TunAnswers("ok")
         ELSE TunAt("rollback") /\ UNCHANGED <<tun, proof>>
    /\ UNCHANGED <<tunCore, adapter, net, watch, blame, sessions, tunFaults>>

CommitProxy ==
    /\ tunJob.step = "verify" /\ tunJob.kind = "proxy"
    /\ tun' = [tun EXCEPT !.fault = NoFaultId] /\ TunAnswers("ok")
    /\ UNCHANGED <<tunCore, adapter, net, watch, blame, proof, sessions, tunFaults>>

\* The probes of the system proxy, or the commit, fail.
CommitFails ==
    /\ tunJob.step = "verify" /\ TunBreaks /\ TunAt("rollback")
    /\ UNCHANGED <<tun, tunCore, adapter, net, watch, blame, proof, sessions>>

\* The fault that the failed transaction leaves; an id is kept.
PreparedFault == IF tunJob.kind # "tun" THEN NoFaultId
                 ELSE IF tun.fault = NoFaultId THEN [by |-> "prepare", seen |-> 0] ELSE tun.fault

\* rollbackCaptureLocked tries everything; only a complete rollback is remembered as
\* no session, and with a dirty core there is none.
Rollback ==
    /\ tunJob.step = "rollback"
    /\ \/ /\ tunCore # "dirty" /\ tunCore' = "stopped" /\ adapter' = NoAdapter
          /\ net' = (IF tun.manager = "none" THEN net ELSE NoNet)
          /\ tun' = [Cleared(Deactivated(tun)) EXCEPT !.enabled = FALSE, !.plan = 0, !.fault = PreparedFault]
          /\ proof' = FALSE /\ TunAnswers("failed") /\ UNCHANGED tunFaults
       \/ /\ TunBreaks /\ tun' = [NotDeactivated(tun) EXCEPT !.fault = PreparedFault]
          /\ tunCore' = (IF tunCore = "dirty" THEN tunCore ELSE "stopped")
          /\ adapter' = NoAdapter /\ TunAnswers("dirty") /\ UNCHANGED <<net, proof>>
       \/ /\ tun' = [Deactivated(tun) EXCEPT !.fault = PreparedFault]
          /\ net' = (IF tun.manager = "none" THEN net ELSE NoNet)
          /\ TunAnswers("dirty") /\ UNCHANGED proof
          /\ \/ tunCore = "dirty" /\ UNCHANGED <<tunCore, tunFaults>> /\ adapter' = NoAdapter
             \/ TunBreaks /\ UNCHANGED <<tunCore, adapter>>
             \/ /\ TunBreaks /\ tunCore # "dirty" /\ tunCore' = "stopped"
                /\ adapter.state # "missing" /\ adapter' = [adapter EXCEPT !.state = "disabled"]
    /\ UNCHANGED <<watch, blame, sessions>>

-----------------------------------------------------------------------------
(* A change of mode or lists under the session, and runtime.verify *)

BeginReload(direct) ==
    /\ tunJob.step = "idle" /\ TunAlive /\ tun.enabled /\ SaysRunning
    /\ tunJob' = [Begun("reload") EXCEPT !.step = "swap", !.session = tun.plan, !.direct = direct, !.before = tun.direct]
    /\ UNCHANGED <<tun, tunCore, adapter, net, watch, blame, proof, sessions, tunFaults>>

\* SwapConfig, of a core that runs.  When it fails, the old configuration runs again, or
\* nothing does; the network is not bound again.
SwapCore ==
    /\ tunJob.step = "swap"
    /\ \/ /\ SaysRunning /\ tunCore' = "running" /\ NewAdapter /\ UNCHANGED tunFaults
          /\ TunAt(IF tun.manager = "none" THEN "record" ELSE "unbind")
       \/ /\ ~SaysRunning /\ UNCHANGED <<tunCore, adapter, tunFaults>>
          /\ tunJob' = [tunJob EXCEPT !.step = "record", !.index = tun.index]
       \/ /\ SaysRunning /\ TunBreaks /\ TunAnswers("failed")
          /\ \/ tunCore' = "running" /\ NewAdapter
             \/ tunCore' = "failed" /\ adapter' = NoAdapter
    /\ UNCHANGED <<tun, net, watch, blame, proof, sessions>>

\* A reload whose network cannot be bound swaps back; the rollback of a failed save goes
\* no further.
NotBound == IF tunJob.kind = "restore" THEN "undone" ELSE "swapBack"

\* Manager.Rebind: everything of the old interface is removed first.
Unbind ==
    /\ tunJob.step \in {"unbind", "unbindBack"}
    /\ \/ net' = NoNet /\ TunAt(IF tunJob.step = "unbind" THEN "bind" ELSE "bindBack") /\ UNCHANGED tunFaults
       \/ TunBreaks /\ UNCHANGED net /\ IF tunJob.step = "unbind" THEN TunAt(NotBound) ELSE TunAnswers("failed")
    /\ UNCHANGED <<tun, tunCore, adapter, watch, blame, proof, sessions>>

\* The manager reports its own stages while it binds.
Bind ==
    /\ tunJob.step = "bind" /\ BindNet("record", NotBound)
    /\ tun' \in (IF tunJob'.step = "record" THEN {} ELSE {tun}) \cup
                (IF adapter.state = "enabled" THEN {[tun EXCEPT !.stage = "bound"]} ELSE {})
    /\ UNCHANGED <<tunCore, adapter, watch, blame, proof, sessions>>

\* The old configuration again, bound again; tunAdapter is not updated here.
SwapBack ==
    /\ tunJob.step = "swapBack"
    /\ \/ tunCore' = "running" /\ NewAdapter /\ TunAt("unbindBack") /\ UNCHANGED tunFaults
       \/ TunBreaks /\ tunCore' = "failed" /\ adapter' = NoAdapter /\ TunAnswers("failed")
    /\ UNCHANGED <<tun, net, watch, blame, proof, sessions>>

BindBack ==
    /\ tunJob.step = "bindBack" /\ BindNet("boundBack", "boundBack")
    /\ tun' = IF adapter.state = "enabled" THEN [tun EXCEPT !.stage = "bound"] ELSE tun
    /\ UNCHANGED <<tunCore, adapter, watch, blame, proof, sessions>>

BoundBack ==
    /\ tunJob.step = "boundBack" /\ TunAnswers("failed")
    /\ UNCHANGED <<tun, tunCore, adapter, net, watch, blame, proof, sessions, tunFaults>>

\* What fails after the core was replaced is undone by a swap to what was there before,
\* which is not probed: "restore" gives the old file back, "undo" compiles it anew.
UndoReload(kind) == tunJob' = [tunJob EXCEPT !.kind = kind, !.step = "swap", !.direct = tunJob.before]

\* Mutant: the health check goes on expecting the interface of the old core.
RecordReloadForgetful ==
    /\ tunJob.step = "record"
    /\ tun' = [tun EXCEPT !.direct = tunJob.direct]
    /\ TunAt(IF tunJob.kind = "reload" THEN "probe" ELSE "undone")
    /\ UNCHANGED <<tunCore, adapter, net, watch, blame, proof, sessions, tunFaults>>

\* The candidate becomes the runtime state, the new interface is remembered, and the
\* state is saved.
RecordReload ==
    /\ tunJob.step = "record"
    /\ tun' = [tun EXCEPT !.direct = tunJob.direct, !.index = tunJob.index]
    /\ \/ TunAt(IF tunJob.kind = "reload" THEN "probe" ELSE "undone") /\ UNCHANGED tunFaults
       \/ tunJob.kind # "restore" /\ TunBreaks /\ UndoReload("restore")
    /\ UNCHANGED <<tunCore, adapter, net, watch, blame, proof, sessions>>

\* verifyActiveRuntimeRouting commits the session again.
ProbeReload ==
    /\ tunJob.step = "probe"
    /\ \/ \E world \in Worlds, udpRequired \in BOOLEAN :
            /\ DataPlaneVerified(world, tun.direct, udpRequired) /\ proof' = Proves(world)
            /\ tun' = [tun EXCEPT !.stage = "committed", !.session = tun.plan]
            /\ TunAnswers("ok")
       \/ UndoReload("undo") /\ UNCHANGED <<tun, proof>>
    /\ UNCHANGED <<tunCore, adapter, net, watch, blame, sessions, tunFaults>>

ReloadUndone ==
    /\ tunJob.step = "undone" /\ TunAnswers("failed")
    /\ UNCHANGED <<tun, tunCore, adapter, net, watch, blame, proof, sessions, tunFaults>>

\* handleRuntimeVerify
VerifyRuntime ==
    /\ tunJob.step = "idle" /\ TunAlive /\ tun.enabled /\ tun.plan # 0 /\ tun.session # 0
    /\ \E world \in Worlds, udpRequired \in BOOLEAN :
         IF DataPlaneVerified(world, tun.direct, udpRequired)
         THEN /\ tun' = [tun EXCEPT !.stage = "committed", !.session = tun.plan] /\ proof' = Proves(world)
              /\ tunJob' = [TunIdle EXCEPT !.answer = "ok"]
         ELSE tunJob' = [TunIdle EXCEPT !.answer = "failed"] /\ UNCHANGED <<tun, proof>>
    /\ UNCHANGED <<tunCore, adapter, net, watch, blame, sessions, tunFaults>>

-----------------------------------------------------------------------------
(* monitorTUNAdapter *)

Threshold == 3

\* currentTUNHealthExpectation
Committed == tun.enabled /\ tun.stage = "committed" /\ tun.session # 0 /\ SaysRunning
Expectation == [session |-> tun.session, index |-> tun.index]

\* tunObservationHealthy and actionableTUNObservation: a state in between is no proof.
ObservedHealthy(expected) == adapter.state = "enabled" /\ adapter.index = expected.index
Actionable(expected) ==
    \/ adapter.state \in {"missing", "disabled"}
    \/ adapter.state = "enabled" /\ ~ObservedHealthy(expected)

\* tunHealthTracker.observe counts what one session is blamed for on end.
Observed(session, actionable) ==
    IF ~actionable THEN [session |-> 0, count |-> 0]
    ELSE [session |-> session, count |-> IF watch.session = session THEN watch.count + 1 ELSE 1]

Blamed(session, wrong) ==
    IF ~wrong THEN [session |-> 0, count |-> 0]
    ELSE [session |-> session,
          count |-> IF blame.session # session THEN 1 ELSE IF blame.count < Threshold THEN blame.count + 1 ELSE Threshold]

Look ==
    /\ watch.at = "wait" /\ TunAlive
    /\ IF Committed
       THEN watch' = [watch EXCEPT !.at = "inspect", !.expected = Expectation] /\ UNCHANGED blame
       ELSE watch' = Unwatched /\ blame' = Blamed(0, FALSE)
    /\ UNCHANGED <<tun, tunJob, tunCore, adapter, net, proof, sessions, tunFaults>>

Inspect ==
    /\ watch.at = "inspect"
    /\ LET tracker == Observed(watch.expected.session, Actionable(watch.expected))
       IN watch' = IF tracker.count >= Threshold
                  THEN [watch EXCEPT !.at = "again", !.session = tracker.session, !.count = tracker.count]
                  ELSE [Unwatched EXCEPT !.session = tracker.session, !.count = tracker.count]
    /\ blame' = Blamed(watch.expected.session, Actionable(watch.expected))
    /\ UNCHANGED <<tun, tunJob, tunCore, adapter, net, proof, sessions, tunFaults>>

LookAgain ==
    /\ watch.at = "again"
    /\ watch' = IF Committed /\ Expectation = watch.expected THEN [watch EXCEPT !.at = "confirm"] ELSE Unwatched
    /\ UNCHANGED <<tun, tunJob, tunCore, adapter, net, blame, proof, sessions, tunFaults>>

Confirm ==
    /\ watch.at = "confirm"
    /\ watch' = IF Actionable(watch.expected) THEN [watch EXCEPT !.at = "publish"] ELSE Unwatched
    /\ UNCHANGED <<tun, tunJob, tunCore, adapter, net, blame, proof, sessions, tunFaults>>

\* setTUNFault, whatever has happened to the session since.
Publish ==
    /\ watch.at = "publish" /\ watch' = Unwatched
    /\ tun' = [tun EXCEPT !.fault = [by |-> "watch",
                 seen |-> IF blame.session = watch.expected.session THEN blame.count ELSE 0]]
    /\ UNCHANGED <<tunJob, tunCore, adapter, net, blame, proof, sessions, tunFaults>>

-----------------------------------------------------------------------------
(* The core, the adapter and the process *)

TunCoreDies ==
    /\ tunCore = "running" /\ TunBreaks /\ tunCore' = "dead"
    /\ adapter' \in {NoAdapter} \cup (IF adapter = NoAdapter THEN {} ELSE {[adapter EXCEPT !.state = "disabled"]})
    /\ UNCHANGED <<tun, tunJob, net, watch, blame, proof, sessions>>

TunDeathNoticed ==
    /\ tunCore = "dead" /\ tunCore' = (IF tunJob.step = "idle" THEN "dirty" ELSE "failed")
    /\ UNCHANGED <<tun, tunJob, adapter, net, watch, blame, proof, sessions, tunFaults>>

AdapterChanges ==
    /\ \/ adapter.state = "enabled" /\ TunBreaks
          /\ adapter' \in {NoAdapter, [adapter EXCEPT !.state = "disabled"], [adapter EXCEPT !.state = "starting"]}
       \/ /\ adapter.state \in {"disabled", "starting"} /\ tunCore = "running"
          /\ adapter' = [adapter EXCEPT !.state = "enabled"] /\ UNCHANGED tunFaults
    /\ UNCHANGED <<tun, tunJob, tunCore, net, watch, blame, proof, sessions>>

\* What a process that has ended leaves: the network and its journal.
ProcessGone ==
    /\ tun' = [manager |-> "none", enabled |-> FALSE, plan |-> 0, stage |-> "none",
               session |-> 0, index |-> 0, direct |-> FALSE, fault |-> NoFaultId]
    /\ tunJob' = [Begun("boot") EXCEPT !.step = "recover"] /\ tunCore' = "stopped" /\ watch' = Unwatched
    /\ blame' = Blamed(0, FALSE) /\ proof' = FALSE

ServiceCrashes ==
    /\ TunAlive /\ TunBreaks /\ ProcessGone
    /\ adapter' \in {NoAdapter} \cup (IF adapter = NoAdapter THEN {} ELSE {[adapter EXCEPT !.state = "disabled"]})
    /\ UNCHANGED <<net, sessions>>

\* shutdown waits for captureMu.
ShutDown ==
    /\ tunJob.step = "idle" /\ TunAlive /\ ProcessGone /\ adapter' = NoAdapter
    /\ \/ net' = (IF tun.manager = "none" THEN net ELSE NoNet) /\ UNCHANGED tunFaults
       \/ TunBreaks /\ UNCHANGED net
    /\ UNCHANGED sessions

\* Run recovers the journal before it compiles or starts anything, or gives up.
RecoverAtStart ==
    /\ tunJob.step = "recover"
    /\ \/ net' = NoNet /\ tunJob' = TunIdle /\ UNCHANGED tunFaults
       \/ TunBreaks /\ UNCHANGED <<net, tunJob>>
    /\ UNCHANGED <<tun, tunCore, adapter, watch, blame, proof, sessions>>

PrepareSteps ==
    \/ \E kind \in {"tun", "proxy", "off"} : BeginPrepare(kind)
    \/ StopOldCore \/ CleanOld \/ CompileWithout \/ Plan \/ PreparationFails \/ CompilePinned \/ StartForCapture
    \/ Activate \/ VerifyAndCommit \/ CommitProxy \/ CommitFails \/ Rollback

ReloadSteps ==
    \/ \E direct \in BOOLEAN : BeginReload(direct)
    \/ SwapCore \/ Unbind \/ Bind \/ SwapBack \/ BindBack \/ BoundBack \/ RecordReload \/ ProbeReload
    \/ ReloadUndone \/ VerifyRuntime

WatchSteps == Look \/ Inspect \/ LookAgain \/ Confirm \/ Publish

TunNext ==
    \/ PrepareSteps \/ ReloadSteps \/ WatchSteps
    \/ TunCoreDies \/ TunDeathNoticed \/ AdapterChanges
    \/ ServiceCrashes \/ ShutDown \/ RecoverAtStart

-----------------------------------------------------------------------------
(* Properties *)

TunTypeOK ==
    /\ tun \in [manager : {"none", "recovery", "planned"}, enabled : BOOLEAN, plan : Sessions,
               stage : {"none", "preparing", "bound", "committed"}, session : Sessions, index : Numbers,
               direct : BOOLEAN, fault : [by : {"nobody", "watch", "prepare"}, seen : 0 .. Threshold]]
    /\ tunJob.kind \in {"none", "tun", "proxy", "off", "reload", "undo", "restore", "boot"}
    /\ tunJob.session \in Sessions /\ tunJob.index \in Numbers
    /\ tunCore \in {"stopped", "running", "dead", "failed", "dirty"}
    /\ adapter \in [state : {"missing", "enabled", "disabled", "starting"}, index : Numbers]
    /\ net \in [session : Sessions, index : Numbers]
    /\ proof \in BOOLEAN /\ sessions \in Sessions /\ tunFaults \in 0 .. MaxTunFaults

\* While a network of Navo is in place, a living Service remembers the manager that takes
\* it down, whichever step of a preparation, a reload or a rollback failed
\* (capture_transition.go:321-395, 460-493).
NetIsOwned == TunAlive /\ net.session # 0 => tun.manager # "none"

\* A Service that knows of no session between two handlers has no network in place: the
\* result is cleared only after a complete cleanup (capture_transition.go:231-256, 460-482).
NoSessionNoNet == tunJob.step = "idle" /\ TunAlive /\ tun.stage = "none" => net.session = 0

\* What tun.status calls enabled is bound to the adapter that is there, after any one
\* failure (service.go:956-1012, runtime.go:1130-1196).
EnabledIsBound ==
    tunJob.step = "idle" /\ tunFaults <= 1 /\ Committed /\ ObservedHealthy(Expectation) =>
        net = [session |-> tun.session, index |-> adapter.index]

\* A reload, done or undone, leaves the network bound to the adapter of the new core and
\* that adapter expected; one that was answered with success is watched again.
ReloadIsWhole ==
    tunJob.step = "idle" /\ tunFaults = 0 /\ tun.enabled =>
        /\ net = [session |-> tun.session, index |-> adapter.index] /\ ObservedHealthy(Expectation)
        /\ tunJob.answer = "ok" => Committed

\* The monitor publishes a fault only when three looks on end have found the adapter of
\* one committed session wrong; never on an ambiguous state (capture_transition.go:738-815).
FaultHasEvidence == tun.fault.by = "watch" => tun.fault.seen = Threshold

\* A committed session with a node was seen to capture the traffic and to let it out at
\* the node, also after any one failure (tun_dataplane_verify_windows.go:51-125).
VerifiedIsCaptured ==
    tunJob.step = "idle" /\ tunFaults <= 1 /\ tun.stage = "committed" /\ ~tun.direct => proof

\* A TUN session has an owner until it is gone, is what tun.status says, survives a
\* reload, and is accused only on evidence: NetIsOwned, NoSessionNoNet, EnabledIsBound,
\* ReloadIsWhole, FaultHasEvidence and VerifiedIsCaptured
\* (internal/service/capture_transition.go).
TunIsSafe ==
    /\ NetIsOwned /\ NoSessionNoNet /\ EnabledIsBound
    /\ ReloadIsWhole /\ FaultHasEvidence /\ VerifiedIsCaptured
=============================================================================
