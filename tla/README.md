# Navo verification project

Navo is a Windows network client: it downloads and starts a proxy core
(sing-box, Mihomo or Xray), and points the machine at it either through the
current user's proxy setting or through a TUN adapter with routes, a DNS rule
and a firewall rule. What can go wrong is not in a single function. A
transition touches a Windows setting, a process, a journal and a snapshot, one
after the other; the core may crash, the launcher may be killed, the user may
click again, and a health monitor repairs what it takes for broken. The
property behind all of this is simple to say: *the machine is never left with
a proxy or a TUN that nothing serves and nobody knows about*.

This directory holds TLA+ models of the parts that carry this property, the TLC
configurations that check them, and TLAPS proofs of the parts that are proved
for every value of the constants. Paths below are relative to `src/`.

- [1. The system](#1-the-system)
- [2. The modules](#2-the-modules)
- [3. The runs](#3-the-runs)
- [4. Fairness](#4-fairness)
- [5. What is proved](#5-what-is-proved)
- [6. Where the code and its documentation disagree](#6-where-the-code-and-its-documentation-disagree)
- [7. Abstractions and what is not modelled](#7-abstractions-and-what-is-not-modelled)
- [8. Plan](#8-plan)

How to run, from this directory:

    tlc -workers 2 -config CoreSupervisor_safety.cfg MCCoreSupervisor
    tlapm CoordinatorProofs.tla

## 1. The system

    window (navo_app), tray, dashboard
             |  requests, over a named pipe or a direct call
           Agent ------ connection.Coordinator   one mutation at a time
             |   \----- systemproxy.Manager      the user's proxy setting
             |   \----- transition journal, capture snapshot
             |   \----- environment store and health monitor
             |  capture.prepare, runtime.*, core.*, network.observe
          Service ----- network.Manager          routes, NRPT, firewall of TUN
             |   \----- runtime configuration, revisions, warm lease
             |   \----- subscriptions, upstreams, secrets -> compiler
             |   \----- self-heal engine
         Supervisor --- Reconciler
             |
         SingBoxHost -- the core process

The shipped launcher `cmd/navo` runs Agent and Service in one process and
calls the Service directly; `cmd/navo-agent` and `cmd/navo-svc` are the
two-process build with a named pipe between them.

### Components, their state and what makes them correct

**Connection coordinator** (`internal/connection`).
*State*: a read model (`snapshot`) and a list of waiters, each with a channel
of capacity one, under one mutex. *Operations*: `Begin`, `TryBegin`, `SetPhase`,
`Finish`. Every handler of the Agent that changes the network owns this
transaction for as long as it works. *Hard*: sends happen after the mutex is
released, so a grant can be on its way to a caller that gives up; supersession
removes waiters of a lower rank in the same domain only, while the selection
of the next owner compares ranks over all domains. *Correct when* there is one
owner, no grant is lost or given twice, nobody waits for a free coordinator,
nobody is overtaken within a domain, and a shutdown is served.

**Core supervisor and host** (`internal/supervisor`, `internal/host`).
*State*: the supervisor's state, lifecycle context, restart budget, warm flag
and suppression flag under one mutex; the host's status, process and exit
channel under another. *Operations*: `Start`, `Stop`, `SwapConfig`,
`SetWarmIdle`, `SetRestartSuppressed`; two monitors per started core. *Hard*: the
monitors of an old core run while its successor is started; `Stop` waits with
the host's mutex held; a request expires in the middle. *Correct when* no core
lives that the supervisor cannot stop, none lives behind a stopped state, a
running one is watched, and every request returns.

**Capture transaction of the Agent** (`internal/agent/capture_transition.go`).
*State*: the capture snapshot shown to every controller, the transition journal
on disk. *Operations*: switch to off, system proxy or TUN; restart; recovery at
startup; self-heal in rounds with failover; the health monitor; readiness
checks and the dashboard, which read and write the snapshot without a
transaction. *Hard*: every step can fail, the cleanup of a failure can fail, the
launcher can die between any two steps. *Correct when* the snapshot is true
between transactions, every mutation is journaled first, a transition starts
from a clean machine, off stays off, and transactions end.

**Capture composites** (the same file, 272-753): core, outbound, source and
policy changes that stop capture, change something, verify it and restore
capture or the old choice inside one transaction. *Hard*: each restoration can
fail too, and answers of the Service can be lost. *Correct when* a capture that is
shown runs with what it was verified with, and one failure is undone.

**Core update** (`navo_app/core_update.go`, `internal/agent/core_update_session.go`):
the window replaces three files between two requests; the Agent keeps the
connection transaction open between them and ends it at a deadline. *Hard*:
commit, rollback, expiry and shutdown race; either side may stop waiting.
*Correct when* whoever holds the transaction can be reached, it is given back,
and one failure leaves the files of one version.

**System proxy owner** (`internal/agent/systemproxy`).
*State*: five registry values shared with every other application, a backup
file, an ownership marker file, a flag in memory. *Operations*: `Enable`,
`Disable`. *Hard*: five writes that are not atomic, other writers, crashes
between them. *Correct when* the user's own setting comes back, a newer setting
is not overwritten, and success means what the capture transaction takes it for.

**Network manager and journal** (`internal/network`): installs routes, an NRPT
rule and a firewall rule one by one, each first written to a journal as pending,
then as installed; undo and recovery at startup remove what is Navo's and
nothing else. *Hard*: a crash between any two steps, commands that fail after
they had their effect. *Correct when* what is in place is always covered by the
journal, and success leaves nothing.

**TUN session of the Service** (`internal/service/capture_transition.go`,
`runtime.go`, `tun_dataplane_verify_windows.go`): the frozen plan, the network
manager, the expected adapter, the fault that is shown. *Operations*: prepare,
commit, reload, rollback, recovery; a monitor of the adapter without a lock.
*Correct when* a network in place has a manager in memory, status says enabled
only of what is bound, and a fault has evidence.

**Runtime configuration** (`internal/service/runtime.go`, `warm_lease.go`,
`internal/infrastructure/localstate`): candidate and active revision in memory,
in `runtime_state.json`, in the revision repository and in the running core; a
lease that keeps a core warm after the proxy was switched off. *Correct when*
the four agree, what is called active was probed, and a mutation that fails
changes nothing.

**Selection of the core** (`internal/service/service.go`, `handleCoreSelect`): two
supervisors for a moment, a configuration in another language, an undo of four
steps. *Correct when* no core is given the file of another one.

**Sources** (`internal/subscription`, `internal/upstreamproxy`,
`internal/credential`): three kinds of files that refer to each other and are
written one after the other. *Correct when* no source is without its secret.

**Configuration compiler** (`internal/compiler`, `internal/coreadapter`): one
routing policy, three dialects. *Correct when* they route the same.

**Connections** (`internal/pipe`, `internal/agent/agent.go`,
`internal/service/ipc_replay.go`): overlapped operations of the kernel, a
listener with several instances, calls with retries and a replay cache.
*Correct when* nothing is used after it was closed, everything closes, a call
gets its own answer, a request is executed once.

**Self-heal engine** (`internal/selfheal`): a queue of events with
deduplication and a circuit breaker that outlives the process. All registered
policies observe only; the repair that happens is the Agent's.

**Network environment** (`internal/networkenv`, `internal/agent/environment.go`,
`environment_faults.go`): a snapshot of the machine, collected in several reads
while transactions go on, findings derived from it, and a monitor that repairs
on them. *Correct when* a change is not missed and a repair has a reason.

**Launcher and life of the program** (`cmd/navo`, `Run` and `shutdown` of Agent and
Service, tray, window processes). *Hard*: everything is stopped while it still
works. *Correct when* an exit that was not forced leaves the user's proxy and no
TUN routes, there is one window, and everybody leaves.

**Initialization and privacy reset** (`internal/initialization`): the first thing a
launcher does is to find out whether the data directory is this user's on this
machine, and to remove what another one left. *Hard*: a removal fails or the
launcher dies in the middle; it is not yet known whether it is the only one.
*Correct when* no program runs with something of another context.

**Core reconciler**, **TUN adapter access**, **local repositories**, **service dispatch**,
**tray and dashboard**, **desktop application**: partly in the modules above.
**Probes, metrics and logs** and **manifests and compatibility**: not modelled.
`PROJECT.json` lists each with its status and the reason, and lists the hazards of
the code with the properties that cover them.

## 2. The modules

| Module | Code | What it is |
|---|---|---|
| `ConnectionPolicy` | `internal/connection/policy.go` | intent, rank and domain of a request |
| `Coordinator` | `internal/connection/coordinator.go` | one action per critical section or channel operation |
| `TransactionGate` | - | what the coordinator promises; `Coordinator` refines it |
| `CoreSupervisor` | `internal/supervisor`, `internal/host/singbox.go`, their callers in `internal/service` | the life of the core |
| `CaptureTransition` | `internal/agent/capture_transition.go`, `internal/domain/capture` | the capture transaction |
| `CaptureComposites` | the same file, 272-753 | changes of core, outbound, sources and policy |
| `CoreUpdate` | `navo_app/core_update.go`, `internal/agent/core_update_session.go` | an installation over several requests |
| `SystemProxy` | `internal/agent/systemproxy` | the owner of the proxy setting |
| `NetworkJournal` | `internal/network/manager.go`, `journal.go` and their callers | install, undo, recover |
| `ResourceLedger` | - | what the journal promises; `NetworkJournal` refines it |
| `TunSession` | `internal/service/capture_transition.go`, `runtime.go`, `internal/network/tun` | the Service's side of TUN |
| `RuntimeConfig` | `internal/service/runtime.go`, `warm_lease.go`, `localstate` | candidate, active revision, warm lease |
| `CoreSwitch` | `internal/service/service.go`, `handleCoreSelect` | another core |
| `Sources` | `internal/subscription`, `internal/upstreamproxy`, `internal/credential` | sources and their files |
| `Compiler` | `internal/compiler`, `internal/coreadapter`, `runtime.go` 968-1085 | one policy, three documents |
| `IpcSession` | `internal/agent/agent.go` 311-429, `internal/service/ipc_replay.go` | calls, retries, replay cache |
| `PipeConnection`, `PipeListener` | `internal/pipe/pipe_windows.go` | overlapped I/O and closing |
| `SelfHeal` | `internal/selfheal` | queue, worker, circuit breaker |
| `Environment` | `internal/networkenv`, `internal/agent/environment*.go`, the health monitor | snapshot, findings, repairs |
| `Lifecycle` | `cmd/navo`, `Run` and `shutdown` of Agent and Service | start, stop, exit |
| `DeviceSetup` | `internal/initialization` | whose data directory it is |
| `CoordinatorProofs`, `CoreSupervisorProofs`, `CaptureTransitionProofs`, `AgentProofs`, `NetworkJournalProofs`, `WindowsProofs`, `ServiceProofs` | - | theorems |
| `RuntimeProofs` | - | lemmas of `ServiceProofs` about `RuntimeConfig`, `CoreSwitch`, `TunSession` |
| `MC...` | - | values for the model checker |

`MCWindows`, `MCAgent` and `MCService` put several components into one run: a
variable `part` chosen in the initial state says which of them moves, and the
others rest in one initial state. The components of such a run share no variable;
they are put together to be checked under one configuration, not because they
interleave. Where components interact, one models the other's step as its
callers see it, and the last table of this section says which module details it.

**Coordinator.** A client is a goroutine and, because it waits at most once at a
time, also its waiter record. `BeginImmediate` and `BeginQueued` are the two ways
through the first critical section of `Begin`; `Notify` is a send to a
superseded waiter after the unlock; `ReceiveReady`, `GiveUp` and `Drain` are the
`select` and the race after it, in which a caller whose context is done finds
that it has just been picked; `Finish` pops the next waiter, and the grant stays
in `outbox` until `Notify` sends it. `waiters` is a set, with `ahead[c]` the
waiters that were there before c. `TransactionGate` has an owner and a queue:
`Enter`, `Join`, `Withdraw`, `Leave`.

**CoreSupervisor.** Each start of the core is a generation `g`: its process
`proc[g]`, its lifecycle context (`cancelled`), the host's monitor `hmon[g]` and
the supervisor's monitor `smon[g]`. One caller `api` stands for all requests,
because `Service.captureMu` serialises them; it walks through `StopGuard`,
`StopBegin`, `StopMark`, `HostStop`, `HostStopWait`, `StopDone`, `StartBegin`,
`StartReconcile`, `StartCore`, `HostStart`, `StartDone` and their failures, and
the `job` says which request it serves. `handleCrash` is `CrashCancels`,
`CrashOfWarmCore`, `CrashPolicy`, `CrashSettles`, `BackoffEnds`, because it takes
and releases the mutex that often.

**CaptureTransition.** `run` is the transaction in progress: who owns it (`op`),
which of its transitions runs (`stage`), and where that one is (`at`). The
actions follow `transitionCaptureModeLockedWithOptions` from `EnterJournals`
over `Begun`, `Prepare`/`Prepared`, `ApplyProxy`, `Check`, `Commit`, `Clear` to
`Publish`; every one of them can go to `Failing`, from where the cleanup that
`captureFailure`, `recoverCaptureLocked` and `failClosedRecovery` share takes
the proxy back, turns the Service off, clears the journal and settles the
snapshot, each step fallible too. `Return` is the code of the owner after its
call. A crash loses the memory and keeps the proxy and the journal.
`CheckReads`/`CheckWrites` and `DashboardFetches`/`DashboardReads`/
`DashboardWrites` are the readers that hold no transaction.

**CaptureComposites.** `chosen` is what the Service is configured with, `confirmed`
what the running capture was verified with, `verified` the outbound of the last
probe. One operation is `BeginChange`, `StopCapture`, `Send`, `VerifyChange` and,
after a failure, `Rollback`, `RestoreCapture`, `RevertPolicy`, `ReverifyPolicy`,
`CloseCapture`, as the four handlers take them.

**CoreUpdate.** `step[u]` is where the Agent is with the session of update u,
`inbox` the requests it has not taken, `ui` the interface with its three files
and their backups. Timers, commits, rollbacks and a shutdown meet at the session
mutex; a request the interface no longer waits for is still served.

**SystemProxy.** `op` is the operation that holds the manager's mutex; `apply`
writes the five registry values one at a time. Which interferences exist is the
constant `Faults`.

**NetworkJournal.** `place` is what is in the system, `disk` the journal file,
`manager` the Service's memory; `pc` walks through the loops of activation, undo
and recovery, one command or one write of the file per step. `ResourceLedger`
keeps two sets: what is recorded and what is installed.

**TunSession.** `tun` is the Service's memory (manager, plan, stage, expected
adapter, fault), `net` what the network manager has bound and to which session,
`tunJob` the handler that holds `captureMu`; the monitor of the adapter has its
own three looks and no lock. A reload replaces the core and with it the adapter.

**RuntimeConfig.** `runtime` and `saved` are the runtime state in memory and on disk,
`path` the configured file, `core.file` what the core was started with, `holds`
the content of each compiled file, `proven` the contents that have passed a
probe. `job` walks through prepare, swap, record, launch, verify and commit, and
the undo of each of the four mutations; `lease` is the warm lease.

**CoreSwitch.** `sup[k]` and `loaded[k]` are the supervisor of core k and the file it
was started with, `fits` the core each compiled file is for, `picked` the host
and supervisor the Service uses.

**Sources.** Memory and files of subscriptions, cached nodes, upstream proxies and
secrets; every operation is `Enter` and its writes in order, with undo.

**Compiler.** A destination is the set of the lists it is on, an outbound the set
of the fields it has. A request is composed, validated and turned into a document
whose rules are matched in order (`Exit`).

**IpcSession.** `calls`, `tries`, `channel` on the Agent's side, `wires` between,
`workers`, `running`, `completed` in the Service. A copy of a request may be read
after the call that sent it has given up; the Service may restart.

**PipeConnection, PipeListener.** One action per critical section, system call or
channel operation of `Read`, `Write`, `Close`, `Accept` and the accept loops; the
kernel's completion is an action of its own.

**SelfHeal.** One key: its pending mark, its place in the queue, the worker's event
and its circuit in memory and on disk, with a clock of ticks and restarts.

**Environment.** `collect[c]` is a refresh by the monitor or for the user's repair:
`ReadCapture`, `ReadTurn`, `ReadMachine`, `ReadProxy` are its reads, between which
transactions go on; `Errors` is the analyzer; `LookAtHealth`, `Probe` and `Heal`
are the health monitor with its three looks; `Decide` is the repair of one
finding.

**Lifecycle.** `launcher`, `serviceRun`, `agentRun`, `tray` and `window` are the
goroutines of main and the program counters of what it starts; `request` is one
request that changes capture, in the middle of which everything may be told to
stop; `windows` is what is left in Windows.

**DeviceSetup.** `stateFile` is the context whose secret the device state protects,
`keptFrom` where the contents of the files of a reset are from, `setup` how far each
launcher is. Between two launches the directory can be copied to another context.

How they fit together:

| In | a step stands for | which is detailed in |
|---|---|---|
| all of the Agent's modules | one transaction at a time | `Coordinator`, `TransactionGate` |
| `CaptureTransition` (`ApplyProxy`, `ReleaseProxy`) | `Enable` and `Disable` that returned no error | `SystemProxy` (`EnabledIsOwned`, `DisabledIsOff`) |
| `CaptureTransition` (`Prepare`, `Prepared`) | `capture.prepare` | `CoreSupervisor` (the core), `TunSession` (the session), `RuntimeConfig` (the configuration) |
| `CaptureComposites`, `Environment` | a capture transition | `CaptureTransition` |
| `TunSession` | activation and deactivation of the network | `NetworkJournal` (`NetworkIsClean`) |
| `RuntimeConfig`, `CoreSwitch`, `TunSession` | start, stop and swap of the core | `CoreSupervisor` |
| `RuntimeConfig`, `Sources` | compilation | `Compiler` |
| `CaptureComposites`, `CoreUpdate` | a request that may be lost | `IpcSession`, `PipeConnection` |
| `Lifecycle` | a request that changes capture, and recovery at startup | `CaptureTransition`, `NetworkJournal` |

## 3. The runs

Runs that pass, with two workers:

| Run | Distinct states, time | Bounds | Question |
|---|---|---|---|
| `coordinator` | 204 181, 1.5 min | 3 clients, 4 bodies in 3 ranks and 2 domains, one shared identifier | one owner, no lost or doubled grant, order, a queued shutdown is served, a cancelled caller returns, refinement of the gate |
| `core_safety` | 210 980, 1 min | 3 cores, 3 restarts | no core escapes, requests return, crashes are noticed |
| `capture` | 590 757, 1.5 min | 2 rounds, 1 waiting request of four kinds, crashes and breakage | snapshot, journal, off, end of transactions |
| `capture_races` | 5 677 530, 1.5 min | 1 round, 1 waiting request of two kinds, 1 reader | the journal with a reader that overwrites the snapshot |
| `windows` | 629 664, 1 min | proxy: 4 + 2 settings; network: 4 resources, 2 sessions, 2 adapters, 1 failure; life: 2 requests or 3 windows; directory: 2 launchers, 2 contexts, 2 files | what comes back in Windows, at every crash and at every exit |
| `agent` | 110 876, 1 min | 2 updates, 1 failure; 3 changes of 2 options, 2 failures; 2 calls, 2 closers; 3 instances | composites, core update, pipes |
| `service` | 2 647 464, 2 min | below | what the Service keeps, and what the Agent knows of the network |

`service` explores eight components: the environment (925 thousand states), the
TUN session (494 thousand), calls (475 thousand), self-heal (365 thousand), the
runtime configuration (272 thousand), sources (66 thousand), change of core (37
thousand) and the compiler (13 thousand). `ServiceView` is the `VIEW` of this run:
the component that runs. What it leaves out rests in one initial state and is
therefore the same in every state of that component.

Runs that end in a counterexample, each for one statement of the repository that
the code does not keep (section 6): `core_dirty`, `capture_readiness`, `proxy_torn`,
`runtime_warm`, `environment_partial`.

A run's property is often a conjunction of what belongs together:

| Property | Conjuncts |
|---|---|
| `QueueSound`, `NothingLeaks`, `WaitersServed` (`Coordinator`) | `NoLostWaiter`, `DomainsDescend`; `SnapshotNamesOwner`, `EveryWaiterAnsweredOnce`; `OnlyOutrankedDropped`, `SafetyAdmitted`, `CancelledReturns` |
| `CoreContained` (`CoreSupervisor`) | `LiveCoreIsOwned`, `NoCoreBehindTheState`, `RunningIsWatched`, `BackoffIsCancelled`, `WarmOnlyWhileRunning` |
| `JournalCovers` (`CaptureTransition`) | each mutation is journaled first, leftovers keep their journal |
| `NetworkIsClean` (`NetworkJournal`) | `OthersKept`, `CleanIsClean` |
| `ProgramIsSafe` | `OneWindow`, `RecoveredFirst`, `ExitIsClean` of `Lifecycle`; `ForeignIsGone` of `DeviceSetup` |
| `UpdatesAreSafe` (`CoreUpdate`) | `HeldIsReachable`, `OneFailureIsSurvived` |
| `ChangesAreSafe` (`CaptureComposites`) | `RunningIsProven`, `FailureIsUndone` |
| `PipesAreSafe` | `HandlesAreSafe`, `ListenerLeavesNothing` |
| `AgentReturns` | `SessionsEnd`, `CloseReturns`, `ListenerCloses` |
| `RuntimeAgrees` | `RunningIsRecorded`, `ActiveIsProven`, `MutationIsAtomic`, `NeededFilesStay` of `RuntimeConfig`; `FileFitsCore`, `SwitchIsUndone`, `NoDroppedCoreLives` of `CoreSwitch` |
| `SourcesAreSafe` | `SourcesAreWhole`, `AnswersAreTrue` |
| `RequestsAreSafe` | `AnswersAreOwn`, `AtMostOnce` |
| `BreakerIsSafe` | `BudgetHolds`, `TrialIsReleased` |
| `DocumentsAgree` | `RoutesArePromised`, `NamesAreCaptured`, `NodesAreWhole` |
| `TunIsSafe` | `NetIsOwned`, `NoSessionNoNet`, `EnabledIsBound`, `ReloadIsWhole`, `FaultHasEvidence`, `VerifiedIsCaptured` |

`LedgerRefined` is the refinement of `ResourceLedger` by `NetworkJournal`, `GateRefined`
that of `TransactionGate` by `Coordinator`. `ChangesAreObserved` says that a change
of capture always leads to another observation.

Every property of a passing run has a mutant in `PROJECT.json`: a change of one
definition of the kind a programmer makes, which breaks it. The mutated forms
stand in the modules before the definition they replace and are used nowhere
else.

**Bounds, and why they are enough.** All are named constants.

- *Three clients.* The races of the coordinator are between an owner that
  finishes, a waiter that gives up and a newcomer that supersedes; with three
  clients all of them coexist. The proofs remove this bound.
- *Bodies.* Two top-ranked requests, one of a middle and one of a low rank, and
  two domains: the least in which supersession and selection can disagree.
- *`MaxStarts` = 3.* A swap whose new core fails is an old core, a new one and a
  restored one. The host and the supervisor never relate more than a core and
  its successor.
- *`MaxRestarts` = 3* in `CoreSupervisor` is the code's default.
- *`Prompt` = TRUE* is an assumption about time: between the stop of a core and
  the next start (at least 200 ms) a monitor that can take a step takes it.
  Without it, a crash handler that is held up in the middle for the length of a
  whole swap consumes the warm flag of the next core: `WarmLossIsQuiet` and, with
  three starts, `LiveCoreIsOwned` fail. Set `Prompt` = FALSE in
  `CoreSupervisor_safety.cfg` to see the traces.
- *`Rounds` = 2* is `selfheal.MaxRepairRounds`; where a run uses 1, the rounds are
  not its subject.
- *`MaxWaiting` = 1, `Asked`* bound the user's requests that wait at once, and their
  kinds. One waits while a transaction runs; that a later one finds an earlier one in
  the queue is the subject of `Coordinator`. `capture_races` asks for the two captures
  only, because a reader needs a capture to read. The proofs remove both bounds.
- *`MaxReads` = 1.* One reader outside a transaction at one moment of every
  behaviour; all moments are tried.
- *`Races`, `Faults`* name the interferences a run allows. They keep a property
  that holds under some of them apart from the findings under others, and the
  name of each is explained in its module.
- *Settings of the proxy.* Direct, with a proxy, with a PAC file, enabled without
  a server; two more for another application. The proofs remove this bound.
- *Network.* One resource of each kind that is treated differently: a route to the
  endpoint, a route bound to the adapter, an NRPT rule, a firewall rule. Two
  sessions and two adapters are the least for a leftover of an earlier session on
  an adapter that is gone. One command or write fails; the crashes, which are not
  limited, end the undo of that failure at every step. The proofs remove all of
  these bounds.
- *Two launchers, two contexts, two files.* One launcher takes over while another one
  still resets; a file before and one after a failure. The proof removes the bound.
- *`LifeQuotas`.* Two requests without a window, or three processes of the window
  without a request: requests and windows meet in the exit only.
- *Failures: two* of a mutation, of a source, of a change and of a core selection: the
  second hits the undo of the first. *One* of an installation, whose guarantee is for
  one, beside deadlines and a shutdown; the proof removes the bound. Properties
  about one failure are stated for one.
- *`MaxRevisions` = 3, `MaxVersions` = 5.* An old revision, a new one and the one
  after; a change of core compiles for either core more than once.
- *`CacheLimit` = 1, `Attempts` = 3.* The code's cache has 256 places; a request that
  must be remembered beside one that has been completed is the case of a full
  cache. Three attempts are the code's number.
- *`QueueSize` = 1* in `SelfHeal` and *`QueueLength` = 1* in `PipeListener`: the least
  with a full queue. *`MaxTime` = 3, `MaxLives` = 2*: a window and a cooldown pass,
  and the breaker's file is read once.
- *TUN.* Two sessions and two adapters, so that a stale adapter differs from the
  expected one; one event of the environment (`MaxTunFaults`), which every step of
  a session, of a reload and of the monitor can meet.
- *Two events of the environment*: one between two reads of an observation, and one
  after.

Deadlock is checked where a behaviour can always go on. `agent`, `service`,
`runtime_warm` and `environment_partial` say `CHECK_DEADLOCK FALSE`: their systems
are bounded by numbers of requests and stop when these are used up. In
`CoreSupervisor` requests need enough unused generations, so a behaviour near its
bound goes on with requests that start nothing.

## 4. Fairness

Safety runs assume none. The temporal properties are checked under:

- *Coordinator*: goroutines that can run do (`Notify`, `ReceiveReady \/ GiveUp`,
  `Drain`) and owners finish, because handlers defer `Finish` and every wait in
  them has a deadline. Nobody must call `Begin` or cancel. A client whose
  context is done may leave its `select` through either branch, so fairness is
  on their disjunction.
- *CoreSupervisor*: the caller goes on (its waits are bounded by contexts and by
  the host's stop timeout), a process that was killed exits, the monitors run.
  Nobody must make a request and no core must crash.
- *CaptureTransition* (`capture`): a transaction goes on (each call has a
  deadline), waiting requests and the startup recovery are admitted (by `Finish` of
  the previous owner), the health monitor ticks while the capture stays broken, and
  an attempt it scheduled is made. The launcher need not be restarted after it
  died, and nobody must make a request.
- *CoreUpdate*: the Agent's goroutines and timers go on; the window owes nothing:
  it may stop asking at any point.
- *PipeConnection, PipeListener*: goroutines go on, an operation that was cancelled
  completes (the kernel's promise of `CancelIoEx`). An operation that nobody cancels
  need not complete: a peer may be silent for ever.
- *Lifecycle*: main, the Service, the Agent and the request that is being served go
  on, because their waits have deadlines. Nobody must ask for an exit, and the
  forced exit (a second signal or the timer) is never owed.

## 5. What is proved

`tlapm` checks all of it, for every value of the constants.

**`CoordinatorProofs`**, for any finite set of clients, any identifiers and any
bodies. Assumptions: `ClientsAssumption` (finite), `BodiesAssumption`,
and `NoneAssumption` (None is not a client, an identifier, a body or a request).

| Theorem | States |
|---|---|
| `InductiveInvariant` | `IInv` |
| `TypeCorrect` | `TypeOK` |
| `MutualExclusion` | `SingleOwner` and `SnapshotNamesOwner` |
| `QueueServed` | `NoLostWaiter` |
| `NothingIsLost` | `NothingLeaks` |
| `DomainOrder` | `DomainsDescend` |
| `QueueIsSound` | `QueueSound` |
| `NoOvertaking` | `DomainFifo` |
| `NobodyIsDropped` | `OnlyOutrankedDropped` |
| `CoordinatorIsGate` | `GateRefined`: `Coordinator` implements `TransactionGate` |

`SingleOwner` is not inductive: that two clients do not hold the transaction now
says nothing of a message on its way to a client that no longer waits. `IInv`
adds where messages come from: a queued client is still undecided
(`WaitersUndecided`), a message is awaited by its addressee and there is one per
addressee (`MessagesAwaited`, `MessagesUnique`, `ReadyAwaited`), what a client
still owes has the shape of the action that left it (`OutboxShape`), and the
request of a client stays with it until it returns (`RequestKept`). From that,
`Finish` and `Drain` hand over what exactly one client will receive.
`DomainsDescend` is proved by a second induction on top of `IInv`, and
`DomainFifo` follows from it: among the waiters of the highest rank the earliest
is taken, and within its domain everybody ahead of it has at least its rank.

**`CoreSupervisorProofs`**, for any number of starts and any restart budget.

| Theorem | States | Under |
|---|---|---|
| `LateInvariant`, `TypeCorrect` | `LateInv`, `TypeOK` | nothing |
| `PromptInvariant` | `PromptInv` | `Prompt` |
| `NoCoreEscapes` | `CoreContained` | `Prompt` |
| `WarmLossSpendsNothing` | `WarmLossIsQuiet` | `Prompt` |

`LateInv` says how many cores a request may still start (`StartsAreBudgeted`), that a
generation to come is untouched, and that every monitor counts at most one
restart, which bounds the count for monitors that are held up for ever. `PromptInv`
adds what promptness gives: only the monitor of the last core is at work and none
while one is started (`OneMonitor`), every core but the last is cancelled, and the
last one too while it is stopped or its crash is handled (`OldAreCancelled`), a core
that was not cancelled is running or being started (`UncancelledRuns`), and where the
warm flag can be set (`WarmPlaces`). `Prompt` says that no monitor is held up between
two of its steps for as long as a core takes to stop and start again. It is an
assumption about time that the code makes and does not enforce; section 3 says what
fails without it.

**`CaptureTransitionProofs`**, for any number of rounds and of waiting requests, any
kinds asked for and any choice of interferences unless one is named.

| Theorem | States | Under |
|---|---|---|
| `TypeCorrect` | `TypeOK` | nothing |
| `MutationsAreCovered` | `JournalCovers` | nothing |
| `SnapshotNeverLies` | `SnapshotIsTrue` | `OnlyTransactionsWrite` |
| `TransitionsStartClean` | `StartsClean` | `OnlyTransactionsWrite` |
| `OffStaysOff` | `OffHolds` | `OnlyTransactionsWrite` |

Two invariants carry these. The first is of the machine and holds whatever races: what
is in place is as far as the transition has come and its journal is open
(`MachineFollows`), and a TUN under a proxy that a dead launcher left has a journal
(`LeftoversCovered`). The second is of the snapshot: outside of a transaction it
admits that it is wrong, or is true, or belongs to a launcher that has not looked yet
(`SnapshotKnows`); and once the user was told off, nothing in progress, queued or
scheduled aims at a capture (`OffStays`). `OnlyTransactionsWrite` excludes the readiness
check, the dashboard and the supersession of the recovery at startup, with each of
which these properties fail (section 6); crashes of the launcher and breakage of the
capture are allowed.

**`AgentProofs`**, for any numbers of installations, changes and failures, any options,
goroutines, closers and instances. The four components do not share variables, so
`AgentInvariant` is one invariant for each.

| Theorem | States |
|---|---|
| `AgentTypeCorrect` | `AgentTypeOK` |
| `UpdatesSurvive` | `UpdatesAreSafe`, with `HeldIsReachable` and `OneFailureIsSurvived` |
| `SessionsFinishOnce` | `FinishedOnce` |
| `ChangesSafe` | `ChangesAreSafe` |
| `PipesSafe` | `PipesAreSafe`, with `HandlesAreSafe` and `ListenerLeavesNothing` |

*Core update.* The owner of the transaction is at a step that holds it (`HolderIsOwner`),
it is registered, with its timer set, before anybody can wait for the interface
(`RegisteredHolds`), and every installation begins one session (`BeginsOnce`). That
one failure is survived needs the whole protocol: the files are of one version
except while the interface works on them, which it does under an open session only
(`FilesFit`); what an answer says is where the session is (`RepliesFit`); a request not
yet taken is the one the interface waits for (`RequestsFit`), and so is the one being
worked on (`WorkIsAsked`); a session the interface has left was left by a failure
(`LostAfterFault`); and while a session holds the transaction it remembers what the
user knows of core and capture (`CoreKnown`). All of it is claimed for `Smooth`
behaviours, the condition of `OneFailureIsSurvived`: one failure, no deadline that
passed during the work, no shutdown. The proof goes from a state before any of these
to one after (`Ages`).

*Composites.* What the Service is configured with is touched with capture off, the
policy excepted (`TouchedWhileDown`); an undo is of the subject that was changed
(`UndoOfSubject`) and knows what to bring back (`UndoHasReason`); whatever brings
capture up verifies it first, so that a capture which is shown runs with what it was
verified with.

*Pipes.* Every operation that uses the handle is registered while it does
(`PendingIsRegistered`), the connection is marked as closed before the handle is
(`ClosersHaveClosed`), the closer that closes it has waited for everybody
(`AllAwaited`), and nobody enters afterwards (`NoneLeft`). A listener closes its channel
after its goroutines are gone, and none comes back (`ChannelIsLast`).

**`NetworkJournalProofs`**, for any plan that names each of its resources once
(`PlanAssumption`), any numbers of sessions, adapters and failures, and crashes.

| Theorem | States |
|---|---|
| `NetworkInvariant`, `NetworkTypeCorrect` | `NetInv`, `NetworkTypeOK` |
| `NetworkStaysClean` | `NetworkIsClean` |
| `JournalImplementsLedger` | `LedgerRefined`: `NetworkJournal` implements `ResourceLedger` |

Whatever is in the system is on disk (`Covered`). A rollback works on a copy in memory
that covers the system as well and shrinks behind the removals (`RollbackCovers`); an
activation begins, and orphans are looked for, when nothing is left (`NothingLeft`);
while a plan is installed the journal is one entry ahead of the system
(`JournalIsAhead`); and what is written down as Navo's is not another program's
(`NotTheirs`), from which `OthersKept` follows.

**`WindowsProofs`**, about the components of `MCWindows` and their composition.

| Theorem | States |
|---|---|
| `TypeCorrect` | `TypeOK` of `SystemProxy` |
| `InductiveInvariant` | `IInv` of `SystemProxy` (under `Calm`) |
| `ConfigRestored`, `EnableWorks`, `DisableWorks`, `NewerIsKept` | `UserConfigRestored`, `EnabledIsOwned`, `DisabledIsOff`, `NewerKept` (under `Calm`) |
| `ForeignStaysOut` | `DeviceTypeOK`, `ForeignIsGone` of `DeviceSetup` |
| `WindowsInvariant`, `ProgramStaysSafe` | `WindowsInv`, `ProgramIsSafe` |
| `WindowsTypeCorrect` | `WindowsTypeOK` |

*The proxy*, for any settings of the user and of other applications that do not name
Navo's own server. `Calm` says: no death between two registry values, no value after
the first that cannot be written, and no write of another application during an
operation. Crashes at every other point, failures of every file operation and writes
of others between operations are included. While the marker exists and nobody chose
anew, the backup restores the user's choice (`BackupIsChoice`); the registry is only
ever written with the marker in place (`TakenIsMarked`) and is otherwise Navo's or the
user's as a whole (`Whole`), the values written so far being the target's
(`Progress`). Section 6 shows what happens without each part of `Calm`. The types need
none of it, only that a restoration has a backup to restore (`TypedInv`).

*The data directory*, for any contexts, any number of launchers and any list of files.
The files follow the state (`FilesFollowState`): they are of the context the state is
bound to, because a state is created only after every file was removed
(`PassedIsGone`, `CleanedIsOwn`), so a reset that died leaves the old state and is done
again.

*The program*, for any number of requests, windows and starts (`LifeInv`). The window
that is alive is the one in the slot (`OnlyInSlot`); whoever can ask was started after
the Service was ready (`ServedFirst`); the connection transaction has one holder, and a
shutdown that drains is one (`HolderIsKnown`); what a shutdown has taken back is there
again only because of a request that was taken after it (`LateOnly`); and an exit has
waited for both (`JoinedFirst`). `ExitIsClean` alone is not inductive: it says nothing
of what may still be on its way when the launcher begins to wait.

**`ServiceProofs`**, about the eight components of `MCService` and their composition,
with the lemmas of `RuntimeProofs`, for all values of their constants that satisfy
`RuntimeAssumption`, `SwitchAssumption`, `TunAssumption`, `SourcesAssumption`,
`IpcAssumption`, `HealAssumption`, `AsksAssumption` and `EnvironmentAssumption`:
bounds are numbers, "none" is none of the things there are, a subscription is no
upstream proxy, only known cores are asked for, and the sources of a request are a
list of outbounds. The number of failures is any;
some properties speak of what at most one of them does.

| Theorem | States |
|---|---|
| `ServiceInvariant`, `ServiceTypeCorrect` | `PartsInv`, `ServiceTypeOK` |
| `RuntimeStaysAgreed` | `RuntimeAgrees` |
| `TunStaysSafe` | `TunIsSafe` |
| `SourcesStaySafe` | `SourcesAreSafe` |
| `RequestsStaySafe` | `RequestsAreSafe` |
| `BreakerStaysSafe` | `BreakerIsSafe` |
| `DocumentsStayAgreed` | `DocumentsAgree` |
| `NoChangeIsMissed`, `ChangesStayObserved` | `ChangesAreObserved`, of `EnvironmentSpec` and of `ServiceSpec` |

`PartsInv` is the conjunction of an inductive invariant for each component; a step of one
is a stutter of the others (`OnePartMoves`). What each adds to its properties:

- `RuntimeInv`: which file the core runs and which the path names at each step of a job
  (`FilesFollowPath`), that memory, disk and the file of the path hold one content from
  the moment a candidate is recorded (`RecordsAgree`), what a mutation may have changed
  before and after it was recorded (`MemoryIsKnown`), that only a failure or a warm core
  makes it go back (`UndoHasReason`), and that what it goes back to was proven
  (`RunningIsActive`).
- `SwitchInv`: numbers of versions in use lie behind the counter (`Numbered`), the path
  fits the core it may be started with (`FilesFit`), and a switch keeps what it needs to
  give the old core back (`StaysUndoable`).
- `TunInv`: who takes the network down at each step (`Owned`), what a preparation and a
  reload have at each step (`Prepared`, `Reloaded`), that a look of the monitor is one
  blame short of the next (`WatchIsFair`), and what holds without (`WholeTun`) and with
  one failure (`BoundOnce`, `Trusted`).
- `SourcesInv`: memory runs ahead of the file only while it is saved (`FilesFollow`), what
  each operation holds at each step (`OperationsHold`), and that nothing an operation may
  give back lacks its secret (`SecretsStay`) or its owner (`NodesHaveOwners`,
  `CacheHasOwners`).
- `IpcInv`: the one connection of the Agent carries the call that waits there and nothing
  else, in one place (`ChannelIsHeld`, `ChannelIsClean`), which is why answers need no
  ids; and what was executed is remembered or was evicted (`ExecutedIsKnown`).
- `HealInv`: what is tried was allowed by the circuit (`AttemptIsAllowed`), the record
  counts the window as the clock has it (`RecordIsTrue`), and beyond the budget each
  attempt took some time (`Paced`), which bounds the counter.
- `CompilerInv`: what is composed is `Composed` of the request and suits its core, and
  what is compiled is valid, not refused, and the document of that core. The rest is
  about lists, which are of any length here: the induction over a list takes the least
  number for which a claim fails, which `WFMin` of the library provides for a set
  (`LeastExists`, `SetInduction`); the induction theorems themselves take an operator,
  which the provers cannot instantiate. By it, `Enabled` is the list of all the enabled
  sources and of nothing else (`KeptIsList`, `KeptIsAll`); it is written as a recursive
  function for that, `SelectSeq` having no definition in the prover. `FirstMatchConcat`
  takes two lists of rules apart, so that `PolicyIsPromised` reads the policy one part at
  a time, and no case is split on which of the parts are empty.
- `EnvironmentInv`: who holds the environment's guard (`GuardIsHeld`), and that a change
  made while an observation runs is remembered as a signal, unless that observation has
  not read the capture yet (`MissedIsSignalled`).

`RuntimeInv`, `TunInv`, `CompilerInv` and `LifeInv` were checked by TLC on small instances before they
were proved.

**Only model-checked**: the liveness properties `WaitersServed`, `Responsive`,
`CaptureSettles`, `EverybodyLeaves` and `AgentReturns`.
Liveness under fairness, and with it everything about `ENABLED`, is out of the prover's
reach and stays with the model checker.

## 6. Where the code and its documentation disagree

Each of these has a run that ends in a counterexample; `PROJECT.json` quotes the
lines.

- **A crashed core is never restarted** (`core_dirty`). `handleCrash` cancels the
  lifecycle context its own backoff then waits on
  (`internal/supervisor/supervisor.go:411-415`, `:450`), so the restart is never
  reached and the state stays dirty. `BackoffIsCancelled` of `core_safety` is the
  same fact as an invariant. What it costs: every `capture.prepare` and every
  rollback is refused as busy, and mutations of the configuration wait for their
  deadline with `captureMu` held (`internal/service/runtime.go:773`), until
  `core.update.stop`, `core.select` or a restart of the Service.
- **A readiness check brings back a mode the user left** (`capture_readiness`).
  `verifyCaptureReadiness` writes back the whole snapshot it read minutes before
  (`internal/agent/capture_transition.go:988`, `:1037`); the health monitor then
  repairs the mode in it.
- **A death between two registry values leaves Navo's proxy on** (`proxy_torn`).
  What is left matches neither the marker nor the user's setting, so `Disable`
  gives the marker up, restores nothing and reports success.
- **A change under a warm core always fails** (`runtime_warm`). The mutation stops
  the warm core and then probes through it (`internal/service/runtime.go:962-967`,
  `:485-492`, `:507-508`).
- **A failed observation takes a healthy capture down** (`environment_partial`). The
  analyzer derives errors from what an observation left out, and the health
  monitor acts on the first that applies, although only fresh and complete
  evidence is to be trusted (`findings.md:1730`,
  `internal/agent/environment_faults.go:20-27`). A snapshot is refreshed every five
  seconds and the monitor looks every two, so its three looks may be at one
  snapshot.

The modules also state what TLC refutes without a run of its own. Each is
reproduced by giving the named property to TLC:

| Property, module | Under | What happens |
|---|---|---|
| `PlannedStopIsNoCrash`, `CoreSupervisor` | `core_safety` | the host's monitor of a stopped process that gets the mutex after the next start marks the new core failed (`internal/host/singbox.go:529-540`); the supervisor kills it |
| `SuppressionHolds`, `CoreSupervisor` | `core_safety` | a crash handler that read the suppression flag before a transition began turns the state dirty during it |
| `ReplacementAfterExit`, `CoreSupervisor` | `core_safety` | a stop that timed out lets a later forced stop answer before the old process is gone; a replacement starts beside it |
| `FirstClickReconciled`, `SnapshotIsTrue`, `CaptureTransition` | `Races` with "supersession" | requests are accepted before the recovery at startup has its transaction; the user's request removes the recovery from the queue, nobody asks again, and an idempotent off leaves what the crash left |
| `FaultStaysWithTun`, `CaptureTransition` | `Races` with "dashboard", one reader | the dashboard checks the mode on a copy and writes the TUN fault after a switch to another mode has begun |
| `UserConfigRestored`, `SystemProxy` | `Faults` with "failure" | a restoration that fails half-way is taken for a foreign setting by its retry |
| `NewerKept`, `SystemProxy` | "external", "overlap" | another application's write between the comparison and the restoration is overwritten |
| `OwnIsKept`, `DeviceSetup` | `DeviceSpec`, two launchers | a second launcher that has read the foreign state before the first one replaced it resets the files the first one has written since: `initialization.Run` comes before the lock of the single instance (`cmd/navo/main.go:103`, `:139`); with one launcher it holds |
| `SelectionIsTrue`, `CaptureComposites` | `agent` | `selectOutboundWithCapture` compares the target with the active node (`internal/agent/capture_transition.go:366`), not with what is selected: a choice that is not yet running is reported and left |
| `StaleNeverRuns`, `SelfHeal` | `service` | an event of an earlier life of the engine is repaired in a later one |
| `CooldownHolds`, `SelfHeal` | `service` | an open circuit is tried before its cooldown ends when the window of attempts has passed |
| `HealthyIsLeftAlone`, `Environment` | `service` | even a complete observation may mix two moments and take a healthy capture down (against `findings.md:1642`) |
| `SeizesNothing`, `Environment` | `service` | a repair that rests on old evidence replaces a proxy another application has set since (against `findings.md:1641`) |

Observations made while modelling, which no property states:

- *Environment.* A selection restores capture in a phase "verifying" that the
  analyzer does not count as transitional. Findings that are neither recoverable
  nor Navo's own still start a repair. `CAPTURE_DATAPLANE_FAILED` stays until
  something verifies again, so that one failed probe is counted three times, and
  it is ranked before a physical outage.
- *Repair.* The restoration after a failed failover and `failClosed` use the same
  context, which may have expired.
- *TUN.* The monitor can publish a fault during a reload that went well, and only
  the next prepare clears it. After two failures `tun.status` says enabled while
  nothing is bound. A first rebind that fails, followed by a successful swap back,
  leaves the expected adapter stale. After a reload that was undone the stage stays
  "control plane verified", so the monitor rests until `runtime.verify`.
- *Change of core.* A core whose stop failed is dropped alive by the next
  `core.select`. Afterwards the self-heal events still come from the old
  supervisor. With a warm core the selection commits without a probe and leaves a
  core running while capture is off.
- *Runtime.* After two failures a mutation that was rolled back can commit a revision
  as active that no probe has seen. `LastKnownGood` is written and never read. The
  list mode that answers "unchanged" reads without `captureMu` (`runtime.go:697`);
  `UpdateTLSCompatibility` changes the policy outside it.
- *Sources.* Deleting the secret of an upstream whose creation failed goes on when
  its removal failed too: the upstream stays without its secret. Corrupt metadata
  loads as an empty list. `sub.add` with `wait` keeps the subscription when the
  refresh fails. `repositories.go:189` restores the revision, but not which one is
  active.
- *Compiler.* Mihomo loses the obfuscation of Hysteria 2, the congestion control of
  TUIC, ALPN and fingerprint, although `multi_core.go:33` says "can faithfully
  represent". `GenerateMihomo` never reads `cfg.DNS`. `validateTransport` folds case and
  the generators do not. A sing-box rule with a range of ports keeps its first.
  The Xray document of a shadowsocks node with a user name has neither its method nor
  its password (`multi_core.go:314`). No parser reads such a node, but `outbound.update`
  can make one (`runtime.go:1609`); `NodesAreWhole` excepts exactly that
  (`LosesCipher`; the lemma `CipherIsLost`), and without the exception TLC finds it
  violated by such a node of `MCAsks`.
- *Life.* A request that is taken up after the shutdown leaves its network or its
  proxy behind a graceful exit
  (`docs/design/NAVO_Windows_Proxy_TUN_Troubleshooting_and_Acceptance.md:1301`). A
  fatal error after the Agent's start skips the shutdown, and so does an Agent whose
  pipe fails to open.
- *Reconciler.* "dirty" is written inside `Stop` only
  (`internal/supervisor/supervisor.go:129`), so a launcher that is killed while it runs
  leaves no dirty record.
- *Privacy reset* (`internal/initialization/privacy_reset.go:11-21`). The structured log,
  `startup.json`, `recovery_state.json` and diagnostics exports of a foreign context are
  not in its list, though the design guide (9.3) names logs. A failure of DPAPI on
  the same machine deletes the backup and the journals of leftovers that are still
  in place.
- *Self-heal.* An event merged into one that is being processed is forgotten with it
  (`internal/selfheal/engine.go:120`).
- *Dashboard.* A failed probe of the exit address moves the key of the last probe and
  keeps the old payload (`internal/agent/dashboard.go:189-194`).
- *Login task* (`internal/startup/manager_windows.go`). Two concurrent changes, or a
  death between creating the task and saving it, leave a task that no record names.
- *Without a caller*: `RecoverOwned` of the proxy owner, `Restart` and
  `handleCoreRestart` of the supervisor (so `StateDegraded` is never entered),
  `connectToServiceWithRetry`, `DefaultCompiler`, `GenerateForCore`,
  `ResolveOutboundTags`, `storage.Store`.

## 7. Abstractions and what is not modelled

- Contents of configurations, ports, digests, log lines, texts and times are left
  out wherever no decision reads them. A timeout is the alternative of the step
  that waits.
- Components that share a run do not interleave; the table at the end of section 2
  says how one is seen by another. A composition of all of them is out of reach of
  the model checker.
- `Coordinator`: the record of the last transaction (`LastID`, `LastPhase`,
  `LastError`), which no decision reads.
- `CoreSupervisor`: `Restart` (no caller), what `handleCrash` does after the backoff
  (unreached), validation of the configuration (an early return before any
  change), the reconciler beyond its outcome.
- `CaptureTransition`: phases, readiness evidence and adapters of the snapshot,
  which no decision of a transaction reads; the Service is one value; failover is
  one more attempt to activate with another node. Composites are
  `OtherTransaction` while capture is off.
- `CaptureComposites`, `Environment`, `Lifecycle`: a capture transition is one or a
  few steps.
- `SystemProxy`: `Restore`, `Backup` and `RecoverOwned` as entry points of their own
  (no caller), `Status` and `OwnershipStatus` (readers). Files are replaced
  atomically, as `fsatomic` does. Navo's endpoint is one value, because its port
  is fixed when the launcher starts.
- `NetworkJournal`: how the plan is made, journals of version 1, observations that
  only read.
- `TunSession`: the fast path of mode off with a warm core, which is in
  `RuntimeConfig`.
- `RuntimeConfig`: rule lists are policies; a probe succeeds or fails.
- `Sources`: parsing and normalization; a fetch succeeds or fails.
- `Compiler`: listeners, logging and layout of the documents. `DefaultCompiler` is not
  used by the program.
- `IpcSession`: the fingerprint of a request is its identity; frames are whole
  messages.
- `SelfHeal`: one key. Keys share the queue and nothing else.
- `DeviceSetup` takes the failure of DPAPI for what the code takes it for, another
  context; a directory without a device state is one of an earlier version.

Not modelled at all, with the reason:

- *Probes, metrics and logs*: their outcomes are choices in the models; they keep no
  state that a decision reads.
- *Manifests and compatibility*: constants and digests.
- *Desktop application* and *tray* beyond the installation of a core and the windows:
  views that forward requests.
- *Windows, the file system and the registry*: what a call may do is an alternative
  of the step that makes it.

## 8. Plan

Every invariant and action property of the passing runs is a theorem; what the runs say
beyond that is liveness.

What may still be modelled: the exit probe of the dashboard and the login task, each
a small module of its own.
