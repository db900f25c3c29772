--------------------------- MODULE CoreSupervisor ---------------------------
(***************************************************************************)
(* The proxy core's life: internal/supervisor/supervisor.go over           *)
(* internal/host/singbox.go, driven by the requests of internal/service.   *)
(*                                                                         *)
(* Every start of the core is a generation: a process, the lifecycle       *)
(* context that kills it, the host's monitor that reaps it and the         *)
(* supervisor's monitor that polls it.  Service.captureMu serialises the   *)
(* requests, so one caller stands for all of them; the monitors, the       *)
(* operating system and the caller interleave between any two critical     *)
(* sections of Supervisor.mu and SingBoxHost.mu.                           *)
(*                                                                         *)
(* Abstractions.  Configuration files are left out: a request is the kind  *)
(* of change it makes.  Host.Start holds the host's mutex from beginning   *)
(* to end, so it is one step with four outcomes; Host.Stop is two, because *)
(* the process dies while it waits.  StateDegraded is never entered by the *)
(* code.  The part of handleCrash that follows the backoff is left out: it *)
(* runs only if the timer beats a context that BackoffIsCancelled shows    *)
(* done before the timer is armed.                                         *)
(***************************************************************************)
EXTENDS Integers

CONSTANTS
  MaxStarts,    \* bound of the model: how many cores are ever started
  MaxRestarts,  \* Supervisor.maxRestarts
  Prompt        \* no monitor is held up between two of its steps for as long
                \* as the core takes to stop and start again

ASSUME MaxStartsAssumption   == MaxStarts \in Nat \ {0}
ASSUME MaxRestartsAssumption == MaxRestarts \in Nat
ASSUME PromptAssumption       == Prompt \in BOOLEAN

VARIABLES
  host,          \* SingBoxHost.status.State, exitCh and cmd/cancel
  proc,          \* the process of each generation
  killed,        \* generations the host has killed or cancelled
  cancelled,     \* generations whose lifecycle context is done
  started,       \* generations started so far
  sup,           \* Supervisor.state
  cancelOf,      \* the generation Supervisor.cancel belongs to, 0 for nil
  restartCount,  \* Supervisor.restartCount
  warmIdle,      \* Supervisor.warmIdle
  suppressed,    \* Supervisor.restartSuppressed
  hmon,          \* the host monitor of each generation
  smon,          \* the supervisor monitor of each generation
  api            \* the caller that holds Service.captureMu

procVars == <<proc, killed, cancelled, started>>
supVars  == <<sup, cancelOf, restartCount, warmIdle, suppressed>>
vars     == <<host, procVars, supVars, hmon, smon, api>>

Gens == 1 .. MaxStarts

-----------------------------------------------------------------------------
(* Types *)

States == {"stopped", "reconciling", "ready", "starting", "running", "stopping",
           "failed", "dirty"}

HostStates == {"stopped", "starting", "running", "stopping", "failed"}

Jobs == {"off", "on", "swap", "restore", "rollback", "update_stop", "update_start", "expire"}

Steps == {"idle", "guard", "stop", "stopping", "swap", "host_stop", "host_wait",
          "stop_done", "stop_failed", "start", "reconcile", "reconciling", "ready",
          "spawn", "started", "start_failed", "returned", "refused"}

TypeOK ==
  /\ host \in [state : HostStates, exit : 0 .. MaxStarts, cmd : BOOLEAN]
  /\ proc \in [Gens -> {"none", "alive", "dead"}]
  /\ killed \subseteq Gens /\ cancelled \subseteq Gens
  /\ started \in 0 .. MaxStarts /\ cancelOf \in 0 .. started
  /\ sup \in States
  /\ restartCount \in 0 .. (IF Prompt THEN 1 ELSE MaxStarts)
  /\ warmIdle \in BOOLEAN /\ suppressed \in BOOLEAN
  /\ hmon \in [Gens -> [at : {"none", "fresh", "waiting", "woken", "gone"},
                        exit : 0 .. MaxStarts]]
  /\ smon \in [Gens -> {"none", "watching", "checking", "crash", "warm", "to_stopped",
                        "policy", "to_failed", "to_dirty", "exhausted", "backoff", "gone"}]
  /\ api \in [pc : Steps, job : Jobs \cup {"none"}, seen : States]

Init ==
  /\ host = [state |-> "stopped", exit |-> 0, cmd |-> FALSE]
  /\ proc = [g \in Gens |-> "none"]
  /\ killed = {} /\ cancelled = {}
  /\ started = 0 /\ cancelOf = 0
  /\ sup = "stopped"
  /\ restartCount = 0
  /\ warmIdle = FALSE /\ suppressed = FALSE
  /\ hmon = [g \in Gens |-> [at |-> "none", exit |-> 0]]
  /\ smon = [g \in Gens |-> "none"]
  /\ api = [pc |-> "idle", job |-> "none", seen |-> "stopped"]

-----------------------------------------------------------------------------
(* Helpers *)

Condemned(g) == g \in killed \cup cancelled
Dead(g)      == proc[g] = "dead"
Live(g)      == proc[g] = "alive" /\ ~Condemned(g)

(* ValidTransitions of state.go: the states with a start and a stop event. *)
Startable == {"stopped", "ready", "dirty", "failed"}
Stoppable == {"running", "starting", "failed"}

(* Host.Stop holds the host's mutex while it waits for the process. *)
HostFree == api.pc # "host_wait"

(* Every monitor has taken the steps it can take. *)
Settled ==
  \A g \in Gens :
    /\ smon[g] \in {"none", "gone"} \/ (smon[g] = "watching" /\ g \notin cancelled)
    /\ hmon[g].at \in {"none", "gone"} \/ (hmon[g].at = "waiting" /\ ~Dead(hmon[g].exit))

Goto(pc) == api' = [api EXCEPT !.pc = pc]

(* What a request does when Supervisor.Stop is done or has failed, and     *)
(* when Supervisor.Start is.                                               *)
AfterStop ==
  api' = [api EXCEPT !.pc = IF api.job \in {"on", "swap"} THEN "start" ELSE "returned", !.seen = "stopped"]

AfterFailedStop ==
  api' = IF api.job \in {"off", "on"}
         THEN [pc |-> "guard", job |-> "rollback", seen |-> "stopped"]
         ELSE [pc |-> "refused", job |-> api.job, seen |-> "stopped"]

(* Mutant of AfterFailedStart: a restoration that fails is tried again. *)
AfterFailedStartRetrying ==
  CASE api.job = "on" -> api' = [api EXCEPT !.job = "rollback", !.pc = "guard"]
    [] api.job \in {"swap", "restore"} -> api' = [api EXCEPT !.job = "restore", !.pc = "start"]
    [] OTHER -> Goto("refused")

AfterFailedStart ==
  CASE api.job = "on"   -> api' = [api EXCEPT !.job = "rollback", !.pc = "guard"]
    [] api.job = "swap" -> api' = [api EXCEPT !.job = "restore", !.pc = "start"]
    [] OTHER            -> Goto("refused")

(* How many cores a request may have to start. *)
Need(job) == CASE job = "swap" -> 2 [] job \in {"on", "update_start"} -> 1 [] OTHER -> 0

-----------------------------------------------------------------------------
(* Requests *)

Accept(job, pc) ==
  /\ api.pc = "idle"
  /\ started + Need(job) <= MaxStarts
  /\ api' = [api EXCEPT !.job = job, !.pc = pc]

(* capture.prepare: restarts are suppressed, the warm lease is dropped and *)
(* the old core is stopped; every mode but off then starts a new one.      *)
Prepare(job) ==
  /\ job \in {"off", "on"}
  /\ Accept(job, "guard")
  /\ suppressed' = TRUE
  /\ warmIdle' = FALSE
  /\ UNCHANGED <<host, procVars, sup, cancelOf, restartCount, hmon, smon>>

(* outbound.select and the routing requests, with a running core. *)
SwapRequest ==
  /\ Accept("swap", "swap")
  /\ sup = "running"
  /\ suppressed' = TRUE
  /\ UNCHANGED <<host, procVars, sup, cancelOf, restartCount, warmIdle, hmon, smon>>

UpdateStop ==
  /\ Accept("update_stop", "stop")
  /\ sup # "stopped"
  /\ suppressed' = TRUE
  /\ UNCHANGED <<host, procVars, sup, cancelOf, restartCount, warmIdle, hmon, smon>>

UpdateStart ==
  /\ Accept("update_start", "start")
  /\ suppressed' = FALSE
  /\ sup # "running"
  /\ UNCHANGED <<host, procVars, sup, cancelOf, restartCount, warmIdle, hmon, smon>>

(* capture.prepare(off) that keeps the core, its resumption, its expiry.   *)
RetainWarm ==
  /\ api.pc = "idle"
  /\ sup = "running" /\ host.state = "running"
  /\ warmIdle' = TRUE
  /\ UNCHANGED <<host, procVars, sup, cancelOf, restartCount, suppressed, hmon, smon, api>>

ResumeWarm ==
  /\ api.pc = "idle"
  /\ sup = "running" /\ host.state = "running"
  /\ warmIdle /\ warmIdle' = FALSE
  /\ UNCHANGED <<host, procVars, sup, cancelOf, restartCount, suppressed, hmon, smon, api>>

ExpireWarm ==
  /\ warmIdle
  /\ Accept("expire", "guard")
  /\ warmIdle' = FALSE
  /\ UNCHANGED <<host, procVars, sup, cancelOf, restartCount, suppressed, hmon, smon>>

(* The deferred SetRestartSuppressed(false); a successful update stop      *)
(* keeps the suppression until the update starts the core again.           *)
Return ==
  /\ api.pc \in {"returned", "refused"}
  /\ suppressed' = CASE api.job = "update_stop"              -> api.pc = "returned"
                     [] api.job \in {"update_start", "expire"} -> suppressed
                     [] OTHER                                  -> FALSE
  /\ api' = [pc |-> "idle", job |-> "none", seen |-> "stopped"]
  /\ UNCHANGED <<host, procVars, sup, cancelOf, restartCount, warmIdle, hmon, smon>>

-----------------------------------------------------------------------------
(* Supervisor.Stop and SwapConfig *)

(* stopCoreForCapture looks at the state before it calls Stop. *)
StopGuard ==
  /\ api.pc = "guard"
  /\ CASE sup = "stopped"    -> AfterStop
       [] sup \in Stoppable  -> Goto("stop")
       [] OTHER              -> AfterFailedStop
  /\ UNCHANGED <<host, procVars, supVars, hmon, smon>>

(* Stop reads the state and cancels the lifecycle. *)
StopBegin ==
  /\ api.pc = "stop"
  /\ warmIdle' = FALSE
  /\ IF sup = "stopped"
     THEN AfterFailedStop /\ UNCHANGED cancelled
     ELSE /\ cancelled' = cancelled \cup ({cancelOf} \ {0})
          /\ api' = [api EXCEPT !.pc = "stopping", !.seen = sup]
  /\ UNCHANGED <<host, proc, killed, started, sup, cancelOf, restartCount, suppressed,
                 hmon, smon>>

(* It refuses if the state it read had a stop event and the present state  *)
(* has none; otherwise it is stopping.                                     *)
StopMark ==
  /\ api.pc = "stopping"
  /\ IF api.seen \in Stoppable /\ sup \notin Stoppable
     THEN AfterFailedStop /\ UNCHANGED sup
     ELSE sup' = "stopping" /\ Goto("host_stop")
  /\ UNCHANGED <<host, procVars, cancelOf, restartCount, warmIdle, suppressed, hmon, smon>>

(* SwapConfig insists on a running core. *)
SwapBegin ==
  /\ api.pc = "swap"
  /\ IF sup = "running"
     THEN /\ sup' = "stopping"
          /\ cancelled' = cancelled \cup ({cancelOf} \ {0})
          /\ api' = [api EXCEPT !.pc = "host_stop", !.seen = "running"]
     ELSE Goto("refused") /\ UNCHANGED <<sup, cancelled>>
  /\ UNCHANGED <<host, proc, killed, started, cancelOf, restartCount, warmIdle, suppressed,
                 hmon, smon>>

HostStopped == [state |-> "stopped", exit |-> 0, cmd |-> FALSE]

(* Host.Stop: nothing to do, a forced kill that does not wait, or a        *)
(* cancellation and a wait for the process.                                *)
HostStop ==
  /\ api.pc = "host_stop"
  /\ \/ /\ host.state \notin {"running", "failed"}
        /\ Goto("stop_done")
        /\ UNCHANGED <<host, killed>>
     \/ /\ host.state \in {"running", "failed"}
        /\ killed' = killed \cup {g \in Gens : g = host.exit /\ host.cmd /\ proc[g] = "alive"}
        /\ IF api.seen # "running"
           THEN host' = HostStopped /\ Goto("stop_done")
           ELSE host' = [host EXCEPT !.state = "stopping"] /\ Goto("host_wait")
  /\ UNCHANGED <<proc, cancelled, started, supVars, hmon, smon>>

(* The process has exited, or the request's context expires first: the     *)
(* host is then left stopping.                                             *)
HostStopWait ==
  /\ api.pc = "host_wait"
  /\ \/ Dead(host.exit) /\ host' = HostStopped /\ Goto("stop_done")
     \/ UNCHANGED host /\ Goto("stop_failed")
  /\ UNCHANGED <<procVars, supVars, hmon, smon>>

StopDone ==
  /\ api.pc = "stop_done"
  /\ sup' = "stopped"
  /\ AfterStop
  /\ UNCHANGED <<host, procVars, cancelOf, restartCount, warmIdle, suppressed, hmon, smon>>

(* Stop ends failed.  SwapConfig asks the host for a forced stop, which a  *)
(* host that is already stopping answers at once, and starts the old core. *)
StopFailed ==
  /\ api.pc = "stop_failed"
  /\ IF api.job = "swap"
     THEN /\ sup' = "stopped"
          /\ api' = [pc |-> "start", job |-> "restore", seen |-> "stopped"]
     ELSE sup' = "failed" /\ AfterFailedStop
  /\ UNCHANGED <<host, procVars, cancelOf, restartCount, warmIdle, suppressed, hmon, smon>>

-----------------------------------------------------------------------------
(* Supervisor.Start *)

(* Mutant of StartBegin: the restart count of earlier cores is kept. *)
StartBeginCounting ==
  /\ api.pc = "start"
  /\ Prompt => Settled
  /\ IF sup \in {"running", "starting"}
     THEN AfterFailedStart /\ UNCHANGED warmIdle
     ELSE warmIdle' = FALSE /\ Goto("reconcile")
  /\ UNCHANGED <<host, procVars, sup, cancelOf, restartCount, suppressed, hmon, smon>>

StartBegin ==
  /\ api.pc = "start"
  /\ Prompt => Settled
  /\ IF sup \in {"running", "starting"}
     THEN AfterFailedStart /\ UNCHANGED <<restartCount, warmIdle>>
     ELSE restartCount' = 0 /\ warmIdle' = FALSE /\ Goto("reconcile")
  /\ UNCHANGED <<host, procVars, sup, cancelOf, suppressed, hmon, smon>>

StartReconcile ==
  /\ api.pc = "reconcile"
  /\ IF sup \in Startable
     THEN sup' = "reconciling" /\ Goto("reconciling")
     ELSE AfterFailedStart /\ UNCHANGED sup
  /\ UNCHANGED <<host, procVars, cancelOf, restartCount, warmIdle, suppressed, hmon, smon>>

(* The reconciler leaves the network clean, or Start ends failed. *)
StartReconciled ==
  /\ api.pc = "reconciling"
  /\ \/ sup' = "ready" /\ Goto("ready")
     \/ sup' = "failed" /\ AfterFailedStart
  /\ UNCHANGED <<host, procVars, cancelOf, restartCount, warmIdle, suppressed, hmon, smon>>

(* startCore: a new lifecycle context. *)
StartCore ==
  /\ api.pc = "ready"
  /\ IF sup \in Startable
     THEN /\ sup' = "starting"
          /\ started' = started + 1
          /\ cancelOf' = started + 1
          /\ Goto("spawn")
     ELSE AfterFailedStart /\ UNCHANGED <<sup, started, cancelOf>>
  /\ UNCHANGED <<host, proc, killed, cancelled, restartCount, warmIdle, suppressed, hmon, smon>>

(* Host.Start: refused or invalid, not spawned, not ready, or running. *)
HostStart ==
  /\ api.pc = "spawn"
  /\ LET g == started
         present(s) == host' = [state |-> s, exit |-> g, cmd |-> TRUE]
     IN \/ /\ Goto("start_failed")
           /\ UNCHANGED <<host, proc, killed, hmon>>
        \/ /\ host.state # "running"
           /\ present("failed")
           /\ Goto("start_failed")
           /\ UNCHANGED <<proc, killed, hmon>>
        \/ /\ host.state # "running"
           /\ present("failed")
           /\ proc' = [proc EXCEPT ![g] = "alive"]
           /\ killed' = killed \cup {g}
           /\ Goto("start_failed")
           /\ UNCHANGED hmon
        \/ /\ host.state # "running"
           /\ g \notin cancelled
           /\ present("running")
           /\ proc' = [proc EXCEPT ![g] = "alive"]
           /\ hmon' = [hmon EXCEPT ![g].at = "fresh"]
           /\ Goto("started")
           /\ UNCHANGED killed
  /\ UNCHANGED <<cancelled, started, supVars, smon>>

(* The core runs and is watched.  What the request checks next may make it *)
(* roll back.                                                              *)
StartDone ==
  /\ api.pc = "started"
  /\ sup' = "running"
  /\ smon' = [smon EXCEPT ![started] = "watching"]
  /\ \/ Goto("returned")
     \/ api.job = "on" /\ api' = [api EXCEPT !.job = "rollback", !.pc = "guard"]
  /\ UNCHANGED <<host, procVars, cancelOf, restartCount, warmIdle, suppressed, hmon>>

StartFailed ==
  /\ api.pc = "start_failed"
  /\ cancelled' = cancelled \cup {started}
  /\ sup' = "failed"
  /\ AfterFailedStart
  /\ UNCHANGED <<host, proc, killed, started, cancelOf, restartCount, warmIdle, suppressed,
                 hmon, smon>>

-----------------------------------------------------------------------------
(* Processes and the host's monitors *)

(* A process exits by itself, or because it was told to. *)
Exit(g) ==
  /\ proc[g] = "alive"
  /\ proc' = [proc EXCEPT ![g] = "dead"]
  /\ killed' = killed \ {g}
  /\ UNCHANGED <<host, cancelled, started, supVars, hmon, smon, api>>

(* SingBoxHost.monitor picks up the exit channel it finds, *)
HostMonitorReads(g) ==
  /\ hmon[g].at = "fresh" /\ HostFree
  /\ hmon' = [hmon EXCEPT ![g] = [at |-> IF host.exit = 0 THEN "gone" ELSE "waiting",
                                  exit |-> host.exit]]
  /\ UNCHANGED <<host, procVars, supVars, smon, api>>

(* is woken by the process it belongs to, *)
HostMonitorWakes(g) ==
  /\ hmon[g].at = "waiting"
  /\ Dead(hmon[g].exit)
  /\ hmon' = [hmon EXCEPT ![g].at = "woken"]
  /\ UNCHANGED <<host, procVars, supVars, smon, api>>

(* and marks the host failed unless it is being or has been stopped.  It   *)
(* does not look whether the host has started another process since.       *)
HostMonitorMarks(g) ==
  /\ hmon[g].at = "woken" /\ HostFree
  /\ hmon' = [hmon EXCEPT ![g].at = "gone"]
  /\ host' = IF host.state \in {"stopping", "stopped"}
             THEN host
             ELSE [host EXCEPT !.state = "failed", !.cmd = FALSE]
  /\ UNCHANGED <<procVars, supVars, smon, api>>

-----------------------------------------------------------------------------
(* Supervisor.monitor and handleCrash *)

MonitorAt(g, from, to) == smon[g] = from /\ smon' = [smon EXCEPT ![g] = to]

MonitorStops(g) ==
  /\ g \in cancelled
  /\ MonitorAt(g, "watching", "gone")
  /\ UNCHANGED <<host, procVars, supVars, hmon, api>>

(* A tick; select may prefer it to a context that is done as well. *)
MonitorTicks(g) ==
  /\ sup \in {"running", "dirty"}
  /\ MonitorAt(g, "watching", "checking")
  /\ UNCHANGED <<host, procVars, supVars, hmon, api>>

MonitorChecks(g) ==
  /\ HostFree
  /\ MonitorAt(g, "checking", IF host.state = "failed" THEN "crash" ELSE "watching")
  /\ UNCHANGED <<host, procVars, supVars, hmon, api>>

(* Mutant of CrashCancels: handleCrash keeps the lifecycle context. *)
CrashCancelsNothing(g) ==
  /\ MonitorAt(g, "crash", "warm")
  /\ UNCHANGED <<host, procVars, supVars, hmon, api>>

(* handleCrash cancels the present lifecycle context, *)
CrashCancels(g) ==
  /\ MonitorAt(g, "crash", "warm")
  /\ cancelled' = cancelled \cup ({cancelOf} \ {0})
  /\ UNCHANGED <<host, proc, killed, started, supVars, hmon, api>>

(* Mutant of CrashOfWarmCore: the flag is not looked at. *)
CrashOfAnyCore(g) ==
  /\ MonitorAt(g, "warm", "policy")
  /\ UNCHANGED <<host, procVars, supVars, hmon, api>>

(* takes the crash of a warm-idle core for a lost lease, *)
CrashOfWarmCore(g) ==
  /\ MonitorAt(g, "warm", IF warmIdle THEN "to_stopped" ELSE "policy")
  /\ warmIdle' = FALSE
  /\ UNCHANGED <<host, procVars, sup, cancelOf, restartCount, suppressed, hmon, api>>

(* gives up if a request is at work, or else counts the attempt, *)
CrashPolicy(g) ==
  /\ \/ suppressed /\ MonitorAt(g, "policy", "to_failed") /\ UNCHANGED restartCount
     \/ /\ ~suppressed
        /\ restartCount' = restartCount + 1
        /\ MonitorAt(g, "policy", IF restartCount + 1 > MaxRestarts
                                  THEN "exhausted" ELSE "to_dirty")
  /\ UNCHANGED <<host, procVars, sup, cancelOf, warmIdle, suppressed, hmon, api>>

(* and settles the state. *)
CrashSettles(g) ==
  /\ \/ MonitorAt(g, "to_stopped", "gone") /\ sup' = "stopped"
     \/ MonitorAt(g, "to_failed", "gone") /\ sup' = "failed"
     \/ MonitorAt(g, "to_dirty", "backoff") /\ sup' = "dirty"
     \/ MonitorAt(g, "exhausted", "to_failed") /\ sup' = "dirty"
  /\ UNCHANGED <<host, procVars, cancelOf, restartCount, warmIdle, suppressed, hmon, api>>

(* The backoff ends at once when the monitor's own context is done. *)
BackoffEnds(g) ==
  /\ g \in cancelled
  /\ MonitorAt(g, "backoff", "gone")
  /\ UNCHANGED <<host, procVars, supVars, hmon, api>>

-----------------------------------------------------------------------------

Requests == \/ \E job \in {"off", "on"} : Prepare(job)
            \/ SwapRequest \/ UpdateStop \/ UpdateStart
            \/ RetainWarm \/ ResumeWarm \/ ExpireWarm

Caller == \/ Return
          \/ StopGuard \/ StopBegin \/ StopMark \/ SwapBegin
          \/ HostStop \/ HostStopWait \/ StopDone \/ StopFailed
          \/ StartBegin \/ StartReconcile \/ StartReconciled \/ StartCore
          \/ HostStart \/ StartDone \/ StartFailed

HostMonitor(g) == HostMonitorReads(g) \/ HostMonitorWakes(g) \/ HostMonitorMarks(g)

Monitor(g) == \/ MonitorStops(g) \/ MonitorTicks(g) \/ MonitorChecks(g)
              \/ CrashCancels(g) \/ CrashOfWarmCore(g) \/ CrashPolicy(g)
              \/ CrashSettles(g) \/ BackoffEnds(g)

Next == Requests \/ Caller \/ \E g \in Gens : Exit(g) \/ HostMonitor(g) \/ Monitor(g)

Spec == Init /\ [][Next]_vars

(* A request runs to its end, every wait in it being bounded; a process    *)
(* that was killed exits; goroutines run.  Nobody has to make a request    *)
(* and no core has to crash.                                               *)
Fairness ==
  /\ WF_vars(Caller)
  /\ \A g \in Gens : /\ WF_vars(Condemned(g) /\ Exit(g))
                     /\ WF_vars(HostMonitor(g))
                     /\ WF_vars(Monitor(g))

FairSpec == Spec /\ Fairness

-----------------------------------------------------------------------------
(* Properties *)

(* g is in handleCrash. *)
Crashing(g) == smon[g] \in {"crash", "warm", "to_stopped", "policy", "to_failed",
                            "to_dirty", "exhausted"}

Quiet == api.pc = "idle" /\ \A g \in Gens : ~Crashing(g)

(* A core that nobody has told to exit is the one Supervisor.cancel kills: *)
(* whatever sequence of starts, swaps, failures and crashes came before,   *)
(* the next Stop reaches it, and there is at most one.                     *)
LiveCoreIsOwned == \A g \in Gens : Live(g) => g = cancelOf

(* Between requests a core that lives is shown as running.  A state that   *)
(* reads stopped would make stopCoreForCapture answer success over a core  *)
(* that still listens and still holds the TUN.                             *)
NoCoreBehindTheState == Quiet /\ (\E g \in Gens : Live(g)) => sup = "running"

(* Between requests a running supervisor polls its core, so that a crash   *)
(* can be noticed.                                                         *)
RunningIsWatched == Quiet /\ sup = "running" => smon[cancelOf] \in {"watching", "checking"}

(* Whoever waits for the backoff waits on a context that is already done:  *)
(* handleCrash has cancelled it.  What it would do after the backoff is    *)
(* never reached.                                                          *)
BackoffIsCancelled == \A g \in Gens : smon[g] = "backoff" => g \in cancelled

(* The warm flag never outlives the running core it was set for, the time  *)
(* of a swap apart: a later crash is not taken for a lost lease.           *)
WarmOnlyWhileRunning == warmIdle => sup = "running" \/ api.job \in {"swap", "restore"}

(* No core escapes its supervisor, whatever sequence of requests, failures *)
(* and crashes came before: the five properties above.                     *)
CoreContained ==
  /\ LiveCoreIsOwned /\ NoCoreBehindTheState /\ RunningIsWatched
  /\ BackoffIsCancelled /\ WarmOnlyWhileRunning

(* The crash of a core that is retained warm spends no restart budget and  *)
(* leaves neither a failed nor a dirty supervisor (SetWarmIdle).           *)
WarmLossIsQuiet ==
  [][warmIdle /\ suppressed' = suppressed /\ api' = api
       => restartCount' = restartCount /\ sup' \notin {"dirty", "failed"}]_vars

(* Every request returns: no Stop and no Start hangs on a monitor or on a  *)
(* core that does not die.                                                 *)
RequestsReturn == api.pc # "idle" ~> api.pc = "idle"

(* A core that crashed does not stay running in the eyes of the service.   *)
CrashNoticed ==
  \A g \in Gens : (sup = "running" /\ cancelOf = g /\ Dead(g))
                   ~> (sup # "running" \/ cancelOf # g)

Responsive == RequestsReturn /\ CrashNoticed

(* "Internal crash restarts call startCore directly and retain the         *)
(* consecutive count": a supervisor left dirty has a restart coming.       *)
DirtyHasRestart ==
  Quiet /\ sup = "dirty" => \E g \in Gens : smon[g] = "backoff" /\ g \notin cancelled

(* "SetRestartSuppressed prevents the crash monitor from racing an         *)
(* externally coordinated capture transition": none turns the state dirty  *)
(* under a request.                                                        *)
SuppressionHolds == [][suppressed /\ sup # "dirty" => sup' # "dirty"]_vars

(* "A replacement must never start while the old process may still own the *)
(* listener or TUN handle": a swap, or the restoration after it, starts a  *)
(* core when no other process is left.                                     *)
ReplacementAfterExit ==
  [][\A g, h \in Gens : /\ api.job \in {"swap", "restore"}
                        /\ proc[g] = "none" /\ proc'[g] = "alive"
                        => proc[h] # "alive"]_vars

(* "Only trigger crash recovery when the host actually failed": a monitor  *)
(* does not treat a core that lives as crashed.                            *)
PlannedStopIsNoCrash ==
  [][\A g \in Gens : smon[g] = "checking" /\ smon'[g] = "crash" => Dead(g)]_vars
=============================================================================
