------------------------ MODULE CoreSupervisorProofs ------------------------
(* Theorems about CoreSupervisor: for every number of starts and every     *)
(* restart budget, and, where it is said, whether or not the monitors are  *)
(* prompt.                                                                 *)
EXTENDS CoreSupervisor, FiniteSetTheorems, TLAPS

StopWork == {"stopping", "host_stop", "host_wait", "stop_done", "stop_failed"}
BeforeSpawn == {"reconcile", "reconciling", "ready"}
Spawned == {"spawn", "started", "start_failed"}

Counted == {"to_failed", "to_dirty", "exhausted", "backoff", "gone"}

-----------------------------------------------------------------------------
(* What holds however late the monitors are.                               *)

(* How many cores the request under way may still start.                   *)
Rest ==
  IF api.job = "swap"
  THEN IF api.pc \in Spawned THEN 1 ELSE 2
  ELSE IF api.job \in {"on", "update_start", "restore"} /\ api.pc \notin Spawned THEN 1 ELSE 0

InRequest == api.pc \notin {"idle", "returned", "refused"}

(* A request starts no more cores than it was let in for, and only four    *)
(* kinds of it start one at all.                                           *)
StartsAreBudgeted ==
  /\ InRequest => started + Rest <= MaxStarts
  /\ api.pc \in {"start"} \cup BeforeSpawn => api.job \in {"on", "swap", "restore", "update_start"}
  /\ api.pc \in Spawned => started # 0

(* A generation that has not been started is untouched, and the one that   *)
(* is being started is not watched.                                        *)
FutureUntouched ==
  /\ cancelOf = started
  /\ \A g \in Gens : g > started => smon[g] = "none"
  /\ api.pc \in Spawned => smon[started] = "none"

(* Each monitor counts at most one restart.                                *)
CountIsOfMonitors == restartCount <= Cardinality({g \in Gens : smon[g] \in Counted})

HostType == [state : HostStates, exit : 0 .. MaxStarts, cmd : BOOLEAN]
HmonType == [at : {"none", "fresh", "waiting", "woken", "gone"}, exit : 0 .. MaxStarts]
SmonType == {"none", "watching", "checking", "crash", "warm", "to_stopped", "policy", "to_failed",
             "to_dirty", "exhausted", "backoff", "gone"}
Api == [pc : Steps, job : Jobs \cup {"none"}, seen : States]

CoreTypes ==
  /\ host \in HostType
  /\ proc \in [Gens -> {"none", "alive", "dead"}]
  /\ killed \subseteq Gens /\ cancelled \subseteq Gens
  /\ started \in 0 .. MaxStarts /\ cancelOf \in 0 .. started
  /\ sup \in States
  /\ restartCount \in Nat
  /\ warmIdle \in BOOLEAN /\ suppressed \in BOOLEAN
  /\ hmon \in [Gens -> HmonType] /\ smon \in [Gens -> SmonType]
  /\ api \in Api

LateInv == CoreTypes /\ StartsAreBudgeted /\ FutureUntouched /\ CountIsOfMonitors

-----------------------------------------------------------------------------
(* What holds when they are prompt.                                        *)

Lifeless == {"none", "gone"}
Crashed == {"warm", "to_stopped", "policy", "to_failed", "to_dirty", "exhausted", "backoff"}

(* Only the monitor of the last core is at work, and none while one is     *)
(* being started.                                                          *)
OneMonitor ==
  /\ \A g \in Gens : smon[g] \notin Lifeless => g = started
  /\ api.pc \in BeforeSpawn \cup Spawned => \A g \in Gens : smon[g] \in Lifeless

(* Every core but the last has been cancelled; so has the last one when    *)
(* its crash is being handled or its stop has begun.                       *)
OldAreCancelled ==
  /\ \A g \in Gens : g < started => g \in cancelled
  /\ \A g \in Gens : smon[g] \in Crashed => g \in cancelled
  /\ api.pc \in StopWork /\ started # 0 => started \in cancelled

(* A core that has not been cancelled is running or being started;         *)
(* conversely a supervisor that calls itself running watches its core or   *)
(* handles its crash.                                                      *)
UncancelledRuns ==
  /\ started # 0 /\ started \notin cancelled => sup = "running" \/ api.pc \in Spawned
  /\ \A g \in Gens : g > started => proc[g] = "none" /\ g \notin cancelled
  /\ api.pc = "started" => started \notin cancelled

RunningIsKept ==
  /\ sup = "running" => started # 0
  /\ sup = "running" /\ api.pc # "stopping"
        => \/ smon[started] \in {"watching", "checking", "crash"} /\ started \notin cancelled
           \/ smon[started] \in Crashed \ {"backoff"}
  /\ api.pc \in {"start"} \cup BeforeSpawn \cup Spawned => sup # "running"
  /\ sup = "starting" => api.pc \in Spawned

(* A crash is not handled over a host that runs.                           *)
CrashOfDeadHost ==
  /\ \A g \in Gens : Crashing(g) => host.state # "running"
  /\ \A g \in Gens : smon[g] \in Crashed \ {"warm", "backoff"} => ~warmIdle

(* Where the warm flag may be set.                                         *)
WarmPlaces ==
  /\ warmIdle =>
       \/ sup = "running" /\ api.pc \notin StopWork \cup {"start"} \cup BeforeSpawn \cup Spawned
       \/ /\ api.job \in {"swap", "restore"} /\ sup \in {"stopping", "stopped"}
          /\ api.pc \in {"host_stop", "host_wait", "stop_done", "stop_failed", "start"}
  /\ api.job = "restore" => api.pc \in {"start", "returned", "refused"} \cup BeforeSpawn \cup Spawned
  /\ api.job = "swap" => api.pc \notin {"guard", "stop", "stopping", "idle"}
  /\ api.pc = "swap" => api.job = "swap"

(* One restart is counted, once.                                           *)
OneRestart ==
  /\ restartCount \in 0 .. 1
  /\ restartCount = 1 /\ started # 0 => smon[started] \in Counted
  /\ api.pc \in BeforeSpawn \cup Spawned => restartCount = 0

Contained ==
  /\ OneMonitor /\ OldAreCancelled /\ UncancelledRuns /\ RunningIsKept
  /\ CrashOfDeadHost /\ WarmPlaces /\ OneRestart

PromptInv == LateInv /\ Contained
-----------------------------------------------------------------------------
(* Where a request goes on.                                                *)

LEMMA GotoLeads ==
  ASSUME api \in Api, NEW pc \in Steps, Goto(pc)
  PROVE  api' \in Api /\ api'.pc = pc /\ api'.job = api.job /\ api'.seen = api.seen
BY DEF Api, Goto

LEMMA AfterStopLeads ==
  ASSUME api \in Api, AfterStop
  PROVE  /\ api' \in Api /\ api'.job = api.job
         /\ \/ api'.pc = "start" /\ api.job \in {"on", "swap"}
            \/ api'.pc = "returned" /\ api.job \notin {"on", "swap"}
<1>1. api = [pc |-> api.pc, job |-> api.job, seen |-> api.seen] /\ api.job \in Jobs \cup {"none"}
  BY DEF Api
<1>2. api' = [pc |-> IF api.job \in {"on", "swap"} THEN "start" ELSE "returned", job |-> api.job, seen |-> "stopped"]
  BY <1>1 DEF AfterStop
<1>. QED
  BY <1>1, <1>2 DEF Api, Steps, States

LEMMA AfterFailedStopLeads ==
  ASSUME api \in Api, AfterFailedStop
  PROVE  /\ api' \in Api
         /\ \/ api'.pc = "guard" /\ api'.job = "rollback" /\ api.job \in {"off", "on"}
            \/ api'.pc = "refused" /\ api'.job = api.job
BY DEF Api, AfterFailedStop, Steps, States, Jobs

LEMMA AfterFailedStartLeads ==
  ASSUME api \in Api, AfterFailedStart
  PROVE  /\ api' \in Api
         /\ \/ api'.pc = "guard" /\ api'.job = "rollback" /\ api.job = "on"
            \/ api'.pc = "start" /\ api'.job = "restore" /\ api.job = "swap"
            \/ api'.pc = "refused" /\ api'.job = api.job /\ api.job \notin {"on", "swap"}
<1>1. CASE api.job = "on"
  BY <1>1 DEF Api, AfterFailedStart, Steps, Jobs
<1>2. CASE api.job = "swap"
  BY <1>2 DEF Api, AfterFailedStart, Steps, Jobs
<1>3. CASE api.job \notin {"on", "swap"}
  BY <1>3, GotoLeads DEF AfterFailedStart, Steps
<1>. QED
  BY <1>1, <1>2, <1>3

LEMMA AcceptLeads ==
  ASSUME api \in Api, NEW job \in Jobs, NEW pc \in Steps, Accept(job, pc)
  PROVE  /\ api' \in Api /\ api'.pc = pc /\ api'.job = job /\ api.pc = "idle"
         /\ started + Need(job) <= MaxStarts
BY DEF Api, Accept

-----------------------------------------------------------------------------
(* The types are kept.                                                     *)

LEMMA RequestsKeepTypes ==
  ASSUME CoreTypes, Requests \/ Return
  PROVE  CoreTypes'
<1>1. api \in Api
  BY DEF CoreTypes
<1>2. CASE \E job \in {"off", "on"} : Prepare(job)
  <2>1. PICK job \in {"off", "on"} : Prepare(job)
    BY <1>2
  <2>2. api' \in Api
    BY <1>1, <2>1, AcceptLeads DEF Prepare, Jobs, Steps
  <2>. QED
    BY <2>1, <2>2 DEF Prepare, CoreTypes, procVars
<1>3. CASE SwapRequest \/ UpdateStop \/ UpdateStart \/ ExpireWarm
  <2>1. api' \in Api
    BY <1>1, <1>3, AcceptLeads DEF SwapRequest, UpdateStop, UpdateStart, ExpireWarm, Jobs, Steps
  <2>2. UNCHANGED <<host, procVars, sup, cancelOf, restartCount, hmon, smon>>
        /\ suppressed' \in {TRUE, FALSE, suppressed} /\ warmIdle' \in {warmIdle, FALSE}
    BY <1>3 DEF SwapRequest, UpdateStop, UpdateStart, ExpireWarm
  <2>. QED
    BY <2>1, <2>2 DEF CoreTypes, procVars
<1>4. CASE RetainWarm \/ ResumeWarm
  BY <1>4 DEF RetainWarm, ResumeWarm, CoreTypes, procVars
<1>5. CASE Return
  <2>1. suppressed' \in BOOLEAN
    BY <1>5 DEF Return, CoreTypes
  <2>2. api' \in Api
    BY <1>5 DEF Return, Api, Steps, States
  <2>. QED
    BY <1>5, <2>1, <2>2 DEF Return, CoreTypes, procVars
<1>. QED
  BY <1>2, <1>3, <1>4, <1>5 DEF Requests

LEMMA StopsKeepTypes ==
  ASSUME CoreTypes, StopGuard \/ StopBegin \/ StopMark \/ SwapBegin \/ HostStop \/ HostStopWait
                    \/ StopDone \/ StopFailed
  PROVE  CoreTypes'
<1>1. api \in Api /\ cancelOf \in 0 .. MaxStarts
  BY MaxStartsAssumption DEF CoreTypes
<1>2. /\ cancelled \cup ({cancelOf} \ {0}) \subseteq Gens /\ host \in HostType
      /\ HostStopped \in HostType /\ [host EXCEPT !.state = "stopping"] \in HostType
  <2>1. cancelled \cup ({cancelOf} \ {0}) \subseteq Gens /\ host \in HostType
    BY <1>1 DEF CoreTypes, Gens
  <2>2. HostStopped \in HostType /\ [host EXCEPT !.state = "stopping"] \in HostType
    BY <2>1, MaxStartsAssumption DEF HostType, HostStates, HostStopped
  <2>. QED
    BY <2>1, <2>2
<1>3. CASE StopGuard
  <2>1. api' \in Api
    BY <1>1, <1>3, AfterStopLeads, AfterFailedStopLeads, GotoLeads DEF StopGuard, Steps
  <2>. QED
    BY <1>3, <2>1 DEF StopGuard, CoreTypes, procVars, supVars
<1>4. CASE StopBegin
  <2>1. api' \in Api
    BY <1>1, <1>4, AfterFailedStopLeads DEF StopBegin, Steps, CoreTypes, Api
  <2>. QED
    BY <1>2, <1>4, <2>1 DEF StopBegin, CoreTypes
<1>5. CASE StopMark
  <2>1. api' \in Api
    BY <1>1, <1>5, AfterFailedStopLeads, GotoLeads DEF StopMark, Steps
  <2>. QED
    BY <1>5, <2>1 DEF StopMark, CoreTypes, procVars, Api, States
<1>6. CASE SwapBegin
  <2>1. api' \in Api
    BY <1>1, <1>6, GotoLeads DEF SwapBegin, Steps, Api, States
  <2>. QED
    BY <1>2, <1>6, <2>1 DEF SwapBegin, CoreTypes, Api, States
<1>7. CASE HostStop
  <2>1. api' \in Api
    BY <1>1, <1>7, GotoLeads DEF HostStop, Steps
  <2>2. host' \in {host, HostStopped, [host EXCEPT !.state = "stopping"]}
        /\ (killed' = killed \/ killed' = killed \cup {g \in Gens : g = host.exit /\ host.cmd /\ proc[g] = "alive"})
        /\ UNCHANGED <<proc, cancelled, started, supVars, hmon, smon>>
    BY <1>7 DEF HostStop
  <2>3. killed' \subseteq Gens
    BY <2>2 DEF CoreTypes
  <2>4. host' \in HostType
    BY <1>2, <2>2
  <2>. QED
    BY <2>1, <2>2, <2>3, <2>4 DEF CoreTypes, supVars
<1>8. CASE HostStopWait
  <2>1. api' \in Api
    BY <1>1, <1>8, GotoLeads DEF HostStopWait, Steps
  <2>2. host' \in {host, HostStopped} /\ UNCHANGED <<procVars, supVars, hmon, smon>>
    BY <1>8 DEF HostStopWait
  <2>3. host' \in HostType
    BY <1>2, <2>2
  <2>. QED
    BY <2>1, <2>2, <2>3 DEF CoreTypes, supVars, procVars
<1>9. CASE StopDone
  <2>1. api' \in Api
    BY <1>1, <1>9, AfterStopLeads DEF StopDone
  <2>. QED
    BY <1>9, <2>1 DEF StopDone, CoreTypes, procVars, Api, States
<1>10. CASE StopFailed
  <2>1. api' \in Api
    BY <1>1, <1>10, AfterFailedStopLeads DEF StopFailed, Api, Steps, Jobs, States
  <2>. QED
    BY <1>10, <2>1 DEF StopFailed, CoreTypes, procVars, Api, States
<1>. QED
  BY <1>3, <1>4, <1>5, <1>6, <1>7, <1>8, <1>9, <1>10

LEMMA StartsKeepTypes ==
  ASSUME CoreTypes, StartsAreBudgeted,
         StartBegin \/ StartReconcile \/ StartReconciled \/ StartCore \/ HostStart \/ StartDone
         \/ StartFailed
  PROVE  CoreTypes'
<1>1. api \in Api /\ started \in 0 .. MaxStarts /\ MaxStarts \in Nat /\ started \in Nat
  BY MaxStartsAssumption DEF CoreTypes
<1>2. CASE StartBegin
  <2>1. api' \in Api
    BY <1>1, <1>2, AfterFailedStartLeads, GotoLeads DEF StartBegin, Steps
  <2>2. /\ restartCount' = 0 \/ restartCount' = restartCount
        /\ warmIdle' = FALSE \/ warmIdle' = warmIdle
        /\ UNCHANGED <<host, procVars, sup, cancelOf, suppressed, hmon, smon>>
    BY <1>2 DEF StartBegin
  <2>3. warmIdle' \in BOOLEAN
    <3>1. warmIdle' = FALSE \/ warmIdle' = warmIdle
      BY <2>2
    <3>2. warmIdle \in BOOLEAN
      BY DEF CoreTypes
    <3>. QED
      BY <3>1, <3>2
  <2>4. restartCount' \in Nat
    BY <2>2 DEF CoreTypes
  <2>. QED
    BY <2>1, <2>2, <2>3, <2>4 DEF CoreTypes, procVars
<1>3. CASE StartReconcile
  <2>1. api' \in Api
    BY <1>1, <1>3, AfterFailedStartLeads, GotoLeads DEF StartReconcile, Steps
  <2>. QED
    BY <1>3, <2>1 DEF StartReconcile, CoreTypes, procVars, Api, States
<1>4. CASE StartReconciled
  <2>1. api' \in Api
    BY <1>1, <1>4, AfterFailedStartLeads, GotoLeads DEF StartReconciled, Steps
  <2>. QED
    BY <1>4, <2>1 DEF StartReconciled, CoreTypes, procVars, Api, States
<1>5. CASE StartCore
  <2>1. api' \in Api
    BY <1>1, <1>5, AfterFailedStartLeads, GotoLeads DEF StartCore, Steps
  <2>2. started + 1 \in 0 .. MaxStarts
    BY <1>1, <1>5 DEF StartCore, StartsAreBudgeted, InRequest, Rest, BeforeSpawn, Spawned
  <2>3. started' \in 0 .. MaxStarts /\ cancelOf' \in 0 .. started' /\ sup' \in States
    BY <1>1, <1>5, <2>2 DEF StartCore, CoreTypes, States
  <2>. QED
    BY <1>5, <2>1, <2>3 DEF StartCore, CoreTypes
<1>6. CASE HostStart
  <2>1. api' \in Api
    BY <1>1, <1>6, GotoLeads DEF HostStart, Steps
  <2>2. started \in Gens
    BY <1>1, <1>6 DEF HostStart, StartsAreBudgeted, Spawned, Gens
  <2>3. host' \in HostType
    <3>1. \/ host' = host
          \/ host' = [state |-> "failed", exit |-> started, cmd |-> TRUE]
          \/ host' = [state |-> "running", exit |-> started, cmd |-> TRUE]
      BY <1>6 DEF HostStart
    <3>2. \A state \in HostStates : [state |-> state, exit |-> started, cmd |-> TRUE]
                                    \in HostType
      BY <1>1 DEF HostType
    <3>. QED
      BY <3>1, <3>2 DEF CoreTypes, HostStates
  <2>4. proc' \in [Gens -> {"none", "alive", "dead"}]
    BY <1>6 DEF HostStart, CoreTypes
  <2>5. killed' \subseteq Gens
    BY <1>6, <2>2 DEF HostStart, CoreTypes
  <2>6. hmon' \in [Gens -> HmonType]
    BY <1>6, <2>2 DEF HostStart, CoreTypes, HmonType
  <2>. QED
    BY <1>6, <2>1, <2>3, <2>4, <2>5, <2>6 DEF HostStart, CoreTypes, Api, supVars
<1>7. CASE StartDone
  <2>1. api' \in Api
    BY <1>1, <1>7, GotoLeads DEF StartDone, Steps, Api, Jobs
  <2>. QED
    BY <1>7, <2>1 DEF StartDone, CoreTypes, procVars, Api, States, SmonType
<1>8. CASE StartFailed
  <2>1. api' \in Api
    BY <1>1, <1>8, AfterFailedStartLeads DEF StartFailed
  <2>2. started \in Gens
    BY <1>1, <1>8 DEF StartFailed, StartsAreBudgeted, Spawned, Gens
  <2>. QED
    BY <1>8, <2>1, <2>2 DEF StartFailed, CoreTypes, Api, States
<1>. QED
  BY <1>2, <1>3, <1>4, <1>5, <1>6, <1>7, <1>8

LEMMA MonitorMoves ==
  ASSUME smon \in [Gens -> SmonType], NEW g \in Gens, NEW from, NEW to \in SmonType, MonitorAt(g, from, to)
  PROVE  /\ smon' \in [Gens -> SmonType] /\ smon[g] = from /\ smon'[g] = to
         /\ \A h \in Gens : h # g => smon'[h] = smon[h]
BY DEF MonitorAt

LEMMA MonitorsKeepTypes ==
  ASSUME CoreTypes, NEW g \in Gens, Exit(g) \/ HostMonitor(g) \/ Monitor(g)
  PROVE  CoreTypes'
<1>1. cancelOf \in 0 .. MaxStarts
  BY MaxStartsAssumption DEF CoreTypes
<1>2. cancelled \cup ({cancelOf} \ {0}) \subseteq Gens
  BY <1>1 DEF CoreTypes, Gens
<1>3. CASE Exit(g)
  <2>1. proc' \in [Gens -> {"none", "alive", "dead"}] /\ killed' \subseteq Gens
        /\ UNCHANGED <<host, cancelled, started, supVars, hmon, smon, api>>
    BY <1>3 DEF Exit, CoreTypes
  <2>. QED
    BY <2>1 DEF CoreTypes, supVars
<1>4. CASE HostMonitor(g)
  <2>1. hmon' \in [Gens -> HmonType]
    BY <1>4 DEF HostMonitor, HostMonitorReads, HostMonitorWakes, HostMonitorMarks, CoreTypes, HmonType, HostType
  <2>2. host' \in HostType
    BY <1>4 DEF HostMonitor, HostMonitorReads, HostMonitorWakes, HostMonitorMarks, CoreTypes, HostStates, HostType
  <2>3. UNCHANGED <<procVars, supVars, smon, api>>
    BY <1>4 DEF HostMonitor, HostMonitorReads, HostMonitorWakes, HostMonitorMarks
  <2>. QED
    BY <2>1, <2>2, <2>3 DEF CoreTypes, supVars, procVars
<1>5. CASE Monitor(g)
  <2>1. smon' \in [Gens -> SmonType]
    <3>1. PICK from, to \in SmonType : MonitorAt(g, from, to)
      BY <1>5 DEF Monitor, MonitorStops, MonitorTicks, MonitorChecks, CrashCancels, CrashOfWarmCore,
         CrashPolicy, CrashSettles, BackoffEnds, SmonType
    <3>. QED
      BY <3>1, MonitorMoves DEF CoreTypes
  <2>2. /\ UNCHANGED <<host, proc, killed, started, cancelOf, suppressed, hmon, api>>
        /\ warmIdle' = FALSE \/ warmIdle' = warmIdle
        /\ restartCount' = restartCount + 1 \/ restartCount' = restartCount
        /\ sup' = sup \/ sup' \in {"stopped", "failed", "dirty"}
        /\ cancelled' = cancelled \/ cancelled' = cancelled \cup ({cancelOf} \ {0})
    BY <1>5 DEF Monitor, MonitorStops, MonitorTicks, MonitorChecks, CrashCancels, CrashOfWarmCore,
         CrashPolicy, CrashSettles, BackoffEnds, supVars, procVars
  <2>3. sup' \in States /\ restartCount' \in Nat /\ cancelled' \subseteq Gens
    BY <1>2, <2>2 DEF CoreTypes, States
  <2>. QED
    BY <2>1, <2>2, <2>3 DEF CoreTypes
<1>. QED
  BY <1>3, <1>4, <1>5

-----------------------------------------------------------------------------
(* A request stays within the starts it was let in for.                    *)

LEMMA RequestsKeepBudget ==
  ASSUME CoreTypes, Requests \/ Return
  PROVE  StartsAreBudgeted'
<1>1. api \in Api /\ started \in Nat /\ MaxStarts \in Nat
  BY MaxStartsAssumption DEF CoreTypes
<1>2. ASSUME NEW job \in Jobs \ {"restore"}, NEW pc \in Steps, Accept(job, pc), started' = started,
             pc \in {"guard", "swap", "stop", "start"}, pc = "start" => job = "update_start"
      PROVE  StartsAreBudgeted'
  <2>1. api' \in Api /\ api'.pc = pc /\ api'.job = job /\ started + Need(job) <= MaxStarts
    BY <1>1, <1>2, AcceptLeads
  <2>2. Rest' <= Need(job) /\ Rest' \in Nat /\ Need(job) \in Nat
    <3>1. api'.pc \notin Spawned
      BY <1>2, <2>1 DEF Spawned
    <3>2. CASE job = "swap"
      BY <2>1, <3>1, <3>2 DEF Rest, Need
    <3>3. CASE job \in {"on", "update_start"}
      BY <2>1, <3>1, <3>3 DEF Rest, Need
    <3>4. CASE job \notin {"swap", "on", "update_start"}
      BY <2>1, <3>4 DEF Rest, Need
    <3>. QED
      BY <3>2, <3>3, <3>4
  <2>3. started' + Rest' <= MaxStarts
    BY <1>1, <1>2, <2>1, <2>2 DEF Rest, Need
  <2>4. api'.pc \notin Spawned \cup BeforeSpawn /\ (api'.pc = "start" => api'.job = "update_start")
    BY <1>2, <2>1 DEF BeforeSpawn, Spawned
  <2>. QED
    BY <2>3, <2>4 DEF StartsAreBudgeted
<1>3. CASE \E job \in {"off", "on"} : Prepare(job)
  BY <1>2, <1>3 DEF Prepare, Jobs, Steps, procVars
<1>4. CASE SwapRequest \/ UpdateStop \/ UpdateStart \/ ExpireWarm
  BY <1>2, <1>4 DEF SwapRequest, UpdateStop, UpdateStart, ExpireWarm, Jobs, Steps, procVars
<1>5. CASE RetainWarm \/ ResumeWarm
  BY <1>5 DEF RetainWarm, ResumeWarm, StartsAreBudgeted, InRequest, BeforeSpawn, Spawned
<1>6. CASE Return
  BY <1>6 DEF Return, StartsAreBudgeted, InRequest, BeforeSpawn, Spawned
<1>. QED
  BY <1>3, <1>4, <1>5, <1>6 DEF Requests

LEMMA StopsKeepBudget ==
  ASSUME CoreTypes, StartsAreBudgeted,
         StopGuard \/ StopBegin \/ StopMark \/ SwapBegin \/ HostStop \/ HostStopWait \/ StopDone
         \/ StopFailed
  PROVE  StartsAreBudgeted'
<1>1. api \in Api /\ started \in Nat /\ MaxStarts \in Nat /\ started' = started /\ InRequest
      /\ api.pc \notin Spawned
  BY MaxStartsAssumption DEF CoreTypes, InRequest, StopGuard, StopBegin, StopMark, SwapBegin, HostStop,
     HostStopWait, StopDone, StopFailed, procVars, Spawned
<1>2. \/ api'.pc \in {"guard", "stop", "stopping", "host_stop", "host_wait", "stop_done", "stop_failed",
                     "returned", "refused"} /\ api'.job \in {api.job, "rollback"}
      \/ api'.pc = "start" /\ api.job \in {"on", "swap"} /\ api'.job = api.job
      \/ api'.pc = "start" /\ api.job = "swap" /\ api'.job = "restore"
  <2>1. CASE StopGuard
    BY <1>1, <2>1, AfterStopLeads, AfterFailedStopLeads, GotoLeads DEF StopGuard, Steps
  <2>2. CASE StopBegin
    BY <1>1, <2>2, AfterFailedStopLeads DEF StopBegin, Api
  <2>3. CASE StopMark
    BY <1>1, <2>3, AfterFailedStopLeads, GotoLeads DEF StopMark, Steps
  <2>4. CASE SwapBegin
    BY <1>1, <2>4, GotoLeads DEF SwapBegin, Steps, Api
  <2>5. CASE HostStop \/ HostStopWait
    BY <1>1, <2>5, GotoLeads DEF HostStop, HostStopWait, Steps
  <2>6. CASE StopDone
    BY <1>1, <2>6, AfterStopLeads DEF StopDone
  <2>7. CASE StopFailed
    BY <1>1, <2>7, AfterFailedStopLeads DEF StopFailed
  <2>. QED
    BY <2>1, <2>2, <2>3, <2>4, <2>5, <2>6, <2>7
<1>3. started + Rest <= MaxStarts /\ Rest \in Nat /\ Rest' \in Nat
  BY <1>1 DEF StartsAreBudgeted, Rest
<1>4. Rest' <= Rest
  BY <1>1, <1>2 DEF Rest, Spawned
<1>5. started' + Rest' <= MaxStarts
  BY <1>1, <1>3, <1>4 DEF Rest
<1>6. api'.pc \notin BeforeSpawn \cup Spawned
      /\ (api'.pc = "start" => api'.job \in {"on", "swap", "restore", "update_start"})
  BY <1>2 DEF BeforeSpawn, Spawned
<1>. QED
  BY <1>5, <1>6 DEF StartsAreBudgeted

LEMMA StartsKeepBudget ==
  ASSUME CoreTypes, StartsAreBudgeted,
         StartBegin \/ StartReconcile \/ StartReconciled \/ StartCore \/ HostStart \/ StartDone
         \/ StartFailed
  PROVE  StartsAreBudgeted'
<1>1. /\ api \in Api /\ started \in Nat /\ MaxStarts \in Nat /\ InRequest
      /\ api.pc \in {"start"} \cup BeforeSpawn \cup Spawned
      /\ started + Rest <= MaxStarts /\ Rest \in Nat
  BY MaxStartsAssumption DEF CoreTypes, InRequest, StartBegin, StartReconcile, StartReconciled, StartCore,
     HostStart, StartDone, StartFailed, BeforeSpawn, Spawned, StartsAreBudgeted, Rest
<1>2. ASSUME started' = started, AfterFailedStart
      PROVE  StartsAreBudgeted'
  <2>1. \/ api'.pc = "guard" /\ api'.job = "rollback"
        \/ api'.pc = "start" /\ api'.job = "restore" /\ api.job = "swap"
        \/ api'.pc = "refused"
    BY <1>1, <1>2, AfterFailedStartLeads
  <2>2. InRequest' => Rest' <= Rest /\ Rest' \in Nat
    BY <2>1 DEF InRequest, Rest, Spawned
  <2>3. InRequest' => started' + Rest' <= MaxStarts
    BY <1>1, <1>2, <2>2 DEF Rest
  <2>. QED
    BY <2>1, <2>3 DEF StartsAreBudgeted, BeforeSpawn, Spawned
<1>3. ASSUME started' = started, NEW pc \in BeforeSpawn \cup Spawned \cup {"returned"}, Goto(pc),
             pc \in Spawned <=> api.pc \in Spawned /\ pc # "returned"
      PROVE  StartsAreBudgeted'
  <2>1. api'.pc = pc /\ api'.job = api.job
    BY <1>1, <1>3, GotoLeads DEF BeforeSpawn, Spawned, Steps
  <2>2. InRequest' => Rest' <= Rest /\ Rest' \in Nat
    BY <1>1, <1>3, <2>1 DEF InRequest, Rest, Spawned, BeforeSpawn
  <2>3. InRequest' => started' + Rest' <= MaxStarts
    BY <1>1, <1>3, <2>2 DEF Rest
  <2>4. /\ api.job \in {"on", "swap", "restore", "update_start"} \/ api.pc \in Spawned
        /\ api.pc \in Spawned => started # 0
    BY <1>1 DEF StartsAreBudgeted
  <2>. QED
    BY <1>1, <1>3, <2>1, <2>3, <2>4 DEF StartsAreBudgeted, BeforeSpawn, Spawned
<1>4. CASE StartBegin \/ StartReconcile \/ StartReconciled
  BY <1>2, <1>3, <1>4 DEF StartBegin, StartReconcile, StartReconciled, procVars, BeforeSpawn, Spawned
<1>5. CASE StartCore
  <2>1. CASE AfterFailedStart /\ UNCHANGED started
    BY <1>2, <2>1
  <2>2. CASE started' = started + 1 /\ Goto("spawn")
    <3>1. api'.pc = "spawn" /\ api'.job = api.job
      BY <1>1, <2>2, GotoLeads DEF Steps
    <3>2. Rest = Rest' + 1 /\ Rest' \in Nat
      BY <1>5, <3>1 DEF StartCore, StartsAreBudgeted, Rest, BeforeSpawn, Spawned
    <3>3. started' + Rest' <= MaxStarts /\ started' # 0
      BY <1>1, <2>2, <3>2 DEF Rest
    <3>. QED
      BY <3>1, <3>3 DEF StartsAreBudgeted, BeforeSpawn
  <2>. QED
    BY <1>5, <2>1, <2>2 DEF StartCore
<1>6. CASE HostStart
  BY <1>3, <1>6 DEF HostStart, BeforeSpawn, Spawned
<1>7. CASE StartDone
  <2>1. CASE Goto("returned")
    BY <1>3, <1>7, <2>1 DEF StartDone, procVars, Spawned
  <2>2. CASE api' = [api EXCEPT !.job = "rollback", !.pc = "guard"]
    <3>1. api'.pc = "guard" /\ api'.job = "rollback"
      BY <1>1, <2>2 DEF Api
    <3>2. Rest' = 0 /\ started' = started /\ started <= MaxStarts
      BY <1>1, <1>7, <3>1 DEF Rest, StartDone, procVars, CoreTypes
    <3>3. started' + Rest' <= MaxStarts
      BY <1>1, <3>2
    <3>. QED
      BY <3>1, <3>3 DEF StartsAreBudgeted, BeforeSpawn, Spawned
  <2>. QED
    BY <1>7, <2>1, <2>2 DEF StartDone
<1>8. CASE StartFailed
  BY <1>2, <1>8 DEF StartFailed
<1>. QED
  BY <1>4, <1>5, <1>6, <1>7, <1>8

-----------------------------------------------------------------------------
(* The monitors and their count.                                           *)

LEMMA PastIsFinite ==
  ASSUME NEW S, S \subseteq Gens
  PROVE  IsFiniteSet(S) /\ Cardinality(S) \in Nat /\ Cardinality(S) <= MaxStarts
<1>1. IsFiniteSet(Gens) /\ Cardinality(Gens) = MaxStarts
  BY FS_Interval, MaxStartsAssumption DEF Gens
<1>. QED
  BY <1>1, FS_Subset, FS_CardinalityType

LEMMA CountStays ==
  ASSUME CountIsOfMonitors, restartCount \in Nat, restartCount' \in {0, restartCount},
         \A g \in Gens : smon[g] \in Counted => smon'[g] \in Counted
  PROVE  CountIsOfMonitors'
<1>. DEFINE now == {g \in Gens : smon[g] \in Counted}
            then == {g \in Gens : smon'[g] \in Counted}
<1>1. now \subseteq then /\ then \subseteq Gens /\ now \subseteq Gens
  OBVIOUS
<1>2. /\ Cardinality(now) \in Nat /\ Cardinality(then) \in Nat
      /\ Cardinality(now) <= Cardinality(then)
  BY <1>1, PastIsFinite, FS_Subset
<1>3. restartCount <= Cardinality(now)
  BY DEF CountIsOfMonitors
<1>. HIDE DEF now, then
<1>4. restartCount' <= Cardinality(then)
  BY <1>2, <1>3
<1>. QED
  BY <1>4 DEF CountIsOfMonitors, then

LEMMA CountGrows ==
  ASSUME CountIsOfMonitors, restartCount \in Nat, restartCount' = restartCount + 1, NEW g \in Gens,
         smon[g] \notin Counted, smon'[g] \in Counted,
         \A h \in Gens : h # g => smon'[h] = smon[h]
  PROVE  CountIsOfMonitors'
<1>. DEFINE now == {h \in Gens : smon[h] \in Counted}
            then == {h \in Gens : smon'[h] \in Counted}
<1>1. then = now \cup {g} /\ g \notin now /\ now \subseteq Gens
  OBVIOUS
<1>2. IsFiniteSet(now) /\ Cardinality(now) \in Nat
  BY <1>1, PastIsFinite
<1>3. restartCount <= Cardinality(now)
  BY DEF CountIsOfMonitors
<1>. HIDE DEF now, then
<1>4. Cardinality(then) = Cardinality(now) + 1
  BY <1>1, <1>2, FS_AddElement
<1>5. restartCount' <= Cardinality(then)
  BY <1>2, <1>3, <1>4
<1>. QED
  BY <1>5 DEF CountIsOfMonitors, then

LEMMA OthersKeepFuture ==
  ASSUME CoreTypes, StartsAreBudgeted, FutureUntouched, CountIsOfMonitors,
         Requests \/ Return \/ StopGuard \/ StopBegin \/ StopMark \/ SwapBegin \/ HostStop \/ HostStopWait
         \/ StopDone \/ StopFailed \/ StartBegin \/ StartReconcile \/ StartReconciled \/ HostStart
         \/ StartFailed
  PROVE  FutureUntouched' /\ CountIsOfMonitors'
<1>1. api \in Api /\ restartCount \in Nat
  BY DEF CoreTypes
<1>2. UNCHANGED <<started, cancelOf, smon>> /\ restartCount' \in {0, restartCount}
  BY DEF Requests, Prepare, SwapRequest, UpdateStop, UpdateStart, RetainWarm, ResumeWarm, ExpireWarm, Return,
     StopGuard, StopBegin, StopMark, SwapBegin, HostStop, HostStopWait, StopDone, StopFailed, StartBegin,
     StartReconcile, StartReconciled, HostStart, StartFailed, procVars, supVars
<1>3. api'.pc \in Spawned => api.pc \in Spawned
  <2>1. CASE Requests \/ Return
    <3>1. ASSUME NEW job \in Jobs, NEW pc \in {"guard", "swap", "stop", "start"}, Accept(job, pc)
          PROVE  api'.pc \notin Spawned
      <4>1. pc \in Steps /\ pc \notin Spawned
        BY DEF Steps, Spawned
      <4>. QED
        BY <1>1, <3>1, <4>1, AcceptLeads
    <3>2. CASE RetainWarm \/ ResumeWarm \/ Return
      <4>1. CASE Return
        <5>1. api'.pc = "idle"
          BY <4>1 DEF Return
        <5>. QED
          BY <5>1 DEF Spawned
      <4>. QED
        BY <3>2, <4>1 DEF RetainWarm, ResumeWarm, Spawned
    <3>. QED
      <4>1. CASE \E job \in {"off", "on"} : Prepare(job)
        BY <3>1, <4>1 DEF Prepare, Jobs
      <4>2. CASE SwapRequest \/ UpdateStop \/ UpdateStart \/ ExpireWarm
        BY <3>1, <4>2 DEF SwapRequest, UpdateStop, UpdateStart, ExpireWarm, Jobs
      <4>. QED
        BY <2>1, <3>2, <4>1, <4>2 DEF Requests
  <2>2. CASE StopGuard \/ StopBegin \/ StopMark \/ StopDone
    BY <1>1, <2>2, AfterStopLeads, AfterFailedStopLeads, GotoLeads
       DEF StopGuard, StopBegin, StopMark, StopDone, Steps, Spawned, Api
  <2>3. CASE SwapBegin \/ HostStop \/ HostStopWait
    BY <1>1, <2>3, GotoLeads DEF SwapBegin, HostStop, HostStopWait, Steps, Spawned, Api
  <2>6. CASE StopFailed
    BY <1>1, <2>6, AfterFailedStopLeads DEF StopFailed, Spawned
  <2>4. CASE StartBegin \/ StartReconcile \/ StartReconciled
    BY <1>1, <2>4, AfterFailedStartLeads, GotoLeads
       DEF StartBegin, StartReconcile, StartReconciled, Steps, Spawned
  <2>5. CASE HostStart \/ StartFailed
    BY <2>5 DEF HostStart, StartFailed, Spawned
  <2>. QED
    BY <2>1, <2>2, <2>3, <2>4, <2>5, <2>6
<1>4. FutureUntouched'
  BY <1>2, <1>3 DEF FutureUntouched
<1>5. CountIsOfMonitors'
  BY <1>1, <1>2, CountStays
<1>. QED
  BY <1>4, <1>5

LEMMA LateKeptByStart ==
  ASSUME CoreTypes, StartsAreBudgeted, FutureUntouched, CountIsOfMonitors, StartCore \/ StartDone
  PROVE  FutureUntouched' /\ CountIsOfMonitors'
<1>1. api \in Api /\ restartCount \in Nat /\ started \in 0 .. MaxStarts /\ MaxStarts \in Nat
      /\ smon \in [Gens -> SmonType]
  BY MaxStartsAssumption DEF CoreTypes
<1>2. restartCount' = restartCount /\ \A g \in Gens : smon[g] \in Counted => smon'[g] \in Counted
  <2>1. CASE StartCore
    BY <2>1 DEF StartCore
  <2>2. CASE StartDone
    BY <1>1, <2>2 DEF StartDone, FutureUntouched, Spawned, Counted
  <2>. QED
    BY <2>1, <2>2
<1>3. CountIsOfMonitors'
  BY <1>1, <1>2, CountStays
<1>4. CASE StartCore
  <2>1. CASE UNCHANGED <<started, cancelOf, smon>> /\ AfterFailedStart
    <3>1. api'.pc \notin Spawned
      BY <1>1, <2>1, AfterFailedStartLeads DEF Spawned
    <3>. QED
      BY <1>3, <2>1, <3>1 DEF FutureUntouched
  <2>2. CASE started' = started + 1 /\ cancelOf' = started + 1 /\ smon' = smon
    <3>1. started' \in Gens
      <4>1. started + Rest <= MaxStarts /\ Rest \in {1, 2}
        BY <1>4 DEF StartCore, StartsAreBudgeted, InRequest, Rest, BeforeSpawn, Spawned
      <4>2. started \in Nat /\ started + 1 <= MaxStarts
        BY <1>1, <4>1 DEF Rest
      <4>. QED
        BY <1>1, <2>2, <4>2 DEF Gens
    <3>2. \A g \in Gens : g > started' => g > started
      BY <1>1, <2>2 DEF Gens
    <3>3. \A g \in Gens : g > started' => smon'[g] = "none"
      BY <2>2, <3>2 DEF FutureUntouched
    <3>4. started' > started
      BY <1>1, <2>2
    <3>5. smon'[started'] = "none"
      BY <2>2, <3>1, <3>4 DEF FutureUntouched
    <3>. QED
      BY <1>3, <2>2, <3>3, <3>5 DEF FutureUntouched
  <2>. QED
    BY <1>4, <2>1, <2>2 DEF StartCore
<1>5. CASE StartDone
  <2>1. UNCHANGED <<started, cancelOf>> /\ smon' = [smon EXCEPT ![started] = "watching"] /\ api'.pc \notin Spawned
    BY <1>1, <1>5, GotoLeads DEF StartDone, procVars, Spawned, Steps, Api
  <2>2. \A g \in Gens : g > started => smon'[g] = smon[g]
    BY <1>1, <2>1 DEF Gens
  <2>. QED
    BY <1>3, <2>1, <2>2 DEF FutureUntouched
<1>. QED
  BY <1>3, <1>4, <1>5

LEMMA MonitorsKeepFuture ==
  ASSUME CoreTypes, StartsAreBudgeted, FutureUntouched, CountIsOfMonitors, NEW g \in Gens,
         Exit(g) \/ HostMonitor(g) \/ Monitor(g)
  PROVE  FutureUntouched' /\ CountIsOfMonitors'
<1>1. restartCount \in Nat /\ smon \in [Gens -> SmonType] /\ api' = api /\ started' = started /\ cancelOf' = cancelOf
  BY DEF CoreTypes, Exit, HostMonitor, HostMonitorReads, HostMonitorWakes, HostMonitorMarks, Monitor,
     MonitorStops, MonitorTicks, MonitorChecks, CrashCancels, CrashOfWarmCore,
         CrashPolicy, CrashSettles, BackoffEnds, supVars, procVars
<1>2. CASE Exit(g) \/ HostMonitor(g)
  <2>1. smon' = smon /\ restartCount' = restartCount
    BY <1>2 DEF Exit, HostMonitor, HostMonitorReads, HostMonitorWakes, HostMonitorMarks, supVars
  <2>2. CountIsOfMonitors'
    BY <1>1, <2>1, CountStays
  <2>3. FutureUntouched'
    BY <1>1, <2>1 DEF FutureUntouched
  <2>. QED
    BY <2>2, <2>3
<1>3. CASE Monitor(g)
  <2>1. PICK from \in SmonType, to \in SmonType :
          /\ MonitorAt(g, from, to)
          /\ from \notin {"none"}
          /\ from \in Counted => to \in Counted
          /\ \/ restartCount' = restartCount
             \/ restartCount' = restartCount + 1 /\ from \notin Counted /\ to \in Counted
    BY <1>3 DEF Monitor, MonitorStops, MonitorTicks, MonitorChecks, CrashCancels, CrashOfWarmCore,
         CrashPolicy, CrashSettles, BackoffEnds, SmonType, Counted, supVars
  <2>2. smon[g] = from /\ smon'[g] = to /\ \A h \in Gens : h # g => smon'[h] = smon[h]
    BY <1>1, <2>1, MonitorMoves
  <2>3. CountIsOfMonitors'
    BY <1>1, <2>1, <2>2, CountStays, CountGrows
  <2>4. FutureUntouched'
    <3>1. \A h \in Gens : smon[h] = "none" => smon'[h] = "none"
      BY <2>1, <2>2
    <3>2. api.pc \in Spawned => started \in Gens
      BY MaxStartsAssumption DEF CoreTypes, StartsAreBudgeted, Gens
    <3>. QED
      BY <1>1, <3>1, <3>2 DEF FutureUntouched
  <2>. QED
    BY <2>3, <2>4
<1>. QED
  BY <1>2, <1>3

-----------------------------------------------------------------------------
(* Type correctness.                                                       *)

LEMMA LateKept ==
  ASSUME LateInv, [Next]_vars
  PROVE  LateInv'
<1>. USE DEF LateInv
<1>1. CASE Requests \/ Return
  BY <1>1, RequestsKeepTypes, RequestsKeepBudget, OthersKeepFuture
<1>2. CASE StopGuard \/ StopBegin \/ StopMark \/ SwapBegin \/ HostStop \/ HostStopWait \/ StopDone \/ StopFailed
  BY <1>2, StopsKeepTypes, StopsKeepBudget, OthersKeepFuture
<1>3. CASE StartBegin \/ StartReconcile \/ StartReconciled \/ StartCore \/ HostStart \/ StartDone \/ StartFailed
  BY <1>3, StartsKeepTypes, StartsKeepBudget, OthersKeepFuture, LateKeptByStart
<1>4. ASSUME NEW g \in Gens, Exit(g) \/ HostMonitor(g) \/ Monitor(g)
      PROVE  LateInv'
  <2>1. api' = api /\ started' = started
    BY <1>4 DEF Exit, HostMonitor, HostMonitorReads, HostMonitorWakes, HostMonitorMarks, Monitor,
       MonitorStops, MonitorTicks, MonitorChecks, CrashCancels, CrashOfWarmCore, CrashPolicy, CrashSettles,
       BackoffEnds, procVars
  <2>2. StartsAreBudgeted'
    BY <2>1 DEF StartsAreBudgeted, InRequest, Rest
  <2>. QED
    BY <1>4, <2>2, MonitorsKeepTypes, MonitorsKeepFuture
<1>5. CASE UNCHANGED vars
  <2>1. CoreTypes'
    BY <1>5 DEF vars, procVars, supVars, CoreTypes
  <2>2. StartsAreBudgeted' /\ FutureUntouched'
    BY <1>5 DEF vars, procVars, supVars, StartsAreBudgeted, FutureUntouched, InRequest, Rest
  <2>3. CountIsOfMonitors'
    BY <1>5, CountStays DEF vars, supVars, CoreTypes
  <2>. QED
    BY <2>1, <2>2, <2>3
<1>6. CASE \E g \in Gens : Exit(g) \/ HostMonitor(g) \/ Monitor(g)
  BY <1>4, <1>6
<1>7. CASE Caller
  BY <1>1, <1>2, <1>3, <1>7 DEF Caller
<1>. QED
  BY <1>1, <1>5, <1>6, <1>7 DEF Next

LEMMA InitiallyLate ==
  ASSUME Init
  PROVE  LateInv
<1>1. CoreTypes
  <2>1. 0 \in 0 .. MaxStarts
    BY MaxStartsAssumption
  <2>2. [state |-> "stopped", exit |-> 0, cmd |-> FALSE] \in HostType /\ [at |-> "none", exit |-> 0] \in HmonType
    BY <2>1 DEF HostType, HmonType, HostStates
  <2>3. [pc |-> "idle", job |-> "none", seen |-> "stopped"] \in Api
    BY DEF Api, Steps, States
  <2>4. started = 0 /\ cancelOf = 0 /\ 0 \in 0 .. started
    BY DEF Init
  <2>5. proc \in [Gens -> {"none", "alive", "dead"}] /\ hmon \in [Gens -> HmonType] /\ smon \in [Gens -> SmonType]
    BY <2>2 DEF Init, SmonType
  <2>. QED
    BY <2>1, <2>2, <2>3, <2>4, <2>5 DEF Init, CoreTypes, States
<1>2. StartsAreBudgeted /\ FutureUntouched
  BY DEF Init, StartsAreBudgeted, FutureUntouched, InRequest, BeforeSpawn, Spawned
<1>3. CountIsOfMonitors
  <2>1. Cardinality({g \in Gens : smon[g] \in Counted}) \in Nat
    BY PastIsFinite
  <2>. QED
    BY <2>1 DEF Init, CountIsOfMonitors
<1>. QED
  BY <1>1, <1>2, <1>3 DEF LateInv

THEOREM LateInvariant == Spec => []LateInv
<1>1. Init => LateInv
  BY InitiallyLate
<1>2. LateInv /\ [Next]_vars => LateInv'
  BY LateKept
<1>. QED
  BY <1>1, <1>2, PTL DEF Spec

-----------------------------------------------------------------------------
(* Prompt monitors.  A stop takes the lifecycle of the last core with it.  *)

LEMMA GenFacts ==
  ASSUME CoreTypes, FutureUntouched
  PROVE  /\ cancelOf = started /\ started \in 0 .. MaxStarts /\ started \in Nat /\ MaxStarts \in Nat
         /\ (started # 0 => started \in Gens) /\ 0 \notin Gens /\ Gens \subseteq Nat
BY MaxStartsAssumption DEF CoreTypes, FutureUntouched, Gens

(* What a step of the caller does not touch while a core is stopped.       *)
StopStep == StopGuard \/ StopBegin \/ StopMark \/ SwapBegin \/ HostStop \/ HostStopWait \/ StopDone \/ StopFailed

(* Where a stop goes on, and what becomes of the supervisor's state.       *)
LEMMA StopsLead ==
  ASSUME CoreTypes, StopStep
  PROVE  /\ UNCHANGED <<started, cancelOf, restartCount, smon, hmon, proc, suppressed>>
         /\ \/ /\ api.pc = "guard" /\ UNCHANGED <<sup, warmIdle, cancelled, host>>
               /\ \/ sup = "stopped" /\ api'.job = api.job /\ api'.pc = "start" /\ api.job \in {"on", "swap"}
                  \/ api'.job \in {api.job, "rollback"} /\ api'.pc \in {"returned", "stop", "guard", "refused"}
            \/ /\ api.pc = "stop" /\ UNCHANGED <<sup, host>> /\ warmIdle' = FALSE
               /\ \/ api'.pc \in {"guard", "refused"} /\ api'.job \in {api.job, "rollback"} /\ UNCHANGED cancelled
                  \/ /\ api'.pc = "stopping" /\ api'.job = api.job
                     /\ cancelled' = cancelled \cup ({cancelOf} \ {0})
            \/ /\ api.pc = "stopping" /\ UNCHANGED <<warmIdle, cancelled, host>>
               /\ \/ sup' = sup /\ sup # "running" /\ api'.pc \in {"guard", "refused"} /\ api'.job \in {api.job, "rollback"}
                  \/ sup' = "stopping" /\ api'.pc = "host_stop" /\ api'.job = api.job
            \/ /\ api.pc = "swap" /\ UNCHANGED <<warmIdle, host>> /\ api'.job = api.job
               /\ \/ api'.pc = "refused" /\ UNCHANGED <<sup, cancelled>>
                  \/ /\ api'.pc = "host_stop" /\ sup' = "stopping"
                     /\ cancelled' = cancelled \cup ({cancelOf} \ {0})
            \/ /\ api.pc \in {"host_stop", "host_wait"} /\ UNCHANGED <<sup, warmIdle, cancelled>>
               /\ host' = host \/ host'.state \in {"stopped", "stopping"}
               /\ api'.pc \in {"host_wait", "stop_done", "stop_failed"} /\ api'.job = api.job
            \/ /\ api.pc = "stop_done" /\ UNCHANGED <<warmIdle, cancelled, host>> /\ sup' = "stopped"
               /\ api'.job = api.job
               /\ \/ api'.pc = "start" /\ api.job \in {"on", "swap"}
                  \/ api'.pc = "returned" /\ api.job \notin {"on", "swap"}
            \/ /\ api.pc = "stop_failed" /\ UNCHANGED <<warmIdle, cancelled, host>>
               /\ \/ api.job = "swap" /\ sup' = "stopped" /\ api'.pc = "start" /\ api'.job = "restore"
                  \/ /\ api.job # "swap" /\ sup' = "failed" /\ api'.pc \in {"guard", "refused"}
                     /\ api'.job \in {api.job, "rollback"}
<1>1. api \in Api /\ host \in HostType
  BY DEF CoreTypes
<1>2. CASE StopGuard
  BY <1>1, <1>2, AfterStopLeads, AfterFailedStopLeads, GotoLeads DEF StopGuard, Steps, procVars, supVars
<1>3. CASE StopBegin
  BY <1>1, <1>3, AfterFailedStopLeads DEF StopBegin, Api
<1>4. CASE StopMark
  <2>1. CASE api.seen \in Stoppable /\ sup \notin Stoppable
    BY <1>1, <1>4, <2>1, AfterFailedStopLeads DEF StopMark, procVars, Stoppable
  <2>2. CASE ~(api.seen \in Stoppable /\ sup \notin Stoppable)
    BY <1>1, <1>4, <2>2, GotoLeads DEF StopMark, procVars, Steps
  <2>. QED
    BY <2>1, <2>2
<1>5. CASE SwapBegin
  BY <1>1, <1>5, GotoLeads DEF SwapBegin, Steps, Api
<1>6. CASE HostStop
  <2>1. host' = host \/ host'.state \in {"stopped", "stopping"}
    BY <1>1, <1>6 DEF HostStop, HostStopped, HostType
  <2>2. api'.pc \in {"host_wait", "stop_done", "stop_failed"} /\ api'.job = api.job
    BY <1>1, <1>6, GotoLeads DEF HostStop, Steps
  <2>. QED
    BY <1>6, <2>1, <2>2 DEF HostStop, supVars
<1>7. CASE HostStopWait
  BY <1>1, <1>7, GotoLeads DEF HostStopWait, Steps, supVars, procVars, HostStopped
<1>8. CASE StopDone
  BY <1>1, <1>8, AfterStopLeads DEF StopDone, procVars
<1>9. CASE StopFailed
  BY <1>1, <1>9, AfterFailedStopLeads DEF StopFailed, procVars
<1>. QED
  BY <1>2, <1>3, <1>4, <1>5, <1>6, <1>7, <1>8, <1>9 DEF StopStep

LEMMA StopsContain ==
  ASSUME PromptInv, StopStep
  PROVE  Contained'
<1>1. /\ CoreTypes /\ FutureUntouched /\ OneMonitor /\ OldAreCancelled /\ UncancelledRuns /\ RunningIsKept
      /\ CrashOfDeadHost /\ WarmPlaces /\ OneRestart
  BY DEF PromptInv, LateInv, Contained
<1>2. /\ UNCHANGED <<started, cancelOf, restartCount, smon, hmon, proc, suppressed>>
      /\ api'.pc \notin BeforeSpawn \cup Spawned /\ api.pc \notin BeforeSpawn \cup Spawned
      /\ cancelled' = cancelled \/ cancelled' = cancelled \cup ({cancelOf} \ {0})
      /\ host' = host \/ host'.state \in {"stopped", "stopping"}
  BY <1>1, StopsLead DEF BeforeSpawn, Spawned
<1>3. cancelOf = started /\ started \in Nat /\ (started # 0 => started \in Gens) /\ Gens \subseteq Nat /\ 0 \notin Gens
  BY <1>1, GenFacts
<1>4. api'.pc \in StopWork /\ started # 0 => started \in cancelled'
  BY <1>1, <1>2, <1>3, StopsLead DEF StopWork, OldAreCancelled
<1>5. OneMonitor' /\ OldAreCancelled' /\ OneRestart'
  <2>1. OneMonitor' /\ OneRestart'
    BY <1>1, <1>2 DEF OneMonitor, OneRestart
  <2>2. OldAreCancelled'
    BY <1>1, <1>2, <1>4 DEF OldAreCancelled
  <2>. QED
    BY <2>1, <2>2
<1>6. UncancelledRuns'
  <2>1. started # 0 /\ started \notin cancelled' => sup' = "running"
    BY <1>1, <1>2, <1>3, <1>4, StopsLead DEF UncancelledRuns, OldAreCancelled, StopWork
  <2>2. \A g \in Gens : g > started => g \notin cancelled'
    BY <1>1, <1>2, <1>3 DEF UncancelledRuns
  <2>. QED
    BY <1>1, <1>2, <2>1, <2>2 DEF UncancelledRuns, Spawned
<1>7. RunningIsKept'
  <2>1. sup' = "running" =>
          /\ sup = "running"
          /\ api'.pc # "stopping" => cancelled' = cancelled /\ api.pc # "stopping"
          /\ api'.pc # "start"
    BY <1>1, StopsLead DEF RunningIsKept
  <2>2. sup' = "starting" => sup = "starting"
    BY <1>1, StopsLead
  <2>3. sup' # "starting"
    <3>1. sup # "starting"
      BY <1>1, <1>2 DEF RunningIsKept
    <3>. QED
      BY <2>2, <3>1
  <2>4. ASSUME sup' = "running", api'.pc # "stopping"
        PROVE  \/ smon'[started'] \in {"watching", "checking", "crash"} /\ started' \notin cancelled'
               \/ smon'[started'] \in Crashed \ {"backoff"}
    <3>1. sup = "running" /\ cancelled' = cancelled /\ api.pc # "stopping" /\ smon' = smon /\ started' = started
      BY <1>2, <2>1, <2>4
    <3>. QED
      BY <1>1, <3>1 DEF RunningIsKept
  <2>5. sup' = "running" => started' # 0 /\ api'.pc \notin {"start"} \cup BeforeSpawn \cup Spawned
    BY <1>1, <1>2, <2>1 DEF RunningIsKept
  <2>. QED
    BY <2>3, <2>4, <2>5 DEF RunningIsKept
<1>8. warmIdle' => warmIdle
  BY <1>1, StopsLead
<1>9. CrashOfDeadHost'
  BY <1>1, <1>2, <1>8 DEF CrashOfDeadHost, Crashing
<1>10. WarmPlaces'
  <2>1. api'.job = "restore" => api'.pc \in {"start", "returned", "refused"}
    BY <1>1, StopsLead DEF WarmPlaces, BeforeSpawn, Spawned
  <2>2. api'.job = "swap" => api'.pc \notin {"guard", "stop", "stopping", "idle"}
    BY <1>1, StopsLead DEF WarmPlaces
  <2>3. ASSUME warmIdle'
        PROVE  \/ sup' = "running" /\ api'.pc \notin StopWork \cup {"start"}
               \/ /\ api'.job \in {"swap", "restore"} /\ sup' \in {"stopping", "stopped"}
                  /\ api'.pc \in {"host_stop", "host_wait", "stop_done", "stop_failed", "start"}
    <3>1. warmIdle
      BY <1>8, <2>3
    <3>2. CASE api.pc \in {"guard", "stop", "stopping"}
      <4>1. sup = "running" /\ api.pc # "stopping"
        BY <1>1, <3>1, <3>2 DEF WarmPlaces, StopWork
      <4>2. sup' = "running" /\ api'.pc \in {"returned", "stop", "guard", "refused"}
        BY <1>1, <2>3, <3>2, <4>1, StopsLead
      <4>. QED
        BY <4>2 DEF StopWork
    <3>4. CASE api.pc = "swap"
      <4>1. sup = "running"
        BY <1>1, <3>1, <3>4 DEF WarmPlaces, StopWork
      <4>2. CASE api'.pc = "refused"
        BY <1>1, <3>4, <4>1, <4>2, StopsLead DEF StopWork
      <4>3. CASE api'.pc = "host_stop"
        <5>1. api.job = "swap"
          BY <1>1, <3>4 DEF WarmPlaces
        <5>. QED
          BY <1>1, <3>4, <4>3, <5>1, StopsLead
      <4>. QED
        BY <1>1, <3>4, <4>2, <4>3, StopsLead
    <3>3. CASE api.pc \in {"host_stop", "host_wait", "stop_done", "stop_failed"}
      BY <1>1, <2>3, <3>1, <3>3, StopsLead DEF WarmPlaces, StopWork, BeforeSpawn, Spawned
    <3>. QED
      BY <1>1, <3>2, <3>3, <3>4, StopsLead
  <2>4. api'.pc # "swap"
    BY <1>1, StopsLead
  <2>. QED
    BY <1>2, <2>1, <2>2, <2>3, <2>4 DEF WarmPlaces
<1>. QED
  BY <1>5, <1>6, <1>7, <1>9, <1>10 DEF Contained

(* A request begins, or has ended, without touching a core.                *)
LEMMA RequestsLead ==
  ASSUME CoreTypes, Requests \/ Return
  PROVE  /\ UNCHANGED <<host, started, cancelled, cancelOf, sup, restartCount, smon, proc>>
         /\ api.pc \in {"idle", "returned", "refused"}
         /\ \/ api'.pc = "guard" /\ api'.job \in {"off", "on", "expire"} /\ warmIdle' = FALSE
            \/ api'.pc = "swap" /\ api'.job = "swap" /\ sup = "running" /\ warmIdle' = warmIdle
            \/ api'.pc = "stop" /\ api'.job = "update_stop" /\ warmIdle' = warmIdle
            \/ /\ api'.pc = "start" /\ api'.job = "update_start" /\ sup # "running" /\ warmIdle' = warmIdle
               /\ api.pc = "idle"
            \/ api' = api /\ sup = "running" /\ host.state = "running" /\ api.pc = "idle"
            \/ api'.pc = "idle" /\ api'.job = "none" /\ warmIdle' = warmIdle
<1>1. api \in Api
  BY DEF CoreTypes
<1>2. CASE \E job \in {"off", "on"} : Prepare(job)
  <2>1. PICK job \in {"off", "on"} : Prepare(job)
    BY <1>2
  <2>2. api'.pc = "guard" /\ api'.job = job /\ api.pc = "idle"
    BY <1>1, <2>1, AcceptLeads DEF Prepare, Jobs, Steps
  <2>. QED
    BY <2>1, <2>2 DEF Prepare, procVars
<1>3. CASE SwapRequest
  BY <1>1, <1>3, AcceptLeads DEF SwapRequest, Jobs, Steps, procVars
<1>4. CASE UpdateStop
  BY <1>1, <1>4, AcceptLeads DEF UpdateStop, Jobs, Steps, procVars
<1>5. CASE UpdateStart
  BY <1>1, <1>5, AcceptLeads DEF UpdateStart, Jobs, Steps, procVars
<1>6. CASE ExpireWarm
  BY <1>1, <1>6, AcceptLeads DEF ExpireWarm, Jobs, Steps, procVars
<1>7. CASE RetainWarm \/ ResumeWarm
  BY <1>7 DEF RetainWarm, ResumeWarm, procVars
<1>8. CASE Return
  <2>1. api'.pc = "idle" /\ api'.job = "none" /\ api.pc \in {"returned", "refused"}
    BY <1>8 DEF Return
  <2>2. warmIdle' = warmIdle /\ UNCHANGED <<host, procVars, cancelOf, sup, restartCount, smon>>
    BY <1>8 DEF Return
  <2>. QED
    BY <2>1, <2>2 DEF procVars
<1>. QED
  BY <1>2, <1>3, <1>4, <1>5, <1>6, <1>7, <1>8 DEF Requests

LEMMA RequestsContain ==
  ASSUME PromptInv, Requests \/ Return
  PROVE  Contained'
<1>1. /\ CoreTypes /\ FutureUntouched /\ OneMonitor /\ OldAreCancelled /\ UncancelledRuns /\ RunningIsKept
      /\ CrashOfDeadHost /\ WarmPlaces /\ OneRestart
  BY DEF PromptInv, LateInv, Contained
<1>2. /\ UNCHANGED <<host, started, cancelled, cancelOf, sup, restartCount, smon, proc>>
      /\ api'.pc \notin BeforeSpawn \cup Spawned \cup StopWork
      /\ api.pc \notin BeforeSpawn \cup Spawned \cup StopWork \cup {"start", "guard", "stop", "swap"}
  BY <1>1, RequestsLead DEF BeforeSpawn, Spawned, StopWork
<1>3. OneMonitor' /\ OldAreCancelled' /\ OneRestart'
  BY <1>1, <1>2 DEF OneMonitor, OldAreCancelled, OneRestart
<1>4. UncancelledRuns'
  BY <1>1, <1>2 DEF UncancelledRuns, Spawned
<1>5. RunningIsKept'
  <2>1. api'.pc = "start" => sup # "running"
    BY <1>1, <1>2, RequestsLead
  <2>. QED
    BY <1>1, <1>2, <2>1 DEF RunningIsKept, StopWork
<1>6. CrashOfDeadHost'
  <2>1. CASE warmIdle' => warmIdle
    BY <1>1, <1>2, <2>1 DEF CrashOfDeadHost, Crashing
  <2>2. CASE host.state = "running"
    <3>1. \A g \in Gens : ~Crashing(g)
      BY <1>1, <2>2 DEF CrashOfDeadHost
    <3>. QED
      BY <1>2, <2>2, <3>1 DEF CrashOfDeadHost, Crashing, Crashed
  <2>. QED
    BY <1>1, <2>1, <2>2, RequestsLead
<1>7. WarmPlaces'
  <2>1. warmIdle /\ api.pc # "start" => sup = "running"
    BY <1>1, <1>2 DEF WarmPlaces, StopWork
  <2>2. api'.job # "restore" \/ api' = api
    BY <1>1, RequestsLead
  <2>3. api'.job = "swap" => api'.pc = "swap" \/ api' = api
    BY <1>1, RequestsLead
  <2>4. api'.pc = "swap" => api'.job = "swap"
    BY <1>1, RequestsLead
  <2>5. warmIdle' => sup = "running" /\ api'.pc # "start"
    BY <1>1, <1>2, <2>1, RequestsLead
  <2>. QED
    BY <1>1, <1>2, <2>2, <2>3, <2>4, <2>5 DEF WarmPlaces
<1>. QED
  BY <1>3, <1>4, <1>5, <1>6, <1>7 DEF Contained

-----------------------------------------------------------------------------
(* A core is started when no monitor is left over.                         *)

StartStep ==
  StartBegin \/ StartReconcile \/ StartReconciled \/ StartCore \/ HostStart \/ StartDone \/ StartFailed

LEMMA StartsLead ==
  ASSUME CoreTypes, StartStep
  PROVE  /\ api.pc \in {"start"} \cup BeforeSpawn \cup Spawned
         /\ \/ /\ api'.pc = "guard" /\ api'.job = "rollback"
            \/ /\ api'.pc = "start" /\ api'.job = "restore" /\ api.job = "swap"
            \/ /\ api'.pc \in {"refused", "returned"} \cup BeforeSpawn \cup Spawned /\ api'.job = api.job
<1>1. api \in Api
  BY DEF CoreTypes
<1>2. CASE StartBegin \/ StartReconcile \/ StartReconciled
  BY <1>1, <1>2, AfterFailedStartLeads, GotoLeads
     DEF StartBegin, StartReconcile, StartReconciled, Steps, BeforeSpawn, Spawned
<1>3. CASE StartCore \/ HostStart \/ StartFailed
  BY <1>1, <1>3, AfterFailedStartLeads, GotoLeads DEF StartCore, HostStart, StartFailed, Steps, BeforeSpawn, Spawned
<1>4. CASE StartDone
  BY <1>1, <1>4, GotoLeads DEF StartDone, Steps, BeforeSpawn, Spawned, Api
<1>. QED
  BY <1>2, <1>3, <1>4 DEF StartStep

(* A start that has begun no generation yet.                               *)
LEMMA NoGenerationContains ==
  ASSUME PromptInv, api.pc \in {"start"} \cup BeforeSpawn, StartStep,
         UNCHANGED <<started, cancelOf, cancelled, smon, host, proc>>,
         restartCount' \in {0, restartCount}, sup' \notin {"running", "starting"}, ~warmIdle',
         api'.pc \notin Spawned,
         api'.pc \in BeforeSpawn => restartCount' = 0 /\ \A g \in Gens : smon[g] \in Lifeless
  PROVE  Contained'
<1>1. /\ CoreTypes /\ OneMonitor /\ OldAreCancelled /\ UncancelledRuns /\ RunningIsKept
      /\ CrashOfDeadHost /\ WarmPlaces /\ OneRestart
  BY DEF PromptInv, LateInv, Contained
<1>2. /\ api'.pc \notin StopWork \cup {"swap", "stop", "idle", "stopping"}
      /\ api'.job = "restore" => api'.pc \in {"start", "returned", "refused"} \cup BeforeSpawn \cup Spawned
      /\ api'.job = "swap" => api'.pc # "guard"
  BY <1>1, StartsLead DEF StopWork, BeforeSpawn, Spawned, WarmPlaces
<1>3. started # 0 => started \in cancelled
  BY <1>1 DEF UncancelledRuns, RunningIsKept, BeforeSpawn, Spawned
<1>4. OneMonitor' /\ OldAreCancelled'
  BY <1>1, <1>2 DEF OneMonitor, OldAreCancelled
<1>5. UncancelledRuns' /\ RunningIsKept'
  <2>1. api'.pc # "started"
    BY DEF Spawned
  <2>2. UncancelledRuns'
    BY <1>1, <1>3, <2>1 DEF UncancelledRuns
  <2>. QED
    BY <2>2 DEF RunningIsKept
<1>6. CrashOfDeadHost' /\ WarmPlaces'
  BY <1>1, <1>2 DEF CrashOfDeadHost, Crashing, WarmPlaces
<1>7. OneRestart'
  BY <1>1 DEF OneRestart
<1>. QED
  BY <1>4, <1>5, <1>6, <1>7 DEF Contained

LEMMA StartsContain ==
  ASSUME Prompt, PromptInv, StartStep
  PROVE  Contained'
<1>1. /\ CoreTypes /\ StartsAreBudgeted /\ FutureUntouched
      /\ OneMonitor /\ OldAreCancelled /\ UncancelledRuns /\ RunningIsKept
      /\ CrashOfDeadHost /\ WarmPlaces /\ OneRestart
  BY DEF PromptInv, LateInv, Contained
<1>2. /\ cancelOf = started /\ started \in Nat /\ (started # 0 => started \in Gens) /\ Gens \subseteq Nat
      /\ smon \in [Gens -> SmonType] /\ proc \in [Gens -> {"none", "alive", "dead"}]
  BY <1>1, GenFacts DEF CoreTypes
<1>3. api \in Api /\ api.pc \in {"start"} \cup BeforeSpawn \cup Spawned
      /\ sup # "running" /\ (api.pc \in {"start"} \cup BeforeSpawn => sup # "starting" /\ api.pc \notin Spawned)
  BY <1>1, StartsLead DEF RunningIsKept, CoreTypes, BeforeSpawn, Spawned
<1>4. api.pc # "start" => ~warmIdle /\ restartCount = 0 /\ \A g \in Gens : smon[g] \in Lifeless
  BY <1>1, <1>3 DEF WarmPlaces, BeforeSpawn, Spawned, OneRestart, OneMonitor
<1>5. api.pc \notin Spawned => (started # 0 => started \in cancelled)
  BY <1>1, <1>3 DEF UncancelledRuns
<1>6. CASE StartBegin
  <2>1. api.pc = "start" /\ sup \notin {"running", "starting"} /\ Settled
    BY <1>1, <1>3, <1>6 DEF StartBegin, RunningIsKept
  <2>2. UNCHANGED <<host, procVars, sup, cancelOf, smon>> /\ restartCount' = 0 /\ warmIdle' = FALSE
        /\ Goto("reconcile")
    BY <1>6, <2>1 DEF StartBegin
  <2>3. ASSUME NEW g \in Gens
        PROVE  smon[g] \in Lifeless
    <3>1. CASE smon[g] = "watching" /\ g \notin cancelled
      <4>1. g = started
        BY <1>1, <3>1 DEF OneMonitor, Lifeless
      <4>2. started # 0 /\ started \in cancelled
        BY <1>2, <1>5, <2>1, <4>1 DEF Spawned, Gens
      <4>. QED
        BY <3>1, <4>1, <4>2
    <3>. QED
      BY <2>1, <3>1 DEF Settled, Lifeless
  <2>4. api'.pc = "reconcile"
    BY <1>3, <2>2, GotoLeads DEF Steps
  <2>. QED
    BY <1>6, <2>1, <2>2, <2>3, <2>4, NoGenerationContains DEF procVars, StartStep, Spawned
<1>7. CASE StartReconcile \/ StartReconciled
  <2>1. api.pc \in BeforeSpawn /\ UNCHANGED <<host, procVars, cancelOf, restartCount, warmIdle, smon>>
    BY <1>7 DEF StartReconcile, StartReconciled, BeforeSpawn
  <2>2. api.pc # "start" /\ sup # "starting"
    BY <1>3, <2>1 DEF BeforeSpawn
  <2>3. sup' \notin {"running", "starting"}
    BY <1>3, <1>7, <2>2 DEF StartReconcile, StartReconciled
  <2>4. api'.pc \notin Spawned
    BY <1>3, <1>7, AfterFailedStartLeads, GotoLeads DEF StartReconcile, StartReconciled, Steps, Spawned
  <2>. QED
    BY <1>4, <1>7, <2>1, <2>2, <2>3, <2>4, NoGenerationContains DEF procVars, StartStep
<1>8. CASE StartCore
  <2>1. api.pc = "ready" /\ api.pc \in BeforeSpawn /\ api.pc \notin Spawned
        /\ UNCHANGED <<host, proc, killed, cancelled, restartCount, warmIdle, smon>>
    BY <1>8 DEF StartCore, BeforeSpawn, Spawned
  <2>2. CASE AfterFailedStart /\ UNCHANGED <<sup, started, cancelOf>>
    <3>1. api'.pc \notin Spawned
      BY <1>3, <2>2, AfterFailedStartLeads DEF Spawned
    <3>. QED
      BY <1>3, <1>4, <1>8, <2>1, <2>2, <3>1, NoGenerationContains DEF StartStep
  <2>3. CASE sup' = "starting" /\ started' = started + 1 /\ cancelOf' = started + 1 /\ Goto("spawn")
    <3>1. api'.pc = "spawn" /\ api'.job = api.job
      BY <1>3, <2>3, GotoLeads DEF Steps
    <3>2. \A g \in Gens : smon'[g] \in Lifeless
      BY <1>4, <2>1
    <3>3. OneMonitor' /\ OneRestart'
      BY <1>4, <2>1, <3>1, <3>2 DEF OneMonitor, OneRestart
    <3>4. OldAreCancelled'
      <4>1. \A g \in Gens : g < started' => g < started \/ (g = started /\ started # 0)
        BY <1>2, <2>3 DEF Gens
      <4>2. \A g \in Gens : g < started' => g \in cancelled'
        BY <1>1, <1>5, <2>1, <4>1 DEF OldAreCancelled
      <4>. QED
        BY <3>1, <3>2, <4>2 DEF OldAreCancelled, Lifeless, Crashed, StopWork
    <3>5. UncancelledRuns'
      <4>1. \A g \in Gens : g > started' => g > started
        BY <1>2, <2>3
      <4>. QED
        BY <1>1, <2>1, <3>1, <4>1 DEF UncancelledRuns, Spawned
    <3>6. RunningIsKept' /\ CrashOfDeadHost' /\ WarmPlaces'
      BY <1>1, <1>4, <2>1, <2>3, <3>1, <3>2 DEF RunningIsKept, CrashOfDeadHost, WarmPlaces, Crashing, Lifeless,
         Crashed, Spawned
    <3>. QED
      BY <3>3, <3>4, <3>5, <3>6 DEF Contained
  <2>. QED
    BY <1>8, <2>2, <2>3 DEF StartCore
<1>9. CASE HostStart
  <2>1. api.pc = "spawn" /\ UNCHANGED <<cancelled, started, supVars, smon>>
    BY <1>9 DEF HostStart
  <2>2. api'.pc \in {"started", "start_failed"} /\ api'.job = api.job
    BY <1>3, <1>9, GotoLeads DEF HostStart, Steps
  <2>3. api'.pc = "started" => started \notin cancelled
    BY <1>3, <1>9, GotoLeads DEF HostStart, Steps
  <2>4. proc' = proc \/ proc' = [proc EXCEPT ![started] = "alive"]
    BY <1>9 DEF HostStart
  <2>5. \A g \in Gens : g > started => proc'[g] = proc[g]
    BY <1>2, <2>4
  <2>6. \A g \in Gens : smon'[g] \in Lifeless
    BY <1>4, <2>1
  <2>7. OneMonitor' /\ OneRestart' /\ OldAreCancelled'
    BY <1>1, <1>4, <2>1, <2>2, <2>6 DEF OneMonitor, OneRestart, OldAreCancelled, supVars, StopWork
  <2>8. UncancelledRuns'
    BY <1>1, <2>1, <2>2, <2>3, <2>5 DEF UncancelledRuns, Spawned
  <2>9. RunningIsKept'
    BY <1>3, <2>1, <2>2 DEF RunningIsKept, Spawned, supVars
  <2>10. CrashOfDeadHost' /\ WarmPlaces'
    BY <1>1, <1>4, <2>1, <2>2, <2>6 DEF CrashOfDeadHost, WarmPlaces, Crashing, Lifeless, Crashed, Spawned, supVars
  <2>. QED
    BY <2>7, <2>8, <2>9, <2>10 DEF Contained
<1>10. CASE StartDone
  <2>1. /\ api.pc = "started" /\ UNCHANGED <<host, procVars, cancelOf, restartCount, warmIdle>>
        /\ sup' = "running" /\ smon' = [smon EXCEPT ![started] = "watching"]
    BY <1>10 DEF StartDone
  <2>2. started # 0 /\ started \in Gens /\ started \notin cancelled
    BY <1>1, <1>2, <2>1 DEF StartsAreBudgeted, Spawned, UncancelledRuns
  <2>3. smon'[started] = "watching" /\ \A g \in Gens : g # started => smon'[g] \in Lifeless
    BY <1>2, <1>4, <2>1, <2>2
  <2>4. (api'.pc = "returned" /\ api'.job = api.job) \/ (api'.pc = "guard" /\ api'.job = "rollback")
    <3>1. CASE Goto("returned")
      BY <1>3, <3>1, GotoLeads DEF Steps
    <3>2. CASE api' = [api EXCEPT !.job = "rollback", !.pc = "guard"]
      BY <1>3, <3>2 DEF Api
    <3>. QED
      BY <1>10, <3>1, <3>2 DEF StartDone
  <2>5. OneMonitor' /\ OneRestart'
    BY <1>4, <2>1, <2>3, <2>4 DEF OneMonitor, OneRestart, procVars, BeforeSpawn, Spawned
  <2>6. OldAreCancelled'
    BY <1>1, <2>1, <2>3, <2>4 DEF OldAreCancelled, procVars, StopWork, Crashed, Lifeless
  <2>7. UncancelledRuns' /\ RunningIsKept'
    BY <1>1, <2>1, <2>2, <2>3, <2>4 DEF UncancelledRuns, RunningIsKept, procVars, BeforeSpawn, Spawned
  <2>8. CrashOfDeadHost'
    <3>1. \A g \in Gens : smon'[g] \in Lifeless \cup {"watching"}
      BY <2>3
    <3>. QED
      BY <3>1 DEF CrashOfDeadHost, Crashing, Crashed, Lifeless
  <2>9. WarmPlaces'
    BY <1>1, <1>4, <2>1, <2>4 DEF WarmPlaces
  <2>. QED
    BY <2>5, <2>6, <2>7, <2>8, <2>9 DEF Contained
<1>11. CASE StartFailed
  <2>1. /\ api.pc = "start_failed" /\ cancelled' = cancelled \cup {started} /\ sup' = "failed"
        /\ UNCHANGED <<host, proc, started, cancelOf, restartCount, warmIdle, smon>>
    BY <1>11 DEF StartFailed
  <2>2. \/ api'.pc = "guard" /\ api'.job = "rollback"
        \/ api'.pc = "start" /\ api'.job = "restore"
        \/ api'.pc = "refused" /\ api'.job = api.job /\ api.job \notin {"on", "swap"}
    BY <1>3, <1>11, AfterFailedStartLeads DEF StartFailed
  <2>3. \A g \in Gens : smon'[g] \in Lifeless
    BY <1>4, <2>1
  <2>4. OneMonitor' /\ OneRestart' /\ OldAreCancelled'
    BY <1>1, <1>4, <2>1, <2>2, <2>3 DEF OneMonitor, OneRestart, OldAreCancelled, StopWork, BeforeSpawn, Spawned
  <2>5. UncancelledRuns'
    <3>1. \A g \in Gens : g > started => g \notin cancelled'
      BY <1>1, <1>2, <2>1 DEF UncancelledRuns
    <3>. QED
      BY <1>1, <2>1, <2>2, <3>1 DEF UncancelledRuns
  <2>6. RunningIsKept'
    BY <2>1 DEF RunningIsKept
  <2>7. CrashOfDeadHost' /\ WarmPlaces'
    BY <1>1, <1>4, <2>1, <2>2, <2>3 DEF CrashOfDeadHost, WarmPlaces, Crashing, Lifeless, Crashed, StopWork,
       BeforeSpawn, Spawned
  <2>. QED
    BY <2>4, <2>5, <2>6, <2>7 DEF Contained
<1>. QED
  BY <1>6, <1>7, <1>8, <1>9, <1>10, <1>11 DEF StartStep

-----------------------------------------------------------------------------
(* The monitors.                                                           *)

LEMMA HostMonitorsContain ==
  ASSUME PromptInv, NEW g \in Gens, Exit(g) \/ HostMonitor(g)
  PROVE  Contained'
<1>1. /\ OneMonitor /\ OldAreCancelled /\ UncancelledRuns /\ RunningIsKept
      /\ CrashOfDeadHost /\ WarmPlaces /\ OneRestart /\ CoreTypes
  BY DEF PromptInv, LateInv, Contained
<1>2. UNCHANGED <<cancelled, started, sup, cancelOf, restartCount, warmIdle, smon, api>>
  BY DEF Exit, HostMonitor, HostMonitorReads, HostMonitorWakes, HostMonitorMarks, procVars, supVars
<1>3. host'.state = "running" => host.state = "running"
  BY <1>1 DEF Exit, HostMonitor, HostMonitorReads, HostMonitorWakes, HostMonitorMarks, CoreTypes, HostType
<1>4. \A h \in Gens : proc[h] = "none" => proc'[h] = "none"
  <2>1. CASE Exit(g)
    BY <1>1, <2>1 DEF Exit, CoreTypes
  <2>2. CASE HostMonitor(g)
    BY <2>2 DEF HostMonitor, HostMonitorReads, HostMonitorWakes, HostMonitorMarks, procVars
  <2>. QED
    BY <2>1, <2>2
<1>5. OneMonitor' /\ OldAreCancelled' /\ OneRestart' /\ WarmPlaces'
  BY <1>1, <1>2 DEF OneMonitor, OldAreCancelled, OneRestart, WarmPlaces
<1>6. UncancelledRuns' /\ RunningIsKept'
  BY <1>1, <1>2, <1>4 DEF UncancelledRuns, RunningIsKept
<1>7. CrashOfDeadHost'
  BY <1>1, <1>2, <1>3 DEF CrashOfDeadHost, Crashing
<1>. QED
  BY <1>5, <1>6, <1>7 DEF Contained

(* Only the monitor of the last core moves.                                *)
LEMMA OnlyLastMoves ==
  ASSUME PromptInv, NEW g \in Gens, NEW from \in SmonType \ Lifeless, NEW to \in SmonType \ {"none"},
         MonitorAt(g, from, to), UNCHANGED <<started, api>>
  PROVE  /\ smon[g] = from /\ smon'[g] = to
         /\ g = started /\ started # 0 /\ cancelOf = started /\ api.pc \notin BeforeSpawn \cup Spawned
         /\ \A h \in Gens : h # g => smon[h] \in Lifeless /\ smon'[h] \in Lifeless
         /\ OneMonitor'
<1>1. OneMonitor /\ FutureUntouched /\ CoreTypes
  BY DEF PromptInv, LateInv, Contained
<1>2. smon[g] = from /\ smon'[g] = to /\ \A h \in Gens : h # g => smon'[h] = smon[h]
  BY <1>1, MonitorMoves DEF CoreTypes
<1>3. g = started /\ started # 0 /\ cancelOf = started /\ api.pc \notin BeforeSpawn \cup Spawned
      /\ \A h \in Gens : h # g => smon[h] \in Lifeless
  BY <1>1, <1>2 DEF OneMonitor, FutureUntouched, Gens
<1>4. OneMonitor'
  BY <1>1, <1>2, <1>3 DEF OneMonitor
<1>. QED
  BY <1>2, <1>3, <1>4

LEMMA MonitorContains ==
  ASSUME PromptInv, NEW g \in Gens, Monitor(g)
  PROVE  Contained'
<1>1. /\ OneMonitor /\ OldAreCancelled /\ UncancelledRuns /\ RunningIsKept
      /\ CrashOfDeadHost /\ WarmPlaces /\ OneRestart /\ cancelled \subseteq Gens /\ Gens \subseteq Nat
  BY DEF PromptInv, LateInv, Contained, CoreTypes, Gens
<1>2. UNCHANGED <<host, proc, started, cancelOf, api>>
  BY DEF Monitor, MonitorStops, MonitorTicks, MonitorChecks, CrashCancels, CrashOfWarmCore, CrashPolicy,
     CrashSettles, BackoffEnds, procVars, supVars
<1>. DEFINE Moved(from, to) ==
              /\ smon[g] = from /\ smon'[g] = to
              /\ g = started /\ started # 0 /\ cancelOf = started /\ api.pc \notin BeforeSpawn \cup Spawned
              /\ \A h \in Gens : h # g => smon[h] \in Lifeless /\ smon'[h] \in Lifeless
              /\ OneMonitor'
<1>3. ASSUME NEW from \in SmonType \ Lifeless, NEW to \in SmonType \ {"none"}, MonitorAt(g, from, to)
      PROVE  Moved(from, to)
  BY <1>2, <1>3, OnlyLastMoves
<1>. HIDE DEF Moved
<1>4. CASE MonitorStops(g)
  <2>1. Moved("watching", "gone") /\ g \in cancelled /\ UNCHANGED <<procVars, supVars>>
    BY <1>3, <1>4 DEF MonitorStops, SmonType, Lifeless
  <2>2. OldAreCancelled' /\ UncancelledRuns' /\ OneRestart'
    BY <1>1, <1>2, <2>1 DEF Moved, OldAreCancelled, UncancelledRuns, OneRestart, procVars, supVars, Crashed,
       Lifeless, Counted
  <2>3. RunningIsKept'
    BY <1>1, <1>2, <2>1 DEF Moved, RunningIsKept, procVars, supVars, Crashed
  <2>4. CrashOfDeadHost' /\ WarmPlaces'
    BY <1>1, <1>2, <2>1 DEF Moved, CrashOfDeadHost, WarmPlaces, Crashing, supVars, Crashed, Lifeless
  <2>. QED
    BY <2>1, <2>2, <2>3, <2>4 DEF Moved, Contained
<1>5. CASE MonitorTicks(g)
  <2>1. Moved("watching", "checking") /\ UNCHANGED <<procVars, supVars>>
    BY <1>3, <1>5 DEF MonitorTicks, SmonType, Lifeless
  <2>2. OldAreCancelled' /\ UncancelledRuns' /\ OneRestart'
    BY <1>1, <1>2, <2>1 DEF Moved, OldAreCancelled, UncancelledRuns, OneRestart, procVars, supVars, Crashed,
       Lifeless, Counted
  <2>3. RunningIsKept'
    BY <1>1, <1>2, <2>1 DEF Moved, RunningIsKept, procVars, supVars, Crashed
  <2>4. CrashOfDeadHost' /\ WarmPlaces'
    BY <1>1, <1>2, <2>1 DEF Moved, CrashOfDeadHost, WarmPlaces, Crashing, supVars, Crashed, Lifeless
  <2>. QED
    BY <2>1, <2>2, <2>3, <2>4 DEF Moved, Contained
<1>6. CASE MonitorChecks(g)
  <2>1. PICK to \in {"crash", "watching"} : MonitorAt(g, "checking", to) /\ (to = "crash" => host.state = "failed")
                                          /\ UNCHANGED <<procVars, supVars>>
    BY <1>6 DEF MonitorChecks
  <2>2. Moved("checking", to)
    BY <1>3, <2>1 DEF SmonType, Lifeless
  <2>3. OldAreCancelled' /\ UncancelledRuns' /\ OneRestart'
    BY <1>1, <1>2, <2>1, <2>2 DEF Moved, OldAreCancelled, UncancelledRuns, OneRestart, procVars, supVars, Crashed,
       Lifeless, Counted
  <2>4. RunningIsKept'
    BY <1>1, <1>2, <2>1, <2>2 DEF Moved, RunningIsKept, procVars, supVars, Crashed
  <2>5. CrashOfDeadHost' /\ WarmPlaces'
    BY <1>1, <1>2, <2>1, <2>2 DEF Moved, CrashOfDeadHost, WarmPlaces, Crashing, supVars, Crashed, Lifeless
  <2>. QED
    BY <2>2, <2>3, <2>4, <2>5 DEF Moved, Contained
<1>7. CASE CrashCancels(g)
  <2>1. Moved("crash", "warm") /\ cancelled' = cancelled \cup ({cancelOf} \ {0}) /\ UNCHANGED supVars
    BY <1>3, <1>7 DEF CrashCancels, SmonType, Lifeless
  <2>2. g \in cancelled' /\ \A h \in Gens : h \in cancelled' <=> h \in cancelled \/ h = started
    BY <2>1 DEF Moved
  <2>3. OldAreCancelled' /\ OneRestart'
    BY <1>1, <1>2, <2>1, <2>2 DEF Moved, OldAreCancelled, OneRestart, supVars, Crashed, Lifeless, Counted
  <2>4. UncancelledRuns'
    BY <1>1, <1>2, <2>1, <2>2 DEF Moved, UncancelledRuns, supVars, Spawned
  <2>5. RunningIsKept'
    BY <1>1, <1>2, <2>1 DEF Moved, RunningIsKept, supVars, Crashed
  <2>6. CrashOfDeadHost' /\ WarmPlaces'
    BY <1>1, <1>2, <2>1 DEF Moved, CrashOfDeadHost, WarmPlaces, Crashing, supVars, Crashed, Lifeless
  <2>. QED
    BY <2>1, <2>3, <2>4, <2>5, <2>6 DEF Moved, Contained
<1>8. CASE CrashOfWarmCore(g)
  <2>1. PICK to \in {"to_stopped", "policy"} : MonitorAt(g, "warm", to)
    BY <1>8 DEF CrashOfWarmCore
  <2>2. Moved("warm", to) /\ warmIdle' = FALSE /\ UNCHANGED <<procVars, sup, restartCount>>
    BY <1>3, <1>8, <2>1 DEF CrashOfWarmCore, SmonType, Lifeless
  <2>3. OldAreCancelled' /\ UncancelledRuns' /\ OneRestart'
    BY <1>1, <1>2, <2>2 DEF Moved, OldAreCancelled, UncancelledRuns, OneRestart, procVars, Crashed, Lifeless, Counted
  <2>4. RunningIsKept'
    BY <1>1, <1>2, <2>2 DEF Moved, RunningIsKept, procVars, Crashed
  <2>5. CrashOfDeadHost' /\ WarmPlaces'
    BY <1>1, <1>2, <2>2 DEF Moved, CrashOfDeadHost, WarmPlaces, Crashing, Crashed, Lifeless
  <2>. QED
    BY <2>2, <2>3, <2>4, <2>5 DEF Moved, Contained
<1>9. CASE CrashPolicy(g)
  <2>1. PICK to \in {"to_failed", "exhausted", "to_dirty"} : MonitorAt(g, "policy", to)
    BY <1>9 DEF CrashPolicy
  <2>2. Moved("policy", to) /\ UNCHANGED <<procVars, sup, warmIdle>> /\ restartCount' \in {restartCount, restartCount + 1}
    BY <1>3, <1>9, <2>1 DEF CrashPolicy, SmonType, Lifeless
  <2>3. OldAreCancelled' /\ UncancelledRuns'
    BY <1>1, <1>2, <2>2 DEF Moved, OldAreCancelled, UncancelledRuns, procVars, Crashed, Lifeless
  <2>4. RunningIsKept'
    BY <1>1, <1>2, <2>2 DEF Moved, RunningIsKept, procVars, Crashed
  <2>5. CrashOfDeadHost' /\ WarmPlaces'
    BY <1>1, <1>2, <2>2 DEF Moved, CrashOfDeadHost, WarmPlaces, Crashing, Crashed, Lifeless
  <2>6. OneRestart'
    <3>1. restartCount = 0
      BY <1>1, <2>2 DEF OneRestart, Moved, Counted
    <3>. QED
      BY <1>1, <1>2, <2>2, <3>1 DEF OneRestart, Moved, Counted
  <2>. QED
    BY <2>2, <2>3, <2>4, <2>5, <2>6 DEF Moved, Contained
<1>10. CASE CrashSettles(g)
  <2>1. PICK from \in {"to_stopped", "to_failed", "to_dirty", "exhausted"}, to \in {"gone", "backoff", "to_failed"} :
          MonitorAt(g, from, to)
    BY <1>10 DEF CrashSettles
  <2>2. Moved(from, to) /\ sup' \in {"stopped", "failed", "dirty"} /\ UNCHANGED <<procVars, warmIdle, restartCount>>
    BY <1>3, <1>10, <2>1 DEF CrashSettles, SmonType, Lifeless
  <2>3. g \in cancelled /\ ~warmIdle /\ host.state # "running"
    BY <1>1, <2>2 DEF Moved, OldAreCancelled, CrashOfDeadHost, Crashing, Crashed
  <2>4. OldAreCancelled' /\ UncancelledRuns'
    BY <1>1, <1>2, <2>2, <2>3 DEF Moved, OldAreCancelled, UncancelledRuns, procVars, Crashed, Lifeless
  <2>5. RunningIsKept'
    BY <2>2 DEF RunningIsKept
  <2>6. CrashOfDeadHost' /\ WarmPlaces'
    BY <1>1, <1>2, <2>2, <2>3 DEF Moved, CrashOfDeadHost, WarmPlaces
  <2>7. OneRestart'
    BY <1>1, <1>2, <2>2 DEF OneRestart, Moved, Counted
  <2>. QED
    BY <2>2, <2>4, <2>5, <2>6, <2>7 DEF Moved, Contained
<1>11. CASE BackoffEnds(g)
  <2>1. Moved("backoff", "gone") /\ UNCHANGED <<procVars, supVars>>
    BY <1>3, <1>11 DEF BackoffEnds, SmonType, Lifeless
  <2>2. OldAreCancelled' /\ UncancelledRuns' /\ OneRestart'
    BY <1>1, <1>2, <2>1 DEF Moved, OldAreCancelled, UncancelledRuns, OneRestart, procVars, supVars, Crashed,
       Lifeless, Counted
  <2>3. RunningIsKept'
    BY <1>1, <1>2, <2>1 DEF Moved, RunningIsKept, procVars, supVars, Crashed
  <2>4. CrashOfDeadHost' /\ WarmPlaces'
    BY <1>1, <1>2, <2>1 DEF Moved, CrashOfDeadHost, WarmPlaces, Crashing, supVars, Crashed, Lifeless
  <2>. QED
    BY <2>1, <2>2, <2>3, <2>4 DEF Moved, Contained
<1>. QED
  BY <1>4, <1>5, <1>6, <1>7, <1>8, <1>9, <1>10, <1>11 DEF Monitor

-----------------------------------------------------------------------------
(* The theorems.                                                           *)

LEMMA InitiallyContained ==
  ASSUME Init
  PROVE  Contained
<1>1. /\ started = 0 /\ cancelled = {} /\ restartCount = 0 /\ warmIdle = FALSE /\ sup = "stopped"
      /\ api.pc = "idle" /\ api.job = "none"
      /\ \A g \in Gens : g > 0 /\ smon[g] = "none" /\ proc[g] = "none"
  BY DEF Init, Gens
<1>2. OneMonitor /\ OldAreCancelled /\ CrashOfDeadHost
  BY <1>1 DEF OneMonitor, OldAreCancelled, CrashOfDeadHost, Crashing, Lifeless, Crashed, BeforeSpawn, Spawned,
     StopWork, Gens
<1>3. UncancelledRuns /\ RunningIsKept /\ WarmPlaces /\ OneRestart
  BY <1>1 DEF UncancelledRuns, RunningIsKept, WarmPlaces, OneRestart, BeforeSpawn, Spawned
<1>. QED
  BY <1>2, <1>3 DEF Contained

LEMMA ContainedKept ==
  ASSUME Prompt, PromptInv, [Next]_vars
  PROVE  Contained'
<1>1. CASE Requests \/ Return
  BY <1>1, RequestsContain
<1>2. CASE StopStep
  BY <1>2, StopsContain
<1>3. CASE StartStep
  BY <1>3, StartsContain
<1>4. ASSUME NEW g \in Gens, Exit(g) \/ HostMonitor(g) \/ Monitor(g)
      PROVE  Contained'
  BY <1>4, HostMonitorsContain, MonitorContains
<1>5. CASE UNCHANGED vars
  BY <1>5 DEF PromptInv, vars, procVars, supVars, Contained, OneMonitor, OldAreCancelled, UncancelledRuns,
     RunningIsKept, CrashOfDeadHost, WarmPlaces, OneRestart, Crashing
<1>6. CASE \E g \in Gens : Exit(g) \/ HostMonitor(g) \/ Monitor(g)
  BY <1>4, <1>6
<1>. QED
  BY <1>1, <1>2, <1>3, <1>5, <1>6 DEF Next, Caller, StopStep, StartStep

(* With prompt monitors the whole of PromptInv holds of every behaviour.   *)
THEOREM PromptInvariant ==
  ASSUME Prompt
  PROVE  Spec => []PromptInv
<1>1. Init => PromptInv
  BY InitiallyLate, InitiallyContained DEF PromptInv
<1>2. PromptInv /\ [Next]_vars => PromptInv'
  BY LateKept, ContainedKept DEF PromptInv
<1>. QED
  BY <1>1, <1>2, PTL DEF Spec

LEMMA LateTypes ==
  ASSUME LateInv
  PROVE  /\ restartCount \in 0 .. MaxStarts
         /\ restartCount \in 0 .. (IF Prompt THEN 1 ELSE MaxStarts) => TypeOK
<1>1. CoreTypes
  BY DEF LateInv
<1>2. restartCount \in 0 .. MaxStarts
  <2>. DEFINE counted == {g \in Gens : smon[g] \in Counted}
  <2>1. Cardinality(counted) \in Nat /\ Cardinality(counted) <= MaxStarts
    BY PastIsFinite
  <2>2. restartCount \in Nat /\ restartCount <= Cardinality(counted)
    BY DEF LateInv, CoreTypes, CountIsOfMonitors
  <2>. HIDE DEF counted
  <2>. QED
    BY <2>1, <2>2, MaxStartsAssumption
<1>3. host \in [state : HostStates, exit : 0 .. MaxStarts, cmd : BOOLEAN]
      /\ hmon \in [Gens -> [at : {"none", "fresh", "waiting", "woken", "gone"}, exit : 0 .. MaxStarts]]
  BY <1>1 DEF CoreTypes, HostType, HmonType
<1>4. smon \in [Gens -> {"none", "watching", "checking", "crash", "warm", "to_stopped",
                         "policy", "to_failed", "to_dirty", "exhausted", "backoff", "gone"}]
      /\ api \in [pc : Steps, job : Jobs \cup {"none"}, seen : States]
  BY <1>1 DEF CoreTypes, SmonType, Api
<1>. QED
  BY <1>1, <1>2, <1>3, <1>4 DEF CoreTypes, TypeOK

(* The supervisor and the host keep their types, for every number of       *)
(* starts: in particular handleCrash counts at most one restart per core,  *)
(* and, with prompt monitors, never more than one.                         *)
THEOREM TypeCorrect == Spec => []TypeOK
<1>1. CASE Prompt
  <2>1. PromptInv => TypeOK
    <3>1. PromptInv => LateInv /\ restartCount \in 0 .. 1
      BY DEF PromptInv, Contained, OneRestart
    <3>. QED
      BY <1>1, <3>1, LateTypes
  <2>2. Spec => []PromptInv
    BY <1>1, PromptInvariant
  <2>. QED
    BY <2>1, <2>2, PTL
<1>2. CASE ~Prompt
  <2>1. LateInv => TypeOK
    BY <1>2, LateTypes
  <2>. QED
    BY <2>1, LateInvariant, PTL
<1>. QED
  BY <1>1, <1>2

(* With prompt monitors no core escapes its supervisor: the one that lives *)
(* is the one the next Stop reaches, it is shown as running and watched    *)
(* between requests, and the warm flag does not outlive it.                *)
THEOREM NoCoreEscapes ==
  ASSUME Prompt
  PROVE  Spec => []CoreContained
<1>1. ASSUME PromptInv
      PROVE  CoreContained
  <2>1. /\ OneMonitor /\ OldAreCancelled /\ UncancelledRuns /\ RunningIsKept /\ WarmPlaces
        /\ cancelOf = started /\ started \in Nat /\ Gens \subseteq Nat /\ 0 \notin Gens
    BY <1>1, GenFacts DEF PromptInv, LateInv, Contained
  <2>2. LiveCoreIsOwned
    <3>1. ASSUME NEW g \in Gens, Live(g)
          PROVE  g = started
      <4>1. ~(g < started) /\ ~(g > started)
        BY <2>1, <3>1 DEF Live, Condemned, OldAreCancelled, UncancelledRuns
      <4>2. g \in Nat /\ started \in Nat
        BY <2>1
      <4>. QED
        BY <4>1, <4>2
    <3>. QED
      BY <2>1, <3>1 DEF LiveCoreIsOwned
  <2>3. NoCoreBehindTheState
    BY <2>1, <2>2 DEF NoCoreBehindTheState, LiveCoreIsOwned, Live, Condemned, Quiet, UncancelledRuns, Spawned
  <2>4. RunningIsWatched
    <3>1. ASSUME Quiet, sup = "running"
          PROVE  smon[started] \in {"watching", "checking"}
      <4>1. started \in Gens
        BY <1>1, <2>1, <3>1, GenFacts DEF RunningIsKept, PromptInv, LateInv
      <4>2. ~Crashing(started) /\ api.pc = "idle"
        BY <3>1, <4>1 DEF Quiet
      <4>. QED
        BY <2>1, <3>1, <4>2 DEF RunningIsKept, Crashing, Crashed
    <3>. QED
      BY <2>1, <3>1 DEF RunningIsWatched
  <2>5. BackoffIsCancelled
    BY <2>1 DEF BackoffIsCancelled, OldAreCancelled, Crashed
  <2>6. WarmOnlyWhileRunning
    BY <2>1 DEF WarmOnlyWhileRunning, WarmPlaces
  <2>. QED
    BY <2>2, <2>3, <2>4, <2>5, <2>6 DEF CoreContained
<1>2. PromptInv => CoreContained
  BY <1>1
<1>3. Spec => []PromptInv
  BY PromptInvariant
<1>. QED
  BY <1>2, <1>3, PTL

(* What a step that is not a request's can do to a warm core.              *)
LEMMA WarmStays ==
  ASSUME PromptInv, [Next]_vars, warmIdle, suppressed' = suppressed, api' = api
  PROVE  restartCount' = restartCount /\ sup' \notin {"dirty", "failed"}
<1>1. /\ CrashOfDeadHost /\ WarmPlaces /\ api \in Api /\ CoreTypes
      /\ sup \in {"running", "stopping", "stopped"}
  BY DEF PromptInv, LateInv, Contained, CoreTypes, WarmPlaces
<1>2. CASE UNCHANGED vars
  BY <1>1, <1>2 DEF vars, supVars
<1>3. CASE Requests \/ Return
  BY <1>1, <1>3, RequestsLead
<1>4. CASE StopGuard \/ StopBegin \/ StopMark \/ SwapBegin \/ HostStop \/ HostStopWait \/ StopDone
  BY <1>1, <1>4 DEF StopGuard, StopBegin, StopMark, SwapBegin, HostStop, HostStopWait, StopDone, supVars
<1>5. CASE StopFailed
  <2>1. AfterFailedStop => api'.pc # "stop_failed"
    BY <1>1, AfterFailedStopLeads
  <2>. QED
    BY <1>5, <2>1 DEF StopFailed
<1>6. CASE StartStep
  <2>1. api.pc # "start" /\ api.pc \notin BeforeSpawn \cup Spawned
    <3>1. AfterFailedStart => api'.pc # api.pc \/ api'.job # api.job
      <4>1. api.pc # "refused"
        BY <1>1, <1>6, StartsLead DEF BeforeSpawn, Spawned
      <4>. QED
        BY <1>1, <4>1, AfterFailedStartLeads
    <3>2. ASSUME NEW pc \in Steps, Goto(pc), pc # api.pc
          PROVE  FALSE
      BY <1>1, <3>2, GotoLeads
    <3>3. api' = [api EXCEPT !.job = "rollback", !.pc = "guard"] => api'.pc = "guard"
      BY <1>1 DEF Api
    <3>. QED
      BY <1>6, <3>1, <3>2, <3>3 DEF StartStep, StartBegin, StartReconcile, StartReconciled, StartCore, HostStart,
         StartDone, StartFailed, Steps
  <2>. QED
    BY <1>1, <1>6, <2>1, StartsLead
<1>7. ASSUME NEW g \in Gens, Exit(g) \/ HostMonitor(g) \/ Monitor(g)
      PROVE  restartCount' = restartCount /\ sup' \notin {"dirty", "failed"}
  <2>1. ~CrashPolicy(g) /\ (CrashSettles(g) => FALSE)
    BY <1>1 DEF CrashOfDeadHost, CrashPolicy, CrashSettles, MonitorAt, Crashed
  <2>. QED
    BY <1>1, <1>7, <2>1 DEF Exit, HostMonitor, HostMonitorReads, HostMonitorWakes, HostMonitorMarks, Monitor,
       MonitorStops, MonitorTicks, MonitorChecks, CrashCancels, CrashOfWarmCore, BackoffEnds, supVars
<1>8. CASE \E g \in Gens : Exit(g) \/ HostMonitor(g) \/ Monitor(g)
  BY <1>7, <1>8
<1>. QED
  BY <1>2, <1>3, <1>4, <1>5, <1>6, <1>8 DEF Next, Caller, StartStep

(* With prompt monitors the crash of a core retained warm spends no        *)
(* restart budget and leaves neither a failed nor a dirty supervisor       *)
(* (SetWarmIdle, handleCrash).                                             *)
THEOREM WarmLossSpendsNothing ==
  ASSUME Prompt
  PROVE  Spec => WarmLossIsQuiet
<1>1. PromptInv /\ [Next]_vars
        => [warmIdle /\ suppressed' = suppressed /\ api' = api
              => restartCount' = restartCount /\ sup' \notin {"dirty", "failed"}]_vars
  BY WarmStays
<1>2. Spec => []PromptInv
  BY PromptInvariant
<1>. QED
  BY <1>1, <1>2, PTL DEF Spec, WarmLossIsQuiet

=============================================================================
