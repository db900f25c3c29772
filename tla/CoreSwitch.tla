------------------------------ MODULE CoreSwitch ------------------------------
(***************************************************************************)
(* core.select in the Service (internal/service/service.go,                *)
(* handleCoreSelect).  Under captureMu the Service stops the supervisor of *)
(* the old core, makes a host and a supervisor for the new one, compiles a *)
(* configuration in its language, records it, starts and commits it; what  *)
(* fails is undone step by step.  How capture starts and stops a core is   *)
(* one step here: RuntimeConfig, CoreSupervisor and TunSession detail it.  *)
(***************************************************************************)
EXTENDS Naturals

CONSTANTS
    Kernels,            \* the cores that can be selected
    BasicKernel,        \* sing-box, the core of a Service whose own is not installed any more
    MaxVersions,        \* bound: configurations compiled
    MaxSwitchFaults     \* bound: steps that fail, deaths of the Service

ASSUME SwitchAssumption == BasicKernel \in Kernels /\ MaxVersions \in Nat /\ MaxSwitchFaults \in Nat

VARIABLES
    picked,         \* s.host and s.sup
    sup,            \* the state of the supervisor of each core
    alive,          \* the cores that have a process
    loaded,         \* the configuration that each supervisor was last started with
    memory, disk,   \* the runtime state: core, revision and its status; in memory and in runtime_state.json
    configured,     \* s.cfg.ConfigPath
    kept,           \* the configuration files that exist
    fits,           \* the core that each configuration was compiled for
    warm,           \* the core idles under the warm lease
    switch,         \* the handler that holds captureMu
    versions, switchFaults

switchVars == <<picked, sup, alive, loaded, memory, disk, configured, kept, fits, warm, switch, versions, switchFaults>>

\* Version 0 is the bootstrap file of the launcher.
Versions == 0 .. MaxVersions
States == [core : Kernels, version : Versions, status : {"candidate", "active"}]
NoSwitch == [step |-> "none", target |-> "none", before |-> "none", ran |-> FALSE, stopFailed |-> FALSE, answer |-> "none"]

SwitchInit ==
    /\ \E k \in Kernels :
         /\ picked = k /\ fits = [v \in Versions |-> k]
         /\ memory = [core |-> k, version |-> 0, status |-> "candidate"]
    /\ disk = memory /\ configured = 0 /\ kept = {0} /\ alive = {} /\ warm = FALSE
    /\ sup = [k \in Kernels |-> "stopped"] /\ loaded = [k \in Kernels |-> 0]
    /\ switch = NoSwitch /\ versions = 0 /\ switchFaults = 0

-----------------------------------------------------------------------------
StepFails == switchFaults < MaxSwitchFaults /\ switchFaults' = switchFaults + 1
StepWorks == UNCHANGED switchFaults
SwitchTo(step) == switch' = [switch EXCEPT !.step = step]
SwitchAnswers(answer) == switch' = [switch EXCEPT !.step = "none", !.answer = answer]
Resting == switch.step = "none"

\* State() says running until the monitor looks: "dead" is a core that it has not missed yet.
SaysUp(k) == sup[k] \in {"running", "dead"}

\* applyRuntimeConfigLocked compiles in the language of s.runtime.CoreID.
Compiled(k) ==
    /\ versions < MaxVersions /\ versions' = versions + 1
    /\ fits' = [fits EXCEPT ![versions + 1] = k]

CandidateOf(version) == [memory EXCEPT !.version = version, !.status = "candidate"]

\* cleanupGeneratedRuntimeFiles after a record on a stopped core.
FilesAfter(version) == {version} \cup (IF memory.status = "active" THEN {configured} ELSE {})

StartUp(k, version) ==
    /\ sup' = [sup EXCEPT ![k] = "running"] /\ alive' = alive \cup {k} /\ loaded' = [loaded EXCEPT ![k] = version]

-----------------------------------------------------------------------------
(* core.select *)

\* handleCoreSelect up to the exchange of host and supervisor.  Only a running core is
\* stopped; the supervisor of another state is dropped as it is.
BeginSelect(target) ==
    /\ Resting /\ target # picked
    /\ LET ran == SaysUp(picked)
           job == [step |-> "compile", target |-> target, answer |-> "none", ran |-> ran, stopFailed |-> FALSE,
                   before |-> [picked |-> picked, memory |-> memory, configured |-> configured]]
       IN \/ /\ StepWorks /\ switch' = job
             /\ sup' = [sup EXCEPT ![picked] = IF ran THEN "stopped" ELSE @, ![target] = "stopped"]
             /\ alive' = IF ran THEN alive \ {picked} ELSE alive
             /\ picked' = target /\ memory' = [memory EXCEPT !.core = target] /\ warm' = FALSE
          \/ /\ ran /\ StepFails /\ switch' = [job EXCEPT !.step = "none", !.stopFailed = TRUE, !.answer = "failed"]
             /\ sup' = [sup EXCEPT ![picked] = "failed"] /\ warm' = FALSE
             /\ UNCHANGED <<alive, picked, memory>>
    /\ UNCHANGED <<loaded, disk, configured, kept, fits, versions>>

CompileNext ==
    /\ switch.step = "compile"
    /\ \/ StepWorks /\ Compiled(memory.core) /\ kept' = kept \cup {versions + 1} /\ SwitchTo("record")
       \/ StepFails /\ SwitchTo("restore") /\ UNCHANGED <<versions, fits, kept>>
    /\ UNCHANGED <<picked, sup, alive, loaded, memory, disk, configured, warm>>

RecordNext ==
    /\ switch.step = "record"
    /\ \/ /\ StepWorks /\ memory' = CandidateOf(versions) /\ disk' = memory' /\ configured' = versions
          /\ kept' = kept \cap FilesAfter(versions)
          /\ IF switch.ran THEN SwitchTo("launch") ELSE SwitchAnswers("ok")
       \/ StepFails /\ SwitchTo("restore") /\ kept' = kept \ {versions} /\ UNCHANGED <<memory, disk, configured>>
    /\ UNCHANGED <<picked, sup, alive, loaded, fits, warm, versions>>

LaunchNext ==
    /\ switch.step = "launch"
    /\ \/ StepWorks /\ StartUp(picked, configured) /\ SwitchTo("commit")
       \/ StepFails /\ SwitchTo("restore") /\ sup' = [sup EXCEPT ![picked] = "failed"] /\ UNCHANGED <<alive, loaded>>
    /\ UNCHANGED <<picked, memory, disk, configured, kept, fits, warm, versions>>

\* commitHealthyRuntimeLocked; nothing is probed here.
CommitNext ==
    /\ switch.step = "commit"
    /\ \/ /\ StepWorks /\ SwitchAnswers("ok")
          /\ memory' = [memory EXCEPT !.status = "active"] /\ disk' = memory' /\ kept' = kept \cap {configured}
       \/ StepFails /\ SwitchTo("restore") /\ UNCHANGED <<memory, disk, kept>>
    /\ UNCHANGED <<picked, sup, alive, loaded, configured, fits, warm, versions>>

\* restorePrevious: the replacement is stopped, by force if need be.
StopReplacement ==
    /\ switch.step = "restore"
    /\ \/ StepWorks /\ SwitchTo("giveBack") /\ sup' = [sup EXCEPT ![picked] = "stopped"] /\ alive' = alive \ {picked}
       \/ /\ sup[picked] # "stopped" /\ StepFails /\ SwitchAnswers("failed")
          /\ sup' = [sup EXCEPT ![picked] = "failed"] /\ UNCHANGED alive
    /\ UNCHANGED <<picked, loaded, memory, disk, configured, kept, fits, warm, versions>>

\* Memory, host and path go back, and are saved as far as that works.
GiveBack ==
    /\ switch.step = "giveBack" /\ SwitchTo("startAgain")
    /\ picked' = switch.before.picked /\ memory' = switch.before.memory /\ configured' = switch.before.configured
    /\ \/ StepWorks /\ disk' = memory'
       \/ StepFails /\ UNCHANGED disk
    /\ UNCHANGED <<sup, alive, loaded, kept, fits, warm, versions>>

\* The previous core runs again with the previous file, if it is still there.
StartAgain ==
    /\ switch.step = "startAgain" /\ SwitchAnswers("failed")
    /\ IF ~switch.ran THEN StepWorks /\ UNCHANGED <<sup, alive, loaded>>
       ELSE \/ configured \in kept /\ StepWorks /\ StartUp(picked, configured)
            \/ /\ IF configured \in kept THEN StepFails ELSE StepWorks
               /\ sup' = [sup EXCEPT ![picked] = "failed"] /\ UNCHANGED <<alive, loaded>>
    /\ UNCHANGED <<picked, memory, disk, configured, kept, fits, warm, versions>>

-----------------------------------------------------------------------------
(* What else moves the core *)

\* capture.prepare compiles for the core of the Service, starts and commits it.
CaptureUp ==
    /\ Resting /\ sup[picked] \in {"stopped", "failed"} /\ Compiled(memory.core)
    /\ memory' = [core |-> memory.core, version |-> versions + 1, status |-> "active"] /\ disk' = memory'
    /\ configured' = versions + 1 /\ kept' = {versions + 1} /\ StartUp(picked, versions + 1)
    /\ switch' = NoSwitch /\ StepWorks /\ UNCHANGED <<picked, warm>>

\* Capture off keeps a core warm, or stops it.
CaptureDown ==
    /\ Resting /\ SaysUp(picked) /\ ~warm /\ switch' = NoSwitch /\ StepWorks
    /\ \/ sup[picked] = "running" /\ warm' = TRUE /\ UNCHANGED <<sup, alive>>
       \/ sup' = [sup EXCEPT ![picked] = "stopped"] /\ alive' = alive \ {picked} /\ UNCHANGED warm
    /\ UNCHANGED <<picked, loaded, memory, disk, configured, kept, fits, versions>>

KernelDies(k) ==
    /\ sup[k] = "running" /\ sup' = [sup EXCEPT ![k] = "dead"] /\ alive' = alive \ {k} /\ StepWorks
    /\ UNCHANGED <<picked, loaded, memory, disk, configured, kept, fits, warm, switch, versions>>

\* handleCrash: a warm core is just gone; otherwise the supervisor stays dirty.
KernelMissed(k) ==
    /\ sup[k] = "dead" /\ StepWorks
    /\ sup' = [sup EXCEPT ![k] = IF warm /\ k = picked THEN "stopped" ELSE "dirty"] /\ warm' = (warm /\ k # picked)
    /\ UNCHANGED <<picked, alive, loaded, memory, disk, configured, kept, fits, switch, versions>>

\* New makes the host of the persisted core, or of sing-box when that one has gone.
BootKernels == {disk.core, BasicKernel}

\* The Service dies with its cores, and starts again; a configuration is always compiled
\* first, so that the bootstrap file is never given to another core.
ServiceRestarts(k) ==
    /\ StepFails /\ k \in BootKernels /\ picked' = k /\ alive' = {} /\ warm' = FALSE
    /\ sup' = [j \in Kernels |-> "stopped"] /\ Compiled(k)
    /\ memory' = [core |-> k, version |-> versions + 1, status |-> "candidate"] /\ disk' = memory'
    /\ configured' = versions + 1 /\ kept' = {versions + 1}
    /\ switch' = NoSwitch /\ UNCHANGED loaded

SwitchNext ==
    \/ \E k \in Kernels : BeginSelect(k) \/ KernelDies(k) \/ KernelMissed(k) \/ ServiceRestarts(k)
    \/ CompileNext \/ RecordNext \/ LaunchNext \/ CommitNext
    \/ StopReplacement \/ GiveBack \/ StartAgain
    \/ CaptureUp \/ CaptureDown

-----------------------------------------------------------------------------
(* Properties *)

SwitchTypeOK ==
    /\ picked \in Kernels /\ alive \subseteq Kernels /\ loaded \in [Kernels -> Versions]
    /\ sup \in [Kernels -> {"stopped", "running", "dead", "failed", "dirty"}]
    /\ memory \in States /\ disk \in States /\ configured \in Versions /\ kept \subseteq Versions
    /\ fits \in [Versions -> Kernels] /\ warm \in BOOLEAN
    /\ versions \in Versions /\ switchFaults \in 0 .. MaxSwitchFaults

\* No core ever runs a file that was compiled for another one, also after an undone
\* switch and a restart in the middle of one (service.go:310-315, 826-838).
FileFitsCore == \A k \in Kernels : SaysUp(k) => fits[loaded[k]] = k

\* A switch that fails once leaves host, memory, disk and path as they were, and the old
\* core running again if it ran and could be stopped (service.go:795-820).
SwitchIsUndone ==
    Resting /\ switch.answer = "failed" /\ switchFaults <= 1 /\ ~switch.stopFailed =>
        /\ picked = switch.before.picked /\ configured = switch.before.configured
        /\ memory = switch.before.memory /\ disk = memory
        /\ switch.ran => sup[picked] \in {"running", "dead", "dirty"} /\ loaded[picked] = configured

\* As long as no stop has failed, a core whose supervisor was dropped has no process
\* (service.go:790, 821-827).
NoDroppedCoreLives == switchFaults = 0 => alive \subseteq {picked}
=============================================================================
