---------------------------- MODULE RuntimeConfig ----------------------------
(***************************************************************************)
(* The runtime configuration of the Service (internal/service/runtime.go,  *)
(* warm_lease.go, capture_transition.go).  A mutation compiles a candidate *)
(* revision into a file, gives it to the running core, records it, probes  *)
(* it and commits it, or goes back to what was configured before.  A       *)
(* revision is kept in four places that must agree: the running core, the  *)
(* memory of the Service, runtime_state.json and the revision repository.  *)
(* After the system proxy is switched off the core may stay warm under a   *)
(* lease.  Handlers hold captureMu: one operation at a time; the core and  *)
(* the Service may die between any two steps.                              *)
(***************************************************************************)
EXTENDS Naturals, FiniteSets

CONSTANTS
    Nodes,              \* the outbounds of the sources
    NoNode,             \* no outbound
    Policies,           \* routing modes, or list modes with their rules
    MaxRevisions,       \* bound: candidates compiled
    MaxRuntimeFaults    \* bound: steps that fail, deaths of the core or the Service

ASSUME RuntimeAssumption ==
    NoNode \notin Nodes /\ MaxRevisions \in Nat /\ MaxRuntimeFaults \in Nat

VARIABLES
    runtime,    \* s.runtime: the state in memory
    saved,      \* runtime_state.json
    path,       \* s.cfg.ConfigPath: the revision a start would use
    files,      \* the generated configuration files, by revision
    holds,      \* what each revision was compiled from
    marked,     \* the ActiveRevision of the repository
    core,       \* the supervised core and the revision it was started with
    lease,      \* the warm lease: remembered identity, and whether the core idles under it
    job, at,    \* the operation that holds captureMu, and its next step
    reply,      \* the answer to the last operation
    proven,     \* history: the contents a probe has confirmed
    revisions, runtimeFaults

runtimeVars == <<runtime, saved, path, files, holds, marked, core, lease, job, at, reply, proven, revisions, runtimeFaults>>

\* Revision 0 is the bootstrap configuration of the launcher.
Revisions == 0 .. MaxRevisions
Contents == [node : Nodes, policy : Policies]
RuntimeStates == [node : Nodes, policy : Policies, active : Nodes \cup {NoNode},
                  status : {"candidate", "active"}, revision : Revisions, known : Revisions]
Kinds == {"select", "mode", "list", "proxy", "tun", "off", "boot"}
Mutations == {"select", "mode", "list"}
NoLease == [revision |-> 0, same |-> FALSE, idle |-> FALSE]

\* activeOutboundID: a candidate is never taken for the active outbound.
activeOutboundID(state) ==
    IF state.active # NoNode THEN state.active
    ELSE IF state.status # "candidate" THEN state.node ELSE NoNode

RuntimeInit ==
    /\ \E n \in Nodes, p \in Policies :
         /\ runtime = [node |-> n, policy |-> p, active |-> n, status |-> "active", revision |-> 0, known |-> 0]
         /\ holds = [r \in Revisions |-> [node |-> n, policy |-> p]]
         /\ proven = {[node |-> n, policy |-> p]}
         /\ job = [kind |-> "boot", node |-> n, policy |-> p, before |-> runtime, ran |-> FALSE, warm |-> FALSE, swapped |-> FALSE, undo |-> FALSE]
    /\ saved = runtime /\ path = 0 /\ files = {0} /\ marked = 0
    /\ core = [state |-> "stopped", file |-> 0, tun |-> FALSE]
    /\ lease = NoLease /\ at = "idle" /\ reply = "none"
    /\ revisions = 0 /\ runtimeFaults = 0

-----------------------------------------------------------------------------
(* Helpers *)

Breaks == runtimeFaults < MaxRuntimeFaults /\ runtimeFaults' = runtimeFaults + 1
Holds == UNCHANGED runtimeFaults

Goes(next) == at' = next /\ UNCHANGED reply
Replies(answer) == at' = "idle" /\ reply' = answer

\* Supervisor.State() says running until the monitor's next poll; "dead" is a
\* core whose exit it has not noticed yet.
Running == core.state \in {"running", "dead"}
Restarted(file) == [core EXCEPT !.state = "running", !.file = file]
Stopped == [state |-> "stopped", file |-> core.file, tun |-> FALSE]

\* currentSystemProxyWarmIdentity: only a running, active, settled revision has one.
HasIdentity ==
    /\ Running /\ ~core.tun /\ runtime.status = "active"
    /\ activeOutboundID(runtime) = runtime.node

\* activeMatches and reusable: the remembered identity is still the present one.
LeaseMatches == HasIdentity /\ lease.same /\ lease.revision = runtime.revision
OtherProcess == [lease EXCEPT !.same = FALSE]

\* What the next candidate is compiled from.
Wanted == [node |-> job.node, policy |-> job.policy]

\* A failed capture is rolled back by stopping the core; a mutation of the lists
\* takes its change of the memory back; the others have changed nothing yet.
GiveUp(recovered, lost) ==
    /\ Replies(IF job.kind = "boot" THEN "down" ELSE "failed")
    /\ runtime' = IF job.kind = "list" /\ ~job.undo THEN [recovered EXCEPT !.policy = job.before.policy] ELSE recovered
    /\ core' = IF job.kind \in {"proxy", "tun", "off"} THEN Stopped ELSE lost

\* Mutant: the lists are not restored before the configuration is compiled again.
UndoForgetful ==
    /\ job' = [job EXCEPT !.undo = TRUE,
               !.node = IF job.kind = "select" THEN activeOutboundID(job.before) ELSE runtime.node]
    /\ Goes("prepare") /\ UNCHANGED <<runtime, core>>

\* A failed probe or commit of a mutation: compile what was there before.
Undo ==
    /\ job' = [job EXCEPT !.undo = TRUE, !.policy = job.before.policy,
               !.node = IF job.kind = "select" THEN activeOutboundID(job.before) ELSE runtime.node]
    /\ runtime' = IF job.kind = "list" THEN [runtime EXCEPT !.policy = job.before.policy] ELSE runtime
    /\ Goes("prepare") /\ UNCHANGED core

-----------------------------------------------------------------------------
(* Operations *)

\* Every mutation takes captureMu and waits for a core that is running or stopped.
Admitted(kind, n, p) ==
    /\ at = "idle" /\ reply # "down" /\ core.state \notin {"dirty", "failed"}
    /\ job' = [kind |-> kind, node |-> n, policy |-> p, before |-> runtime,
               ran |-> Running, warm |-> lease.idle, swapped |-> FALSE, undo |-> FALSE]
    /\ UNCHANGED <<saved, path, files, holds, marked, core, lease, proven, revisions>>

\* A pinned TUN endpoint cannot be changed under the running core.
handleOutboundSelect(n) ==
    /\ Admitted("select", n, runtime.policy) /\ Holds /\ UNCHANGED runtime
    /\ IF Running /\ core.tun /\ activeOutboundID(runtime) # n THEN Replies("refused") ELSE Goes("prepare")

\* currentOutboundsWithTUNPin: under TUN the outbound must still be the planned one.
PinLost == core.tun /\ Running /\ Breaks /\ Replies("failed") /\ UNCHANGED runtime

handleRuntimeModeSet(p) ==
    /\ Admitted("mode", runtime.node, p)
    /\ \/ Goes("prepare") /\ Holds /\ UNCHANGED runtime
       \/ PinLost

\* The rules are changed in the memory before anything is compiled.
handleRuntimeRulesSet(p) ==
    /\ Admitted("list", runtime.node, p)
    /\ \/ Goes("prepare") /\ Holds /\ runtime' = [runtime EXCEPT !.policy = p]
       \/ PinLost

\* So is the list mode; one that is set already is answered at once.
handleRuntimeListModeSet(p) ==
    /\ Admitted("list", runtime.node, p) /\ p # runtime.policy
    /\ \/ Goes("prepare") /\ Holds /\ runtime' = [runtime EXCEPT !.policy = p]
       \/ PinLost

\* The wait ends with the request's deadline.
CoreNotReady ==
    /\ at = "idle" /\ reply # "down" /\ core.state \in {"dirty", "failed"} /\ Replies("refused")
    /\ Holds /\ UNCHANGED <<runtime, saved, path, files, holds, marked, core, lease, job, proven, revisions>>

\* resumeSystemProxyWarmLocked: the answer is the remembered verification.
Resume ==
    /\ at = "idle" /\ reply # "down" /\ lease.idle /\ LeaseMatches
    /\ lease' = [lease EXCEPT !.idle = FALSE] /\ Replies("ok")
    /\ Holds /\ UNCHANGED <<runtime, saved, path, files, holds, marked, core, job, proven, revisions>>

\* retainSystemProxyWarmLocked.
Retain ==
    /\ at = "idle" /\ reply # "down" /\ ~lease.idle /\ LeaseMatches
    /\ lease' = [lease EXCEPT !.idle = TRUE] /\ Replies("ok")
    /\ Holds /\ UNCHANGED <<runtime, saved, path, files, holds, marked, core, job, proven, revisions>>

\* The lease runs out, or the core is stopped with it.
Expire ==
    /\ at = "idle" /\ lease.idle /\ lease' = NoLease
    /\ \/ Holds /\ core' = Stopped
       \/ Breaks /\ UNCHANGED core
    /\ UNCHANGED <<runtime, saved, path, files, holds, marked, job, at, reply, proven, revisions>>

\* prepareCaptureLockedWithOptions without a lease that fits: the old core goes
\* first, then the configuration of the mode is compiled.  stopCoreForCapture takes
\* a dirty core for a busy one and refuses.
BeginCapture(kind) ==
    /\ at = "idle" /\ reply # "down" /\ (kind = "proxy" => ~(lease.idle /\ LeaseMatches))
    /\ job' = [kind |-> kind, node |-> runtime.node, policy |-> runtime.policy, before |-> runtime,
               ran |-> FALSE, warm |-> FALSE, swapped |-> FALSE, undo |-> FALSE]
    /\ lease' = NoLease
    /\ \/ core.state # "dirty" /\ Holds /\ core' = Stopped /\ Goes("prepare")
       \/ core.state # "dirty" /\ Breaks /\ core' \in {core, Stopped} /\ Replies("failed")
       \/ core.state = "dirty" /\ Holds /\ UNCHANGED core /\ Replies("failed")
    /\ UNCHANGED <<runtime, saved, path, files, holds, marked, proven, revisions>>

\* applyRuntimeConfigLocked up to SaveCandidate: a warm core is stopped first,
\* then the candidate is compiled, validated and entered as a candidate.
Prepare ==
    /\ at = "prepare" /\ revisions < MaxRevisions /\ job.node # NoNode
    /\ LET cold == IF lease.idle THEN Stopped ELSE core
           next == revisions + 1
       IN \/ /\ Holds /\ Goes("swap") /\ core' = cold
             /\ revisions' = next /\ holds' = [holds EXCEPT ![next] = Wanted]
             /\ files' = files \cup {next} /\ UNCHANGED runtime
          \/ /\ Breaks /\ GiveUp(runtime, cold) /\ UNCHANGED <<revisions, holds, files>>
    /\ lease' = IF lease.idle THEN NoLease ELSE lease
    /\ UNCHANGED <<saved, path, marked, job, proven>>

\* SwapConfig restarts the core with the candidate, and TUN ownership is bound
\* to the new adapter; a failure brings the previous configuration back.
Swap ==
    /\ at = "swap" /\ job' = [job EXCEPT !.swapped = Running]
    /\ IF Running
       THEN /\ lease' = OtherProcess
            /\ \/ /\ Holds /\ Goes("record") /\ core' = Restarted(revisions)
                  /\ UNCHANGED <<files, runtime>>
               \/ /\ Breaks /\ files' = files \ {revisions}
                  /\ \/ GiveUp(runtime, Restarted(path))
                     \/ GiveUp(runtime, [core EXCEPT !.state = "failed"])
       ELSE Holds /\ Goes("record") /\ UNCHANGED <<files, runtime, core, lease>>
    /\ UNCHANGED <<saved, path, holds, marked, proven, revisions>>

\* The record of a candidate: the active outbound stays what it was.
Candidate ==
    [runtime EXCEPT !.node = job.node, !.policy = job.policy, !.status = "candidate",
                    !.active = activeOutboundID(runtime), !.revision = revisions]

\* What cleanupGeneratedRuntimeFiles retains after the record.
RetainedFiles ==
    {revisions} \cup (IF job.swapped THEN {path, runtime.known}
                      ELSE IF runtime.status = "active" THEN {path} ELSE {})

\* Memory, path and runtime_state.json move to the candidate; when the write
\* fails the core goes back first and the memory follows it.
Record ==
    /\ at = "record"
    /\ \/ /\ Holds /\ runtime' = Candidate /\ saved' = Candidate /\ path' = revisions
          /\ files' = files \cap RetainedFiles
          /\ Goes(IF job.undo THEN "commit"
                  ELSE IF job.kind \in {"proxy", "tun"} THEN "launch"
                  ELSE IF job.ran THEN "verify" ELSE "end")
          /\ UNCHANGED <<core, lease>>
       \/ /\ Breaks /\ UNCHANGED <<saved, path>> /\ lease' = OtherProcess
          /\ files' = files \ {revisions}
          /\ GiveUp(runtime, IF job.swapped THEN Restarted(path) ELSE core)
    /\ UNCHANGED <<holds, marked, job, proven, revisions>>

\* startCoreForCapture.
Launch ==
    /\ at = "launch"
    /\ \/ /\ Holds /\ Goes("verify") /\ UNCHANGED runtime
          /\ core' = [state |-> "running", file |-> path, tun |-> job.kind = "tun"]
       \/ Breaks /\ GiveUp(runtime, Stopped)
    /\ UNCHANGED <<saved, path, files, holds, marked, lease, job, proven, revisions>>

\* verifyActiveRuntimeRouting probes through the local port of the core.
Verify ==
    /\ at = "verify"
    /\ \/ /\ core.state = "running" /\ Holds /\ Goes("commit") /\ proven' = proven \cup {holds[core.file]}
          /\ UNCHANGED <<job, runtime, core>>
       \/ /\ IF core.state = "running" THEN Breaks ELSE Holds
          /\ UNCHANGED proven
          /\ IF job.kind \in Mutations THEN Undo ELSE GiveUp(runtime, core) /\ UNCHANGED job
    /\ UNCHANGED <<saved, path, files, holds, marked, lease, revisions>>

\* The selection and the active revision are stored, then the state is saved as
\* active; memory goes back to the candidate when that write fails.
Active == [runtime EXCEPT !.status = "active", !.active = runtime.node, !.known = path]

\* commitHealthyRuntimeLocked, and the lease of a verified system proxy.
Commit ==
    /\ at = "commit"
    /\ \/ /\ Holds /\ runtime' = Active /\ saved' = Active /\ marked' = runtime.revision
          /\ files' = files \cap {path} /\ Goes("end")
          /\ lease' = IF job.kind = "proxy" /\ Running THEN [revision |-> runtime.revision, same |-> TRUE, idle |-> FALSE] ELSE lease
          /\ UNCHANGED <<core, job>>
       \/ /\ Breaks /\ marked' \in {marked, runtime.revision}
          /\ UNCHANGED <<saved, files, lease>>
          /\ IF job.kind \in Mutations /\ ~job.undo THEN Undo ELSE GiveUp(runtime, core) /\ UNCHANGED job
    /\ UNCHANGED <<path, holds, proven, revisions>>

Finish ==
    /\ at = "end" /\ Replies(IF job.undo THEN "failed" ELSE "ok")
    /\ Holds /\ UNCHANGED <<runtime, saved, path, files, holds, marked, core, lease, job, proven, revisions>>

-----------------------------------------------------------------------------
(* Faults *)

\* The core dies, and the monitor of the supervisor notices: a warm core is gone for
\* good, one during an operation has failed, and any other leaves the supervisor
\* dirty (CoreSupervisor!BackoffIsCancelled: it is never restarted).
CoreDies ==
    /\ core.state = "running" /\ Breaks /\ lease' = OtherProcess
    /\ core' = [core EXCEPT !.state = "dead"]
    /\ UNCHANGED <<runtime, saved, path, files, holds, marked, job, at, reply, proven, revisions>>

DeathNoticed ==
    /\ core.state = "dead" /\ Holds
    /\ core' = [core EXCEPT !.state = IF lease.idle THEN "stopped" ELSE IF at = "idle" THEN "dirty" ELSE "failed"]
    /\ UNCHANGED <<runtime, saved, path, files, holds, marked, lease, job, at, reply, proven, revisions>>

\* The Service dies with its core.
ServiceDies ==
    /\ reply # "down" /\ Breaks /\ Replies("down")
    /\ core' = Stopped /\ lease' = NoLease /\ runtime' = saved
    /\ UNCHANGED <<saved, path, files, holds, marked, job, proven, revisions>>

\* loadRuntimeState, which removes the files of earlier runs, and Run, which
\* compiles the persisted state and starts no core.
ServiceStarts ==
    /\ at = "idle" /\ reply = "down" /\ Holds
    /\ runtime' = saved /\ path' = 0 /\ files' = (files \cap {saved.known}) \cup {0}
    /\ job' = [kind |-> "boot", node |-> saved.node, policy |-> saved.policy, before |-> saved,
               ran |-> FALSE, warm |-> FALSE, swapped |-> FALSE, undo |-> FALSE]
    /\ at' = "prepare" /\ reply' = "none"
    /\ UNCHANGED <<saved, holds, marked, core, lease, proven, revisions>>

RuntimeNext ==
    \/ \E n \in Nodes : handleOutboundSelect(n)
    \/ \E p \in Policies : handleRuntimeModeSet(p) \/ handleRuntimeRulesSet(p) \/ handleRuntimeListModeSet(p)
    \/ \E k \in {"proxy", "tun", "off"} : BeginCapture(k)
    \/ CoreNotReady \/ Resume \/ Retain \/ Expire
    \/ Prepare \/ Swap \/ Record \/ Launch \/ Verify \/ Commit \/ Finish
    \/ CoreDies \/ DeathNoticed \/ ServiceDies \/ ServiceStarts

RuntimeSpec == RuntimeInit /\ [][RuntimeNext]_runtimeVars

-----------------------------------------------------------------------------
(* Properties *)

RuntimeTypeOK ==
    /\ runtime \in RuntimeStates /\ saved \in RuntimeStates
    /\ path \in Revisions /\ marked \in Revisions /\ files \subseteq Revisions
    /\ holds \in [Revisions -> Contents] /\ proven \subseteq Contents
    /\ core \in [state : {"stopped", "running", "dead", "dirty", "failed"}, file : Revisions, tun : BOOLEAN]
    /\ lease \in [revision : Revisions, same : BOOLEAN, idle : BOOLEAN]
    /\ job \in [kind : Kinds, node : Nodes \cup {NoNode}, policy : Policies, before : RuntimeStates,
                ran : BOOLEAN, warm : BOOLEAN, swapped : BOOLEAN, undo : BOOLEAN]
    /\ at \in {"idle", "prepare", "swap", "record", "launch", "verify", "commit", "end"}
    /\ reply \in {"none", "ok", "refused", "failed", "down"}
    /\ revisions \in 0 .. MaxRevisions /\ runtimeFaults \in 0 .. MaxRuntimeFaults

\* Whatever is cleaned up (cleanupGeneratedRuntimeFiles, runtime.go:1404-1436),
\* the file the next start or swap back needs is there.
NeededFilesStay ==
    reply # "down" => path \in files /\ (Running => core.file \in files)

\* Between two operations and after one failure at most, a running core runs
\* what memory, runtime_state.json and the configured path say, and only a
\* committed system proxy idles (runtime.go:956-1205, warm_lease.go:138-167).
RunningIsRecorded ==
    at = "idle" /\ core.state = "running" /\ runtimeFaults <= 1 =>
        /\ core.file = path /\ saved = runtime /\ (lease.idle => ~core.tun /\ marked = runtime.revision)
        /\ holds[path] = [node |-> runtime.node, policy |-> runtime.policy]

\* After one failure at most, what is called active, in memory and on disk, has
\* passed a probe with exactly that outbound and policy: the commit that ends an
\* undo is not probed, and must be of something that was (runtime.go:507-527,
\* 1371-1402).  Memory alone runs ahead during a change of the lists.
ActiveIsProven == runtimeFaults <= 1 => \A s \in {runtime, saved} : s.status = "active" =>
    \/ [node |-> s.node, policy |-> s.policy] \in proven
    \/ s # saved /\ at # "idle" /\ job.kind = "list"

\* A mutation that fails once leaves the outbound and the policy as they were
\* (runtime.go:507-530, 586-605, 664-690); that of a warm core always fails at
\* the probe, MutationsWork below.
MutationIsAtomic ==
    at = "idle" /\ reply = "failed" /\ job.kind \in Mutations /\ ~job.warm /\ runtimeFaults <= 1 =>
        runtime.policy = job.before.policy /\ runtime.node = job.before.node

\* With a core that does not fail no operation fails: a warm core is stopped
\* before the candidate is compiled (runtime.go:962-967).
MutationsWork == runtimeFaults = 0 => reply # "failed"
=============================================================================
