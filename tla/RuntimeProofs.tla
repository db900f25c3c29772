---------------------------- MODULE RuntimeProofs ----------------------------
(***************************************************************************)
(* Lemmas about RuntimeConfig, CoreSwitch and TunSession, for any policies,*)
(* versions, sessions and number of failures: the inductive invariant of   *)
(* each, established by its initial states and kept by each of its actions.*)
(* ServiceProofs composes them.                                            *)
(***************************************************************************)
EXTENDS RuntimeConfig, CoreSwitch, TunSession, TLAPS

-----------------------------------------------------------------------------
(* The runtime configuration (RuntimeConfig).                              *)

ContentOf(state) == [node |-> state.node, policy |-> state.policy]
Early == {"prepare", "swap", "record"}
Late == {"launch", "verify", "commit"}
Mutating == job.kind \in Mutations /\ at # "idle"

\* What runs, what the path names, and the files of both.
FilesFollowPath ==
    /\ path <= revisions /\ (at \in {"swap", "record"} => path < revisions /\ revisions \in files)
    /\ reply # "down" => path \in files
    /\ Running => core.file = (IF at = "record" THEN revisions ELSE path)
    /\ job.kind = "boot" \/ reply = "down" => ~Running
    /\ reply = "down" => at = "idle"
    /\ at = "record" => (job.swapped => job.kind \in Mutations /\ job.ran) /\ (~job.swapped => ~Running)
    /\ job.kind \notin Mutations /\ at \in Early \cup {"launch"} => ~Running
    /\ Mutating /\ (Running \/ at \in Late) => job.ran
    /\ at = "launch" => job.kind \in {"proxy", "tun"}

\* What is recorded is what is compiled, and the repository knows what is active.
RecordsAgree ==
    /\ at \in Late \cup {"end"} => saved = runtime /\ ContentOf(runtime) = Wanted
    /\ at \in Late => runtime.status = "candidate"
    /\ at = "end" /\ Running => runtime.status = "active"
    /\ reply = "down" \/ (job.kind = "boot" /\ at \in Early) \/ holds[path] = ContentOf(saved)
    /\ at \in {"swap", "record"} => holds[revisions] = Wanted
    /\ runtime.status = "active" => marked = runtime.revision
    /\ saved.status = "active" => marked = saved.revision
    /\ \A s \in {runtime, saved, job.before} : s.status = "active" => s.active = s.node

LeaseFits ==
    /\ lease.idle => ~core.tun /\ at \in {"idle", "prepare"} /\ runtime.status = "active" /\ reply # "down"
    /\ lease.idle /\ at = "prepare" /\ Mutating => job.warm

\* Until it records its candidate, a mutation has changed at most the policy in memory; one that
\* goes back has left a candidate behind.
MemoryIsKnown ==
    /\ job.undo => job.kind \in Mutations
    /\ Mutating =>
        /\ at \in Early /\ ~job.undo =>
              /\ runtime = [job.before EXCEPT !.policy = runtime.policy]
              /\ job.kind # "list" => runtime = job.before
        /\ job.kind # "select" => job.node = job.before.node
        /\ job.undo /\ at \in Early => runtime.status = "candidate" /\ saved.status = "candidate"
        /\ job.undo => job.ran

\* A mutation of a core that is not warm goes back only after a failure.
UndoHasReason ==
    runtimeFaults = 0 =>
        /\ core.state # "dead"
        /\ Mutating /\ job.undo => job.warm /\ ~Running /\ (at = "record" => ~job.swapped)
        /\ Mutating /\ job.ran /\ ~job.warm => core.state = "running"

\* A core that runs runs what is active, and a mutation of it goes back to something proven.
RunningIsActive ==
    runtimeFaults <= 1 =>
        /\ at = "idle" /\ Running => saved = runtime /\ runtime.status = "active"
        /\ at = "commit" => ContentOf(runtime) \in proven
        /\ Mutating =>
             /\ job.before.status = "active" => ContentOf(job.before) \in proven
             /\ job.ran => job.before.status = "active"
             /\ job.ran /\ at \in Early /\ ~job.undo => saved = job.before
             /\ job.undo => Wanted = ContentOf(job.before)

RuntimeInv ==
    /\ RuntimeTypeOK /\ FilesFollowPath /\ RecordsAgree /\ LeaseFits /\ MemoryIsKnown /\ UndoHasReason
    /\ RunningIsActive /\ ActiveIsProven /\ MutationIsAtomic

Jobs == [kind : Kinds, node : Nodes \cup {NoNode}, policy : Policies, before : RuntimeStates,
         ran : BOOLEAN, warm : BOOLEAN, swapped : BOOLEAN, undo : BOOLEAN]
Cores == [state : {"stopped", "running", "dead", "dirty", "failed"}, file : Revisions, tun : BOOLEAN]
Leases == [revision : Revisions, same : BOOLEAN, idle : BOOLEAN]
Stages == {"idle", "prepare", "swap", "record", "launch", "verify", "commit", "end"}
Answered == {"none", "ok", "refused", "failed", "down"}

LEMMA RuntimeTypes ==
    ASSUME RuntimeTypeOK
    PROVE  /\ runtime \in RuntimeStates /\ saved \in RuntimeStates /\ job \in Jobs /\ job.before \in RuntimeStates
           /\ core \in Cores /\ lease \in Leases /\ at \in Stages /\ reply \in Answered
           /\ path \in Revisions /\ marked \in Revisions /\ files \subseteq Revisions
           /\ holds \in [Revisions -> Contents] /\ proven \subseteq Contents
           /\ revisions \in Nat /\ path \in Nat /\ runtimeFaults \in Nat
           /\ revisions \in 0 .. MaxRevisions /\ runtimeFaults \in 0 .. MaxRuntimeFaults
  BY DEF RuntimeTypeOK, Jobs, Cores, Leases, Stages, Answered, Revisions

LEMMA RuntimeTyping ==
    ASSUME runtime' \in RuntimeStates, saved' \in RuntimeStates, job' \in Jobs, core' \in Cores, lease' \in Leases,
           at' \in Stages, reply' \in Answered, path' \in Revisions, marked' \in Revisions, files' \subseteq Revisions,
           holds' \in [Revisions -> Contents], proven' \subseteq Contents,
           revisions' \in 0 .. MaxRevisions, runtimeFaults' \in 0 .. MaxRuntimeFaults
    PROVE  RuntimeTypeOK'
  BY DEF RuntimeTypeOK, Jobs, Cores, Leases, Stages, Answered

\* A change of the policy in memory, and back.
LEMMA PolicyChanges ==
    ASSUME NEW s \in RuntimeStates, NEW p \in Policies, NEW next, next = [s EXCEPT !.policy = p]
    PROVE  /\ next \in RuntimeStates /\ next.policy = p /\ next.node = s.node /\ next.active = s.active
           /\ next.status = s.status /\ next.revision = s.revision /\ next.known = s.known
           /\ [next EXCEPT !.policy = s.policy] = s /\ next = [s EXCEPT !.policy = next.policy]
           /\ s.policy \in Policies
  BY DEF RuntimeStates

LEMMA SamePolicy == ASSUME NEW s \in RuntimeStates PROVE s = [s EXCEPT !.policy = s.policy]
  BY DEF RuntimeStates

LEMMA FaultsAreCounted ==
    ASSUME RuntimeTypeOK, Breaks \/ Holds
    PROVE  /\ runtimeFaults' \in 0 .. MaxRuntimeFaults
           /\ Breaks => runtimeFaults' # 0 /\ (runtimeFaults' <= 1 => runtimeFaults = 0)
           /\ Holds => runtimeFaults' = runtimeFaults
           /\ runtimeFaults' <= 1 => runtimeFaults <= 1
           /\ runtimeFaults' = 0 => runtimeFaults = 0 /\ ~Breaks
  BY RuntimeAssumption DEF RuntimeTypeOK, Breaks, Holds

LEMMA CoreMoves ==
    ASSUME RuntimeTypeOK
    PROVE  /\ Stopped \in Cores /\ Stopped.state = "stopped" /\ Stopped.tun = FALSE
           /\ \A f \in Revisions : /\ Restarted(f) \in Cores /\ Restarted(f).state = "running"
                                   /\ Restarted(f).file = f /\ Restarted(f).tun = core.tun
           /\ OtherProcess \in Leases /\ OtherProcess.idle = lease.idle
           /\ NoLease \in Leases /\ ~NoLease.idle
<1>1. core \in Cores /\ lease \in Leases /\ 0 \in Revisions
  BY RuntimeTypes, RuntimeAssumption DEF Revisions
<1>2. Stopped \in Cores /\ Stopped.state = "stopped" /\ Stopped.tun = FALSE
  BY <1>1 DEF Cores, Stopped
<1>3. ASSUME NEW f \in Revisions
      PROVE  Restarted(f) \in Cores /\ Restarted(f).state = "running" /\ Restarted(f).file = f /\ Restarted(f).tun = core.tun
  BY <1>1 DEF Cores, Restarted
<1>4. OtherProcess \in Leases /\ OtherProcess.idle = lease.idle
  BY <1>1 DEF Leases, OtherProcess
<1>5. NoLease \in Leases /\ ~NoLease.idle
  BY <1>1 DEF Leases, NoLease
<1>. QED
  BY <1>2, <1>3, <1>4, <1>5

-----------------------------------------------------------------------------
(* What leads back to no operation *)

\* An operation that fails: nothing is recorded, and the memory is what it was.
LEMMA GivesUp ==
    ASSUME RuntimeInv, at \in Early \cup Late, job.kind \in Mutations /\ ~job.undo => at \in Early,
           NEW lost \in Cores, GiveUp(runtime, lost), Breaks \/ Holds, job.kind \in Mutations => Breaks,
           lost.state \in {"running", "dead"} =>
              /\ lost.file = path /\ job.kind # "boot" 
              /\ job.kind \in Mutations => job.ran /\ ~(job.undo /\ runtimeFaults = 0),
           lost.state = "dead" => core.state = "dead",
           job' \in Jobs, job'.kind = job.kind, job'.before = job.before, job'.warm = job.warm, job'.undo = job.undo,
           marked' \in Revisions, marked' = marked \/ at = "commit",
           files' \subseteq Revisions, path \in files', lease' \in Leases, ~lease'.idle,
           UNCHANGED <<saved, path, holds, proven, revisions>>
    PROVE  RuntimeInv'
<1>1. /\ RuntimeTypeOK /\ runtime \in RuntimeStates /\ saved \in RuntimeStates /\ job \in Jobs /\ job.before \in RuntimeStates
      /\ holds \in [Revisions -> Contents] /\ proven \subseteq Contents /\ path \in Revisions
      /\ revisions \in 0 .. MaxRevisions /\ job.before.policy \in Policies
  BY RuntimeTypes, SamePolicy DEF RuntimeInv, RuntimeStates
<1>2. at' = "idle" /\ reply' = (IF job.kind = "boot" THEN "down" ELSE "failed") /\ reply' \in Answered
  BY DEF GiveUp, Replies, Answered
<1>3. runtime' = IF job.kind = "list" /\ ~job.undo THEN [runtime EXCEPT !.policy = job.before.policy] ELSE runtime
  BY DEF GiveUp
<1>4. /\ core' = (IF job.kind \in {"proxy", "tun", "off"} THEN Stopped ELSE lost) /\ core' \in Cores
      /\ core'.state \in {"running", "dead"} => /\ lost.state \in {"running", "dead"} /\ core'.file = path
                                              /\ job.kind \in Mutations /\ job.kind # "boot"
      /\ core'.state = "dead" => core.state = "dead"
  BY <1>1, CoreMoves DEF GiveUp, Jobs, Kinds, Mutations
<1>5. ASSUME job.kind \in Mutations, ~job.undo
      PROVE  runtime' = job.before
  <2>1. at \in Early /\ Mutating
    BY <1>5 DEF Mutating, Early
  <2>2. runtime = [job.before EXCEPT !.policy = runtime.policy] /\ (job.kind # "list" => runtime = job.before)
    BY <1>5, <2>1 DEF RuntimeInv, MemoryIsKnown
  <2>3. runtime.policy \in Policies
    BY <1>1 DEF RuntimeStates
  <2>4. [runtime EXCEPT !.policy = job.before.policy] = job.before
    BY <1>1, <2>2, <2>3, PolicyChanges
  <2>. QED
    BY <1>3, <1>5, <2>2, <2>4
<1>6. ASSUME job.kind \notin Mutations \/ job.undo
      PROVE  runtime' = runtime
  BY <1>3, <1>6 DEF Mutations
<1>7. /\ runtime' \in RuntimeStates /\ runtime'.node = runtime.node /\ runtime'.active = runtime.active
      /\ runtime'.status = runtime.status /\ runtime'.revision = runtime.revision
  BY <1>1, <1>3, PolicyChanges
<1>8. Mutating \/ job.kind \notin Mutations
  BY DEF Mutating, Early, Late
<1>9. RuntimeTypeOK'
  BY <1>1, <1>2, <1>4, <1>7, FaultsAreCounted, RuntimeTyping DEF Stages
<1>10. FilesFollowPath'
  BY <1>2, <1>4 DEF RuntimeInv, FilesFollowPath, Running, Early, Late, Mutating
<1>11. RecordsAgree'
  <2>1. reply' = "down" \/ holds'[path'] = ContentOf(saved)'
    BY <1>2 DEF RuntimeInv, RecordsAgree, FilesFollowPath, ContentOf, Early, Late
  <2>2. runtime.status = "active" \/ saved.status = "active" => at # "commit"
    BY DEF RuntimeInv, RecordsAgree, Late
  <2>3. /\ runtime'.status = "active" => marked' = runtime'.revision /\ runtime'.active = runtime'.node
        /\ saved'.status = "active" => marked' = saved'.revision /\ saved'.active = saved'.node
        /\ job'.before.status = "active" => job'.before.active = job'.before.node
    BY <1>7, <2>2 DEF RuntimeInv, RecordsAgree
  <2>. QED
    BY <1>2, <2>1, <2>3 DEF RecordsAgree, Early, Late
<1>12. LeaseFits' /\ MemoryIsKnown'
  BY <1>2 DEF RuntimeInv, LeaseFits, MemoryIsKnown, Mutating
<1>13. UndoHasReason'
  BY <1>1, <1>2, <1>4, FaultsAreCounted DEF RuntimeInv, UndoHasReason, Mutating
<1>14. RunningIsActive'
  <2>1. ASSUME runtimeFaults' <= 1, Running' PROVE saved' = runtime' /\ runtime'.status = "active"
    <3>1. job.kind \in Mutations /\ job.ran /\ ~(job.undo /\ runtimeFaults = 0) /\ Breaks
      BY <1>4, <2>1 DEF Running
    <3>2. ~job.undo /\ runtimeFaults <= 1 /\ at \in Early /\ Mutating
      BY <1>1, <1>8, <2>1, <3>1, FaultsAreCounted
    <3>3. saved = job.before /\ job.before.status = "active"
      BY <3>1, <3>2 DEF RuntimeInv, RunningIsActive
    <3>. QED
      BY <1>5, <3>1, <3>2, <3>3
  <2>. QED
    BY <1>2, <2>1 DEF RunningIsActive, Mutating
<1>15. ActiveIsProven'
  <2>1. ASSUME runtimeFaults' <= 1, runtime'.status = "active" PROVE ContentOf(runtime') \in proven
    <3>1. runtimeFaults <= 1 /\ runtime.status = "active"
      BY <1>1, <1>7, <2>1, FaultsAreCounted
    <3>2. CASE job.kind \in Mutations /\ ~job.undo
      BY <1>5, <1>8, <2>1, <3>1, <3>2 DEF RuntimeInv, RunningIsActive
    <3>3. CASE job.kind \notin Mutations \/ job.undo
      <4>1. job.kind # "list"
        BY <1>8, <3>1, <3>3 DEF RuntimeInv, MemoryIsKnown, RecordsAgree, Mutations
      <4>2. ContentOf(runtime) \in proven
        BY <3>1, <4>1 DEF RuntimeInv, ActiveIsProven, ContentOf
      <4>. QED
        BY <1>6, <3>3, <4>2
    <3>. QED
      BY <3>2, <3>3
  <2>2. ASSUME runtimeFaults' <= 1, saved'.status = "active" PROVE ContentOf(saved') \in proven
    BY <1>1, <2>2, FaultsAreCounted DEF RuntimeInv, ActiveIsProven, ContentOf
  <2>. QED
    BY <2>1, <2>2 DEF ActiveIsProven, ContentOf
<1>16. MutationIsAtomic'
  <2>1. ASSUME runtimeFaults' <= 1, job.kind \in Mutations, ~job.warm PROVE runtime' = job.before
    <3>1. ~job.undo
      BY <1>1, <1>8, <2>1, FaultsAreCounted DEF RuntimeInv, UndoHasReason
    <3>. QED
      BY <1>5, <2>1, <3>1
  <2>. QED
    BY <1>1, <2>1 DEF MutationIsAtomic
<1>. QED
  BY <1>9, <1>10, <1>11, <1>12, <1>13, <1>14, <1>15, <1>16 DEF RuntimeInv

\* Between two operations, what is asked and what the core and the lease do.
LEMMA IdleStays ==
    ASSUME RuntimeInv, at = "idle", at' = "idle", Breaks \/ Holds,
           UNCHANGED <<runtime, saved, path, files, holds, marked, job, proven, revisions>>,
           reply' = reply \/ (reply # "down" /\ reply' \in {"ok", "refused"}),
           core' \in Cores, Running' => Running /\ core'.file = core.file, core'.state = "dead" => core.state = "dead" \/ Breaks,
           lease' \in Leases, lease'.idle => ~core'.tun /\ runtime.status = "active" /\ reply # "down"
    PROVE  RuntimeInv'
<1>1. RuntimeTypeOK /\ reply' \in Answered
  BY RuntimeTypes DEF RuntimeInv, Answered
<1>2. RuntimeTypeOK'
  BY <1>1, RuntimeTypes, FaultsAreCounted, RuntimeTyping
<1>3. FilesFollowPath'
  BY DEF RuntimeInv, FilesFollowPath, Mutating, Early, Late
<1>4. RecordsAgree'
  BY DEF RuntimeInv, RecordsAgree, Early, Late, ContentOf
<1>5. LeaseFits' /\ MemoryIsKnown'
  BY DEF RuntimeInv, LeaseFits, MemoryIsKnown, Mutating
<1>6. UndoHasReason'
  BY <1>1, FaultsAreCounted DEF RuntimeInv, UndoHasReason, Mutating
<1>7. RunningIsActive'
  BY <1>1, FaultsAreCounted DEF RuntimeInv, RunningIsActive, Mutating
<1>8. ActiveIsProven' /\ MutationIsAtomic'
  BY <1>1, FaultsAreCounted DEF RuntimeInv, ActiveIsProven, MutationIsAtomic
<1>. QED
  BY <1>2, <1>3, <1>4, <1>5, <1>6, <1>7, <1>8 DEF RuntimeInv

LEMMA CoreNotReadyKeeps == ASSUME RuntimeInv, CoreNotReady PROVE RuntimeInv'
  BY IdleStays, RuntimeTypes DEF CoreNotReady, Replies, RuntimeInv, LeaseFits, Running

LEMMA LeaseKeeps == ASSUME RuntimeInv, Resume \/ Retain PROVE RuntimeInv'
<1>1. /\ at = "idle" /\ at' = "idle" /\ Holds /\ UNCHANGED <<runtime, saved, path, files, holds, marked, core, job, proven, revisions>>
      /\ reply # "down" /\ reply' = "ok" /\ ~core.tun /\ runtime.status = "active"
  BY DEF Resume, Retain, Replies, LeaseMatches, HasIdentity
<1>2. core \in Cores /\ lease \in Leases
  BY RuntimeTypes DEF RuntimeInv
<1>3. lease' \in Leases
  BY <1>2 DEF Resume, Retain, Leases
<1>. QED
  BY <1>1, <1>2, <1>3, IdleStays DEF Running

LEMMA ExpireKeeps == ASSUME RuntimeInv, Expire PROVE RuntimeInv'
<1>1. /\ at = "idle" /\ at' = "idle" /\ UNCHANGED <<runtime, saved, path, files, holds, marked, job, reply, proven, revisions>>
      /\ lease' = NoLease /\ (Breaks \/ Holds) /\ (core' = Stopped \/ core' = core)
  BY DEF Expire
<1>2. core \in Cores /\ Stopped \in Cores /\ Stopped.state = "stopped" /\ NoLease \in Leases /\ ~NoLease.idle
  BY RuntimeTypes, CoreMoves DEF RuntimeInv
<1>. QED
  BY <1>1, <1>2, IdleStays DEF Running

\* The core dies, and its death is noticed, at any step.
LEMMA DeathsKeep == ASSUME RuntimeInv, CoreDies \/ DeathNoticed PROVE RuntimeInv'
<1>1. /\ UNCHANGED <<runtime, saved, path, files, holds, marked, job, at, reply, proven, revisions>> /\ (Breaks \/ Holds)
      /\ core.state \in {"running", "dead"} /\ runtimeFaults' # 0
  BY FaultsAreCounted DEF CoreDies, DeathNoticed, RuntimeInv, UndoHasReason
<1>2. RuntimeTypeOK /\ core \in Cores /\ lease \in Leases /\ OtherProcess \in Leases /\ OtherProcess.idle = lease.idle
  BY RuntimeTypes, CoreMoves DEF RuntimeInv
<1>3. lease' \in Leases /\ lease'.idle = lease.idle
  BY <1>2 DEF CoreDies, DeathNoticed
<1>4. core' \in Cores /\ core'.file = core.file /\ core'.tun = core.tun
  BY <1>2 DEF CoreDies, DeathNoticed, Cores
<1>5. Running
  BY <1>1 DEF Running
<1>6. RuntimeTypeOK'
  BY <1>1, <1>2, <1>3, <1>4, RuntimeTypes, FaultsAreCounted, RuntimeTyping
<1>7. FilesFollowPath'
  BY <1>1, <1>4, <1>5 DEF RuntimeInv, FilesFollowPath, Mutating
<1>8. RecordsAgree'
  BY <1>1, <1>5 DEF RuntimeInv, RecordsAgree, ContentOf, Wanted
<1>9. LeaseFits' /\ MemoryIsKnown'
  BY <1>1, <1>3, <1>4 DEF RuntimeInv, LeaseFits, MemoryIsKnown, Mutating
<1>10. UndoHasReason'
  BY <1>1 DEF UndoHasReason
<1>11. RunningIsActive'
  BY <1>1, <1>2, <1>5, FaultsAreCounted DEF RuntimeInv, RunningIsActive, Mutating, ContentOf, Wanted
<1>12. ActiveIsProven' /\ MutationIsAtomic'
  BY <1>1, <1>2, FaultsAreCounted DEF RuntimeInv, ActiveIsProven, MutationIsAtomic
<1>. QED
  BY <1>6, <1>7, <1>8, <1>9, <1>10, <1>11, <1>12 DEF RuntimeInv

LEMMA FinishKeeps == ASSUME RuntimeInv, Finish PROVE RuntimeInv'
<1>1. /\ at = "end" /\ at' = "idle" /\ reply' = (IF job.undo THEN "failed" ELSE "ok") /\ Holds
      /\ UNCHANGED <<runtime, saved, path, files, holds, marked, core, lease, job, proven, revisions>>
  BY DEF Finish, Replies
<1>2. RuntimeTypeOK /\ reply' \in Answered /\ reply' # "down" /\ runtimeFaults' = runtimeFaults /\ reply # "down"
  BY <1>1, FaultsAreCounted DEF RuntimeInv, Answered, FilesFollowPath
<1>3. RuntimeTypeOK'
  BY <1>1, <1>2, RuntimeTypes, FaultsAreCounted, RuntimeTyping DEF Stages
<1>4. FilesFollowPath'
  BY <1>1, <1>2 DEF RuntimeInv, FilesFollowPath, Running, Mutating, Early, Late
<1>5. RecordsAgree'
  BY <1>1, <1>2 DEF RuntimeInv, RecordsAgree, ContentOf, Early, Late
<1>6. LeaseFits' /\ MemoryIsKnown'
  BY <1>1 DEF RuntimeInv, LeaseFits, MemoryIsKnown, Mutating
<1>7. UndoHasReason'
  BY <1>1, <1>2 DEF RuntimeInv, UndoHasReason, Mutating
<1>8. RunningIsActive'
  BY <1>1, <1>2 DEF RuntimeInv, RunningIsActive, RecordsAgree, Mutating, Running
<1>9. ActiveIsProven'
  BY <1>1, <1>2 DEF RuntimeInv, ActiveIsProven, RecordsAgree
<1>10. MutationIsAtomic'
  BY <1>1, <1>2 DEF RuntimeInv, MutationIsAtomic, RunningIsActive, RecordsAgree, Mutating,
     ContentOf, Wanted
<1>. QED
  BY <1>3, <1>4, <1>5, <1>6, <1>7, <1>8, <1>9, <1>10 DEF RuntimeInv

-----------------------------------------------------------------------------
(* What begins an operation *)

\* A mutation that is admitted, and at most the policy in memory.
LEMMA Begins ==
    ASSUME RuntimeInv, NEW kind \in Mutations, NEW n \in Nodes, NEW p \in Policies, Admitted(kind, n, p),
           kind # "select" => n = runtime.node,
           \/ /\ at' = "prepare" /\ reply' = reply /\ Holds
              /\ runtime' = runtime \/ (kind = "list" /\ runtime' = [runtime EXCEPT !.policy = p])
           \/ at' = "idle" /\ reply' = "refused" /\ Holds /\ runtime' = runtime
           \/ at' = "idle" /\ reply' = "failed" /\ Breaks /\ runtime' = runtime
    PROVE  RuntimeInv'
<1>1. /\ at = "idle" /\ reply # "down" /\ UNCHANGED <<saved, path, files, holds, marked, core, lease, proven, revisions>>
      /\ job' = [kind |-> kind, node |-> n, policy |-> p, before |-> runtime,
                 ran |-> Running, warm |-> lease.idle, swapped |-> FALSE, undo |-> FALSE]
  BY DEF Admitted
<1>2. /\ RuntimeTypeOK /\ runtime \in RuntimeStates /\ lease \in Leases /\ core \in Cores /\ (Breaks \/ Holds)
      /\ reply \in Answered
  BY RuntimeTypes DEF RuntimeInv
<1>3. /\ job' \in Jobs /\ job'.kind = kind /\ job'.node = n /\ job'.before = runtime /\ job'.ran = Running
      /\ job'.warm = lease.idle /\ job'.undo = FALSE
  BY <1>1, <1>2 DEF Jobs, Kinds, Mutations, Leases, Running
<1>4. /\ runtime' \in RuntimeStates /\ runtime'.node = runtime.node /\ runtime'.active = runtime.active
      /\ runtime'.status = runtime.status /\ runtime'.revision = runtime.revision
      /\ runtime' = [runtime EXCEPT !.policy = runtime'.policy] /\ (kind # "list" \/ at' = "idle" => runtime' = runtime)
  BY <1>2, PolicyChanges, SamePolicy
<1>5. at' \in {"idle", "prepare"} /\ reply' \in Answered /\ reply' # "down" /\ kind # "boot"
  BY <1>1, <1>2 DEF Mutations, Answered
<1>6. RuntimeTypeOK'
  BY <1>1, <1>2, <1>3, <1>4, <1>5, RuntimeTypes, FaultsAreCounted, RuntimeTyping DEF Stages
<1>7. FilesFollowPath'
  BY <1>1, <1>3, <1>5 DEF RuntimeInv, FilesFollowPath, Running, Mutating, Early, Late
<1>8. RecordsAgree'
  BY <1>1, <1>3, <1>4, <1>5 DEF RuntimeInv, RecordsAgree, ContentOf, Early, Late
<1>9. LeaseFits'
  BY <1>1, <1>3, <1>4, <1>5 DEF RuntimeInv, LeaseFits
<1>10. MemoryIsKnown'
  BY <1>3, <1>4 DEF MemoryIsKnown, Mutating
<1>11. UndoHasReason'
  BY <1>1, <1>2, <1>3, FaultsAreCounted DEF RuntimeInv, UndoHasReason, Mutating, Running
<1>12. RunningIsActive'
  BY <1>1, <1>2, <1>3, <1>4, <1>5, FaultsAreCounted DEF RuntimeInv, RunningIsActive,
     ActiveIsProven, Mutating, ContentOf, Running
<1>13. ActiveIsProven'
  <2>1. CASE kind # "list" \/ at' = "idle"
    BY <1>1, <1>2, <1>4, <2>1, FaultsAreCounted DEF RuntimeInv, ActiveIsProven
  <2>2. CASE kind = "list" /\ at' = "prepare"
    BY <1>1, <1>2, <1>3, <2>2, FaultsAreCounted DEF RuntimeInv, ActiveIsProven
  <2>. QED
    BY <1>5, <2>1, <2>2
<1>14. MutationIsAtomic'
  BY <1>3, <1>4 DEF MutationIsAtomic
<1>. QED
  BY <1>6, <1>7, <1>8, <1>9, <1>10, <1>11, <1>12, <1>13, <1>14 DEF RuntimeInv

LEMMA MutationsBegin ==
    ASSUME RuntimeInv,
           \/ \E n \in Nodes : handleOutboundSelect(n)
           \/ \E p \in Policies : handleRuntimeModeSet(p) \/ handleRuntimeRulesSet(p) \/ handleRuntimeListModeSet(p)
    PROVE  RuntimeInv'
<1>1. runtime.node \in Nodes /\ runtime.policy \in Policies
  BY RuntimeTypes DEF RuntimeInv, RuntimeStates
<1>2. ASSUME NEW n \in Nodes, handleOutboundSelect(n) PROVE RuntimeInv'
  BY <1>1, <1>2, Begins DEF handleOutboundSelect, Mutations, Goes, Replies
<1>3. ASSUME NEW p \in Policies, handleRuntimeModeSet(p) PROVE RuntimeInv'
  BY <1>1, <1>3, Begins DEF handleRuntimeModeSet, PinLost, Mutations, Goes, Replies
<1>4. ASSUME NEW p \in Policies, handleRuntimeRulesSet(p) PROVE RuntimeInv'
  BY <1>1, <1>4, Begins DEF handleRuntimeRulesSet, PinLost, Mutations, Goes, Replies
<1>5. ASSUME NEW p \in Policies, handleRuntimeListModeSet(p) PROVE RuntimeInv'
  BY <1>1, <1>5, Begins DEF handleRuntimeListModeSet, PinLost, Mutations, Goes, Replies
<1>. QED
  BY <1>2, <1>3, <1>4, <1>5

LEMMA CaptureBegins == ASSUME RuntimeInv, NEW kind \in {"proxy", "tun", "off"}, BeginCapture(kind) PROVE RuntimeInv'
<1>1. /\ at = "idle" /\ reply # "down" /\ lease' = NoLease /\ (Breaks \/ Holds)
      /\ UNCHANGED <<runtime, saved, path, files, holds, marked, proven, revisions>>
      /\ job' = [kind |-> kind, node |-> runtime.node, policy |-> runtime.policy, before |-> runtime,
                 ran |-> FALSE, warm |-> FALSE, swapped |-> FALSE, undo |-> FALSE]
      /\ \/ core' = Stopped /\ at' = "prepare" /\ reply' = reply
         \/ core' \in {core, Stopped} /\ at' = "idle" /\ reply' = "failed"
  BY DEF BeginCapture, Goes, Replies
<1>2. /\ RuntimeTypeOK /\ runtime \in RuntimeStates /\ core \in Cores /\ Stopped \in Cores /\ Stopped.state = "stopped"
      /\ NoLease \in Leases /\ ~NoLease.idle /\ reply \in Answered
  BY RuntimeTypes, CoreMoves DEF RuntimeInv
<1>3. /\ job' \in Jobs /\ job'.kind = kind /\ job'.before = runtime /\ kind \notin Mutations /\ kind # "boot"
  BY <1>1, <1>2 DEF Jobs, Kinds, Mutations, RuntimeStates
<1>4. at' \in {"idle", "prepare"} /\ reply' \in Answered /\ reply' # "down" /\ core' \in Cores
  BY <1>1, <1>2 DEF Answered
<1>5. RuntimeTypeOK'
  BY <1>1, <1>2, <1>3, <1>4, RuntimeTypes, FaultsAreCounted, RuntimeTyping DEF Stages
<1>6. FilesFollowPath'
  BY <1>1, <1>2, <1>3, <1>4 DEF RuntimeInv, FilesFollowPath, Running, Mutating, Early, Late
<1>7. RecordsAgree'
  BY <1>1, <1>3, <1>4 DEF RuntimeInv, RecordsAgree, ContentOf, Early, Late
<1>8. LeaseFits' /\ MemoryIsKnown' /\ MutationIsAtomic'
  BY <1>1, <1>2, <1>3 DEF LeaseFits, MemoryIsKnown, MutationIsAtomic, Mutating
<1>9. UndoHasReason'
  BY <1>1, <1>2, <1>3, FaultsAreCounted DEF RuntimeInv, UndoHasReason, Mutating
<1>10. RunningIsActive'
  BY <1>1, <1>2, <1>3, <1>4, FaultsAreCounted DEF RuntimeInv, RunningIsActive, Mutating, Running
<1>11. ActiveIsProven'
  BY <1>1, <1>2, FaultsAreCounted DEF RuntimeInv, ActiveIsProven
<1>. QED
  BY <1>5, <1>6, <1>7, <1>8, <1>9, <1>10, <1>11 DEF RuntimeInv

LEMMA ServiceDiesKeeps == ASSUME RuntimeInv, ServiceDies PROVE RuntimeInv'
<1>1. /\ Breaks /\ at' = "idle" /\ reply' = "down" /\ core' = Stopped /\ lease' = NoLease /\ runtime' = saved
      /\ UNCHANGED <<saved, path, files, holds, marked, job, proven, revisions>>
  BY DEF ServiceDies, Replies
<1>2. /\ RuntimeTypeOK /\ saved \in RuntimeStates /\ Stopped \in Cores /\ Stopped.state = "stopped"
      /\ NoLease \in Leases /\ ~NoLease.idle /\ runtimeFaults' # 0
  BY RuntimeTypes, CoreMoves, FaultsAreCounted, <1>1 DEF RuntimeInv
<1>3. RuntimeTypeOK'
  BY <1>1, <1>2, RuntimeTypes, FaultsAreCounted, RuntimeTyping DEF Stages, Answered
<1>4. FilesFollowPath'
  BY <1>1, <1>2 DEF RuntimeInv, FilesFollowPath, Running, Mutating, Early, Late
<1>5. RecordsAgree'
  BY <1>1 DEF RuntimeInv, RecordsAgree, ContentOf, Early, Late
<1>6. LeaseFits' /\ MemoryIsKnown' /\ MutationIsAtomic' /\ UndoHasReason'
  BY <1>1, <1>2 DEF RuntimeInv, LeaseFits, MemoryIsKnown, MutationIsAtomic, UndoHasReason, Mutating
<1>7. RunningIsActive'
  BY <1>1, <1>2 DEF RunningIsActive, Mutating, Running
<1>8. ActiveIsProven'
  BY <1>1, <1>2, FaultsAreCounted DEF RuntimeInv, ActiveIsProven
<1>. QED
  BY <1>3, <1>4, <1>5, <1>6, <1>7, <1>8 DEF RuntimeInv

LEMMA ServiceStartsKeeps == ASSUME RuntimeInv, ServiceStarts PROVE RuntimeInv'
<1>1. /\ at = "idle" /\ reply = "down" /\ Holds /\ runtime' = saved /\ path' = 0 /\ files' = (files \cap {saved.known}) \cup {0}
      /\ job' = [kind |-> "boot", node |-> saved.node, policy |-> saved.policy, before |-> saved,
                 ran |-> FALSE, warm |-> FALSE, swapped |-> FALSE, undo |-> FALSE]
      /\ at' = "prepare" /\ reply' = "none" /\ UNCHANGED <<saved, holds, marked, core, lease, proven, revisions>>
  BY DEF ServiceStarts
<1>2. /\ RuntimeTypeOK /\ saved \in RuntimeStates /\ 0 \in Revisions /\ revisions \in Nat /\ core \in Cores
      /\ files' \subseteq Revisions
  BY <1>1, RuntimeTypes, RuntimeAssumption DEF RuntimeInv, Revisions
<1>3. job' \in Jobs /\ job'.kind = "boot" /\ job'.before = saved /\ "boot" \notin Mutations
  BY <1>1, <1>2 DEF Jobs, Kinds, Mutations, RuntimeStates
<1>4. ~Running /\ ~Running'
  BY <1>1 DEF RuntimeInv, FilesFollowPath, Running
<1>5. RuntimeTypeOK'
  BY <1>1, <1>2, <1>3, RuntimeTypes, FaultsAreCounted, RuntimeTyping DEF Stages, Answered
<1>6. FilesFollowPath'
  BY <1>1, <1>2, <1>3, <1>4 DEF FilesFollowPath, Mutating, Early, Late
<1>7. RecordsAgree'
  BY <1>1, <1>3 DEF RuntimeInv, RecordsAgree, Early, Late
<1>8. LeaseFits'
  BY <1>1, <1>3 DEF RuntimeInv, LeaseFits, Mutating, FilesFollowPath
<1>9. MemoryIsKnown' /\ MutationIsAtomic'
  BY <1>1, <1>3 DEF MemoryIsKnown, MutationIsAtomic, Mutating
<1>10. UndoHasReason'
  BY <1>1, <1>2, <1>3, FaultsAreCounted DEF RuntimeInv, UndoHasReason, Mutating
<1>11. RunningIsActive'
  BY <1>1, <1>3 DEF RunningIsActive, Mutating
<1>12. ActiveIsProven'
  BY <1>1, <1>2, FaultsAreCounted DEF RuntimeInv, ActiveIsProven
<1>. QED
  BY <1>5, <1>6, <1>7, <1>8, <1>9, <1>10, <1>11, <1>12 DEF RuntimeInv

-----------------------------------------------------------------------------
(* The steps of an operation *)

\* A mutation that goes back compiles what was there before.
LEMMA UndoKeeps ==
    ASSUME RuntimeInv, at \in {"verify", "commit"}, job.kind \in Mutations, Undo, Breaks \/ (Holds /\ core.state # "running"),
           at = "commit" => Breaks, marked' \in Revisions, marked' = marked \/ at = "commit",
           UNCHANGED <<saved, path, files, holds, lease, proven, revisions>>
    PROVE  RuntimeInv'
<1>1. /\ job' = [job EXCEPT !.undo = TRUE, !.policy = job.before.policy,
               !.node = IF job.kind = "select" THEN activeOutboundID(job.before) ELSE runtime.node]
      /\ runtime' = (IF job.kind = "list" THEN [runtime EXCEPT !.policy = job.before.policy] ELSE runtime)
      /\ at' = "prepare" /\ UNCHANGED <<reply, core>>
  BY DEF Undo, Goes
<1>2. /\ RuntimeTypeOK /\ runtime \in RuntimeStates /\ job \in Jobs /\ job.before \in RuntimeStates
      /\ job.before.policy \in Policies /\ runtime.node \in Nodes
  BY RuntimeTypes DEF RuntimeInv, RuntimeStates
<1>3. Mutating /\ at \in Late /\ reply # "down" /\ job.ran /\ (Breaks \/ Holds)
  BY DEF Mutating, Late, RuntimeInv, FilesFollowPath
<1>4. activeOutboundID(job.before) \in Nodes \cup {NoNode}
      /\ (job.before.status = "active" => activeOutboundID(job.before) = job.before.node)
  BY <1>2, RuntimeAssumption DEF activeOutboundID, RuntimeStates, RuntimeInv, RecordsAgree
<1>5. /\ job' \in Jobs /\ job'.kind = job.kind /\ job'.before = job.before /\ job'.ran = job.ran /\ job'.warm = job.warm
      /\ job'.undo = TRUE /\ job'.policy = job.before.policy
      /\ job'.node = (IF job.kind = "select" THEN activeOutboundID(job.before) ELSE runtime.node)
  <2>1. (IF job.kind = "select" THEN activeOutboundID(job.before) ELSE runtime.node) \in Nodes \cup {NoNode}
    BY <1>2, <1>4
  <2>. QED
    BY <1>1, <1>2, <2>1 DEF Jobs
<1>6. /\ runtime' \in RuntimeStates /\ runtime'.status = "candidate" /\ saved' = saved /\ saved'.status = "candidate"
  BY <1>1, <1>2, <1>3, PolicyChanges DEF RuntimeInv, RecordsAgree
<1>7. job.kind # "select" => job'.node = job.before.node
  <2>1. ContentOf(runtime) = Wanted
    BY <1>3 DEF RuntimeInv, RecordsAgree
  <2>2. runtime.node = job.node
    BY <2>1 DEF ContentOf, Wanted
  <2>. QED
    BY <1>3, <1>5, <2>2 DEF RuntimeInv, MemoryIsKnown
<1>8. RuntimeTypeOK'
  BY <1>1, <1>2, <1>3, <1>5, <1>6, RuntimeTypes, FaultsAreCounted, RuntimeTyping DEF Stages
<1>9. FilesFollowPath'
  BY <1>1, <1>3, <1>5 DEF RuntimeInv, FilesFollowPath, Running, Mutating, Early, Late
<1>10. RecordsAgree'
  BY <1>1, <1>3, <1>5, <1>6 DEF RuntimeInv, RecordsAgree, ContentOf, Early, Late, Mutations
<1>11. LeaseFits'
  BY DEF RuntimeInv, LeaseFits
<1>12. MemoryIsKnown'
  BY <1>3, <1>5, <1>6, <1>7 DEF MemoryIsKnown
<1>13. UndoHasReason'
  BY <1>1, <1>2, <1>3, <1>5, FaultsAreCounted DEF RuntimeInv, UndoHasReason, Mutating, Running
<1>14. RunningIsActive'
  <2>1. ASSUME runtimeFaults' <= 1
        PROVE  job.before.status = "active" /\ ContentOf(job.before) \in proven /\ Wanted' = ContentOf(job.before)
    <3>1. job.before.status = "active" /\ ContentOf(job.before) \in proven
      BY <1>2, <1>3, <2>1, FaultsAreCounted DEF RuntimeInv, RunningIsActive
    <3>2. job'.node = job.before.node
      BY <1>4, <1>5, <1>7, <3>1
    <3>. QED
      BY <1>5, <3>1, <3>2 DEF Wanted, ContentOf
  <2>. QED
    BY <1>1, <1>5, <2>1 DEF RunningIsActive, ContentOf
<1>15. ActiveIsProven'
  BY <1>6 DEF ActiveIsProven
<1>16. MutationIsAtomic'
  BY <1>1 DEF MutationIsAtomic
<1>. QED
  BY <1>8, <1>9, <1>10, <1>11, <1>12, <1>13, <1>14, <1>15, <1>16 DEF RuntimeInv

LEMMA PrepareKeeps == ASSUME RuntimeInv, Prepare PROVE RuntimeInv'
<1>. DEFINE cold == IF lease.idle THEN Stopped ELSE core
<1>1. /\ at = "prepare" /\ revisions < MaxRevisions /\ job.node # NoNode
      /\ lease' = (IF lease.idle THEN NoLease ELSE lease) /\ UNCHANGED <<saved, path, marked, job, proven>>
      /\ \/ /\ Holds /\ at' = "swap" /\ reply' = reply /\ core' = cold /\ revisions' = revisions + 1
            /\ holds' = [holds EXCEPT ![revisions + 1] = Wanted] /\ files' = files \cup {revisions + 1} /\ runtime' = runtime
         \/ Breaks /\ GiveUp(runtime, cold) /\ UNCHANGED <<revisions, holds, files>>
  BY DEF Prepare, Goes
<1>2. /\ RuntimeTypeOK /\ core \in Cores /\ Stopped \in Cores /\ Stopped.state = "stopped" /\ lease \in Leases
      /\ NoLease \in Leases /\ ~NoLease.idle /\ job \in Jobs /\ files \subseteq Revisions /\ holds \in [Revisions -> Contents]
      /\ revisions \in 0 .. MaxRevisions /\ revisions \in Nat /\ path \in Revisions /\ path \in Nat
      /\ lease.idle \in BOOLEAN
  BY RuntimeTypes, CoreMoves DEF RuntimeInv, Leases
<1>3. /\ lease' \in Leases /\ ~lease'.idle /\ cold \in Cores /\ (cold.state \in {"running", "dead"} => cold = core)
      /\ (cold = core \/ (cold.state = "stopped" /\ lease.idle))
  BY <1>1, <1>2
<1>4. at \in Early /\ reply # "down" /\ path \in files /\ path <= revisions
  BY <1>1, <1>2 DEF Early, RuntimeInv, FilesFollowPath
<1>. HIDE DEF cold
<1>5. ASSUME Breaks, GiveUp(runtime, cold), UNCHANGED <<revisions, holds, files>> PROVE RuntimeInv'
  <2>1. ASSUME cold.state \in {"running", "dead"}
        PROVE  /\ cold.file = path /\ job.kind # "boot"
               /\ job.kind \in Mutations => job.ran /\ ~(job.undo /\ runtimeFaults = 0)
    BY <1>1, <1>3, <2>1 DEF RuntimeInv, FilesFollowPath, UndoHasReason, Running, Mutating
  <2>2. cold.state = "dead" => core.state = "dead"
    BY <1>3
  <2>. QED
    BY <1>1, <1>2, <1>3, <1>4, <1>5, <2>1, <2>2, RuntimeTypes, GivesUp
<1>6. ASSUME Holds, at' = "swap", reply' = reply, core' = cold, revisions' = revisions + 1,
             holds' = [holds EXCEPT ![revisions + 1] = Wanted], files' = files \cup {revisions + 1}, runtime' = runtime
      PROVE  RuntimeInv'
  <2>1. /\ revisions' \in 0 .. MaxRevisions /\ revisions' \in Revisions /\ path < revisions' /\ path <= revisions'
        /\ revisions' \in files'
    BY <1>1, <1>2, <1>4, <1>6, RuntimeAssumption DEF Revisions
  <2>2. Wanted \in Contents
    BY <1>1, <1>2 DEF Wanted, Contents, Jobs
  <2>3. /\ holds' \in [Revisions -> Contents] /\ holds'[revisions'] = Wanted /\ holds'[path] = holds[path]
        /\ files' \subseteq Revisions
    BY <1>2, <1>6, <2>1, <2>2
  <2>4. RuntimeTypeOK'
    BY <1>1, <1>2, <1>3, <1>6, <2>1, <2>3, RuntimeTypes, FaultsAreCounted, RuntimeTyping DEF Stages
  <2>5. Running' => Running /\ core' = core
    BY <1>3, <1>6 DEF Running
  <2>6. FilesFollowPath'
    BY <1>1, <1>4, <1>6, <2>1, <2>5 DEF RuntimeInv, FilesFollowPath, Mutating, Early, Late
  <2>7. RecordsAgree'
    BY <1>1, <1>6, <2>3 DEF RuntimeInv, RecordsAgree, ContentOf, Wanted, Early, Late
  <2>8. LeaseFits'
    BY <1>3 DEF LeaseFits
  <2>9. MemoryIsKnown'
    BY <1>1, <1>6 DEF RuntimeInv, MemoryIsKnown, Mutating, Early
  <2>10. UndoHasReason'
    <3>1. runtimeFaults' = runtimeFaults
      BY <1>2, <1>6, FaultsAreCounted
    <3>2. Mutating /\ lease.idle => job.warm
      BY <1>1 DEF RuntimeInv, LeaseFits
    <3>. QED
      BY <1>1, <1>3, <1>6, <2>5, <3>1, <3>2 DEF RuntimeInv, UndoHasReason, Mutating
  <2>11. RunningIsActive'
    BY <1>1, <1>2, <1>6, FaultsAreCounted DEF RuntimeInv, RunningIsActive, Mutating, ContentOf,
       Wanted, Early
  <2>12. ActiveIsProven' /\ MutationIsAtomic'
    BY <1>1, <1>2, <1>6, FaultsAreCounted DEF RuntimeInv, ActiveIsProven, MutationIsAtomic
  <2>. QED
    BY <2>4, <2>6, <2>7, <2>8, <2>9, <2>10, <2>11, <2>12 DEF RuntimeInv
<1>. QED
  BY <1>1, <1>5, <1>6

LEMMA SwapKeeps == ASSUME RuntimeInv, Swap PROVE RuntimeInv'
<1>1. /\ at = "swap" /\ job' = [job EXCEPT !.swapped = Running] /\ UNCHANGED <<saved, path, holds, marked, proven, revisions>>
      /\ \/ /\ Running /\ lease' = OtherProcess /\ Holds /\ at' = "record" /\ reply' = reply /\ core' = Restarted(revisions)
            /\ UNCHANGED <<files, runtime>>
         \/ /\ Running /\ lease' = OtherProcess /\ Breaks /\ files' = files \ {revisions}
            /\ GiveUp(runtime, Restarted(path)) \/ GiveUp(runtime, [core EXCEPT !.state = "failed"])
         \/ ~Running /\ Holds /\ at' = "record" /\ reply' = reply /\ UNCHANGED <<files, runtime, core, lease>>
  BY DEF Swap, Goes
<1>2. /\ RuntimeTypeOK /\ core \in Cores /\ lease \in Leases /\ job \in Jobs /\ files \subseteq Revisions
      /\ revisions \in Revisions /\ path \in Revisions /\ path \in Nat /\ OtherProcess \in Leases /\ OtherProcess.idle = lease.idle
      /\ [core EXCEPT !.state = "failed"] \in Cores
  <2>1. RuntimeTypeOK /\ core \in Cores
    BY RuntimeTypes DEF RuntimeInv
  <2>2. [core EXCEPT !.state = "failed"] \in Cores
    BY <2>1 DEF Cores
  <2>. QED
    BY <2>1, <2>2, RuntimeTypes, CoreMoves DEF RuntimeInv, Revisions
<1>3. /\ Restarted(revisions) \in Cores /\ Restarted(revisions).state = "running" /\ Restarted(revisions).file = revisions
      /\ Restarted(path) \in Cores /\ Restarted(path).state = "running" /\ Restarted(path).file = path
  BY <1>2, CoreMoves
<1>4. /\ at \in Early /\ reply # "down" /\ path \in files /\ path < revisions /\ revisions \in files /\ ~lease.idle
      /\ path \in files \ {revisions}
  BY <1>1, <1>2 DEF Early, RuntimeInv, FilesFollowPath, LeaseFits
<1>5. /\ job' \in Jobs /\ job'.kind = job.kind /\ job'.node = job.node /\ job'.policy = job.policy /\ job'.before = job.before
      /\ job'.ran = job.ran /\ job'.warm = job.warm /\ job'.undo = job.undo /\ job'.swapped = Running
  <2>1. Running \in BOOLEAN
    BY DEF Running
  <2>. QED
    BY <1>1, <1>2, <2>1 DEF Jobs
<1>6. Running => job.kind \in Mutations /\ job.kind # "boot" /\ job.ran /\ Mutating /\ ~(job.undo /\ runtimeFaults = 0)
  BY <1>1, <1>4 DEF RuntimeInv, FilesFollowPath, UndoHasReason, Mutating
<1>7. ASSUME NEW lost \in Cores, Running, lost.state \in {"running", "dead"} => lost.file = path, lost.state # "dead",
             lease' = OtherProcess, Breaks, files' = files \ {revisions}, GiveUp(runtime, lost)
      PROVE  RuntimeInv'
  BY <1>1, <1>2, <1>4, <1>5, <1>6, <1>7, RuntimeTypes, GivesUp
<1>8. ASSUME Holds, at' = "record", reply' = reply, UNCHANGED <<files, runtime>>, core' \in Cores,
             lease' \in Leases, ~lease'.idle, Running' <=> Running, Running => core'.state = "running" /\ core'.file = revisions,
             ~Running => core' = core
      PROVE  RuntimeInv'
  <2>1. RuntimeTypeOK'
    BY <1>1, <1>2, <1>5, <1>8, RuntimeTypes, FaultsAreCounted, RuntimeTyping DEF Stages
  <2>2. FilesFollowPath'
    BY <1>1, <1>4, <1>5, <1>6, <1>8 DEF RuntimeInv, FilesFollowPath, Mutating, Early, Late
  <2>3. RecordsAgree'
    BY <1>1, <1>5, <1>8 DEF RuntimeInv, RecordsAgree, ContentOf, Wanted, Early, Late
  <2>4. LeaseFits'
    BY <1>8 DEF LeaseFits
  <2>5. MemoryIsKnown'
    BY <1>1, <1>5, <1>8 DEF RuntimeInv, MemoryIsKnown, Mutating, Early
  <2>6. UndoHasReason'
    BY <1>1, <1>2, <1>5, <1>8, FaultsAreCounted DEF RuntimeInv, UndoHasReason, Mutating, Running
  <2>7. RunningIsActive'
    BY <1>1, <1>2, <1>5, <1>8, FaultsAreCounted DEF RuntimeInv, RunningIsActive, Mutating,
       ContentOf, Wanted, Early
  <2>8. ActiveIsProven' /\ MutationIsAtomic'
    BY <1>1, <1>2, <1>5, <1>8, FaultsAreCounted DEF RuntimeInv, ActiveIsProven, MutationIsAtomic
  <2>. QED
    BY <2>1, <2>2, <2>3, <2>4, <2>5, <2>6, <2>7, <2>8 DEF RuntimeInv
<1>9. CASE Running /\ lease' = OtherProcess /\ Holds /\ at' = "record" /\ reply' = reply /\ core' = Restarted(revisions)
           /\ UNCHANGED <<files, runtime>>
  <2>1. Running'
    BY <1>3, <1>9 DEF Running
  <2>. QED
    BY <1>2, <1>3, <1>4, <1>8, <1>9, <2>1
<1>10. CASE /\ Running /\ lease' = OtherProcess /\ Breaks /\ files' = files \ {revisions}
            /\ GiveUp(runtime, Restarted(path)) \/ GiveUp(runtime, [core EXCEPT !.state = "failed"])
  <2>1. [core EXCEPT !.state = "failed"].state = "failed"
    BY <1>2 DEF Cores
  <2>. QED
    BY <1>2, <1>3, <1>7, <1>10, <2>1
<1>11. CASE ~Running /\ Holds /\ at' = "record" /\ reply' = reply /\ UNCHANGED <<files, runtime, core, lease>>
  <2>1. ~Running'
    BY <1>11 DEF Running
  <2>. QED
    BY <1>2, <1>4, <1>8, <1>11, <2>1
<1>. QED
  BY <1>1, <1>9, <1>10, <1>11

LEMMA RecordKeeps == ASSUME RuntimeInv, Record PROVE RuntimeInv'
<1>. DEFINE lost == IF job.swapped THEN Restarted(path) ELSE core
<1>1. /\ at = "record" /\ UNCHANGED <<holds, marked, job, proven, revisions>>
      /\ \/ /\ Holds /\ runtime' = Candidate /\ saved' = Candidate /\ path' = revisions /\ files' = files \cap RetainedFiles
            /\ reply' = reply /\ UNCHANGED <<core, lease>>
            /\ at' = (IF job.undo THEN "commit" ELSE IF job.kind \in {"proxy", "tun"} THEN "launch" ELSE IF job.ran THEN "verify" ELSE "end")
         \/ /\ Breaks /\ UNCHANGED <<saved, path>> /\ lease' = OtherProcess /\ files' = files \ {revisions}
            /\ GiveUp(runtime, lost)
  BY DEF Record, Goes
<1>2. /\ RuntimeTypeOK /\ core \in Cores /\ lease \in Leases /\ job \in Jobs /\ files \subseteq Revisions /\ runtime \in RuntimeStates
      /\ revisions \in Revisions /\ revisions \in Nat /\ path \in Revisions /\ path \in Nat
      /\ OtherProcess \in Leases /\ OtherProcess.idle = lease.idle /\ holds \in [Revisions -> Contents]
      /\ Restarted(path) \in Cores /\ Restarted(path).state = "running" /\ Restarted(path).file = path
  BY RuntimeTypes, CoreMoves DEF RuntimeInv, Revisions
<1>3. /\ at \in Early /\ reply # "down" /\ path < revisions /\ revisions \in files /\ ~lease.idle
      /\ path \in files \ {revisions}
  BY <1>1, <1>2 DEF Early, RuntimeInv, FilesFollowPath, LeaseFits
<1>4. ASSUME Breaks, UNCHANGED <<saved, path>>, lease' = OtherProcess, files' = files \ {revisions}, GiveUp(runtime, lost)
      PROVE  RuntimeInv'
  <2>1. lost \in Cores /\ (lost.state = "dead" => core.state = "dead")
    BY <1>2
  <2>2. ASSUME lost.state \in {"running", "dead"}
        PROVE  /\ lost.file = path /\ job.kind # "boot"
               /\ job.kind \in Mutations => job.ran /\ ~(job.undo /\ runtimeFaults = 0)
    <3>1. job.swapped
      BY <1>1, <2>2 DEF RuntimeInv, FilesFollowPath, Running
    <3>. QED
      BY <1>1, <1>2, <3>1 DEF RuntimeInv, FilesFollowPath, UndoHasReason, Mutating, Mutations
  <2>. HIDE DEF lost
  <2>. QED
    BY <1>1, <1>2, <1>3, <1>4, <2>1, <2>2, RuntimeTypes, GivesUp
<1>5. ASSUME Holds, runtime' = Candidate, saved' = Candidate, path' = revisions, files' = files \cap RetainedFiles,
             reply' = reply, UNCHANGED <<core, lease>>,
             at' = (IF job.undo THEN "commit" ELSE IF job.kind \in {"proxy", "tun"} THEN "launch" ELSE IF job.ran THEN "verify" ELSE "end")
      PROVE  RuntimeInv'
  <2>1. holds[revisions] = Wanted /\ Wanted \in Contents /\ job.node \in Nodes /\ job.policy \in Policies
    BY <1>1, <1>2 DEF RuntimeInv, RecordsAgree, Wanted, Contents
  <2>2. activeOutboundID(runtime) \in Nodes \cup {NoNode}
    BY <1>2 DEF activeOutboundID, RuntimeStates
  <2>3. /\ Candidate \in RuntimeStates /\ Candidate.status = "candidate" /\ Candidate.node = job.node
        /\ Candidate.policy = job.policy
    BY <1>2, <2>1, <2>2 DEF Candidate, RuntimeStates
  <2>4. ContentOf(runtime') = Wanted /\ saved' = runtime' /\ runtime'.status = "candidate"
    BY <1>5, <2>3 DEF ContentOf, Wanted
  <2>5. /\ job.undo => at' = "commit" /\ job.kind \in Mutations
        /\ ~job.undo => at' \in {"launch", "verify", "end"} /\ (at' = "launch" <=> job.kind \in {"proxy", "tun"})
                         /\ (at' = "verify" => job.ran) /\ (at' = "end" => ~job.ran /\ job.kind \notin {"proxy", "tun"})
        /\ at' \in Late \cup {"end"}
    BY <1>5 DEF RuntimeInv, MemoryIsKnown, Late
  <2>6. RuntimeTypeOK'
    BY <1>1, <1>2, <1>5, <2>3, <2>5, RuntimeTypes, FaultsAreCounted, RuntimeTyping DEF Stages, Late
  <2>7. Running' <=> Running
    BY <1>5 DEF Running
  <2>8. revisions \in files'
    BY <1>3, <1>5 DEF RetainedFiles
  <2>9. Mutating => (Running => job.ran) /\ (job.undo => job.ran)
    BY DEF RuntimeInv, FilesFollowPath, MemoryIsKnown
  <2>10. FilesFollowPath'
    BY <1>1, <1>2, <1>3, <1>5, <2>5, <2>7, <2>8, <2>9 DEF RuntimeInv, FilesFollowPath, Mutating,
       Early, Late, Mutations
  <2>11. RecordsAgree'
    <3>1. ~(at' = "end" /\ Running')
      BY <1>1, <2>5, <2>7, <2>9 DEF RuntimeInv, FilesFollowPath, Mutating, Early
    <3>2. holds'[path'] = ContentOf(saved)'
      BY <1>1, <1>5, <2>1, <2>4 DEF ContentOf
    <3>3. Wanted' = Wanted /\ ContentOf(runtime)' = ContentOf(runtime')
      BY <1>1 DEF Wanted, ContentOf
    <3>. QED
      BY <1>1, <2>4, <2>5, <3>1, <3>2, <3>3 DEF RuntimeInv, RecordsAgree, Late
  <2>12. LeaseFits' /\ MutationIsAtomic'
    BY <1>3, <1>5, <2>5 DEF LeaseFits, MutationIsAtomic, Late
  <2>13. MemoryIsKnown'
    BY <1>1, <2>5 DEF RuntimeInv, MemoryIsKnown, Mutating, Early, Late
  <2>14. UndoHasReason'
    BY <1>1, <1>2, <1>5, <2>5, <2>7, FaultsAreCounted DEF RuntimeInv, UndoHasReason, Mutating, Late
  <2>15. RunningIsActive'
    <3>1. runtimeFaults' = runtimeFaults /\ Wanted' = Wanted /\ ContentOf(runtime)' = Wanted
      BY <1>1, <1>2, <1>5, <2>4, FaultsAreCounted DEF Wanted, ContentOf
    <3>2. ASSUME runtimeFaults <= 1, at' = "commit" PROVE Wanted \in proven
      BY <1>1, <2>5, <2>9, <3>2 DEF RuntimeInv, RunningIsActive, Mutating
    <3>. QED
      BY <1>1, <2>5, <3>1, <3>2 DEF RuntimeInv, RunningIsActive, Mutating, Early, Late, ContentOf
  <2>16. ActiveIsProven'
    BY <2>4 DEF ActiveIsProven
  <2>. QED
    BY <2>6, <2>10, <2>11, <2>12, <2>13, <2>14, <2>15, <2>16 DEF RuntimeInv
<1>. QED
  BY <1>1, <1>4, <1>5

LEMMA LaunchKeeps == ASSUME RuntimeInv, Launch PROVE RuntimeInv'
<1>1. /\ at = "launch" /\ UNCHANGED <<saved, path, files, holds, marked, lease, job, proven, revisions>>
      /\ \/ /\ Holds /\ at' = "verify" /\ reply' = reply /\ runtime' = runtime
            /\ core' = [state |-> "running", file |-> path, tun |-> job.kind = "tun"]
         \/ Breaks /\ GiveUp(runtime, Stopped)
  BY DEF Launch, Goes
<1>2. /\ RuntimeTypeOK /\ lease \in Leases /\ job \in Jobs /\ files \subseteq Revisions /\ path \in Revisions
      /\ marked \in Revisions /\ Stopped \in Cores /\ Stopped.state = "stopped"
  BY RuntimeTypes, CoreMoves DEF RuntimeInv
<1>3. at \in Late /\ job.kind \notin Mutations /\ job.kind # "boot" /\ path \in files /\ ~lease.idle /\ reply # "down"
  BY <1>1 DEF RuntimeInv, FilesFollowPath, LeaseFits, Late, Mutations
<1>4. CASE Breaks /\ GiveUp(runtime, Stopped)
  BY <1>1, <1>2, <1>3, <1>4, GivesUp
<1>5. ASSUME Holds, at' = "verify", reply' = reply, runtime' = runtime,
             core' = [state |-> "running", file |-> path, tun |-> job.kind = "tun"]
      PROVE  RuntimeInv'
  <2>1. core' \in Cores /\ core'.state = "running" /\ core'.file = path
    BY <1>2, <1>5, (job.kind = "tun") \in BOOLEAN DEF Cores
  <2>2. RuntimeTypeOK'
    BY <1>1, <1>2, <1>5, <2>1, RuntimeTypes, FaultsAreCounted, RuntimeTyping DEF Stages
  <2>3. FilesFollowPath'
    BY <1>1, <1>3, <1>5, <2>1 DEF RuntimeInv, FilesFollowPath, Mutating, Early, Late
  <2>4. RecordsAgree'
    BY <1>1, <1>5 DEF RuntimeInv, RecordsAgree, ContentOf, Wanted, Early, Late
  <2>5. LeaseFits' /\ MemoryIsKnown' /\ UndoHasReason' /\ MutationIsAtomic'
    BY <1>1, <1>3, <1>5, <2>1 DEF RuntimeInv, LeaseFits, MemoryIsKnown, UndoHasReason,
       MutationIsAtomic, Mutating
  <2>6. RunningIsActive'
    BY <1>1, <1>3, <1>5 DEF RunningIsActive, Mutating
  <2>7. ActiveIsProven'
    BY <1>1, <1>2, <1>5, FaultsAreCounted DEF RuntimeInv, ActiveIsProven
  <2>. QED
    BY <2>2, <2>3, <2>4, <2>5, <2>6, <2>7 DEF RuntimeInv
<1>. QED
  BY <1>1, <1>4, <1>5

\* What is given up when it runs already: an operation that is no mutation, or one that went back.
LEMMA LateFails ==
    ASSUME RuntimeInv, at \in {"verify", "commit"}, GiveUp(runtime, core), Breaks \/ Holds,
           job.kind \notin Mutations \/ (job.undo /\ Breaks),
           marked' \in Revisions, marked' = marked \/ at = "commit",
           UNCHANGED <<saved, path, files, holds, lease, job, proven, revisions>>
    PROVE  RuntimeInv'
<1>1. /\ at \in Late /\ lease \in Leases /\ ~lease.idle /\ core \in Cores /\ job \in Jobs /\ files \subseteq Revisions
      /\ path \in files
  BY RuntimeTypes DEF RuntimeInv, FilesFollowPath, LeaseFits, Late
<1>2. ASSUME core.state \in {"running", "dead"}
      PROVE  /\ core.file = path /\ job.kind # "boot"
             /\ job.kind \in Mutations => job.ran /\ ~(job.undo /\ runtimeFaults = 0)
  BY <1>1, <1>2 DEF RuntimeInv, FilesFollowPath, UndoHasReason, Mutating, Running, Late
<1>. QED
  BY <1>1, <1>2, GivesUp

LEMMA VerifyKeeps == ASSUME RuntimeInv, Verify PROVE RuntimeInv'
<1>1. /\ at = "verify" /\ UNCHANGED <<saved, path, files, holds, marked, lease, revisions>>
      /\ \/ /\ core.state = "running" /\ Holds /\ at' = "commit" /\ reply' = reply /\ proven' = proven \cup {holds[core.file]}
            /\ UNCHANGED <<job, runtime, core>>
         \/ /\ IF core.state = "running" THEN Breaks ELSE Holds
            /\ proven' = proven
            /\ IF job.kind \in Mutations THEN Undo ELSE GiveUp(runtime, core) /\ job' = job
  BY DEF Verify, Goes
<1>2. /\ RuntimeTypeOK /\ marked \in Revisions /\ holds \in [Revisions -> Contents] /\ path \in Revisions
      /\ proven \subseteq Contents
  BY RuntimeTypes DEF RuntimeInv
<1>3. CASE /\ IF core.state = "running" THEN Breaks ELSE Holds
           /\ proven' = proven
           /\ IF job.kind \in Mutations THEN Undo ELSE GiveUp(runtime, core) /\ job' = job
  <2>1. CASE job.kind \in Mutations
    BY <1>1, <1>2, <1>3, <2>1, UndoKeeps
  <2>2. CASE job.kind \notin Mutations
    BY <1>1, <1>2, <1>3, <2>2, LateFails
  <2>. QED
    BY <2>1, <2>2
<1>4. ASSUME core.state = "running", Holds, at' = "commit", reply' = reply, proven' = proven \cup {holds[core.file]},
             UNCHANGED <<job, runtime, core>>
      PROVE  RuntimeInv'
  <2>1. core.file = path /\ reply # "down" /\ saved = runtime
    BY <1>1, <1>4 DEF RuntimeInv, FilesFollowPath, RecordsAgree, Running, Late
  <2>2. holds[path] = ContentOf(runtime) /\ ContentOf(runtime) \in proven'
    BY <1>1, <1>4, <2>1 DEF RuntimeInv, RecordsAgree, Early
  <2>3. proven' \subseteq Contents /\ proven \subseteq proven' /\ runtimeFaults' = runtimeFaults
    BY <1>2, <1>4, <2>1, FaultsAreCounted
  <2>4. RuntimeTypeOK'
    BY <1>1, <1>2, <1>4, <2>3, RuntimeTypes, FaultsAreCounted, RuntimeTyping DEF Stages
  <2>5. FilesFollowPath'
    BY <1>1, <1>4 DEF RuntimeInv, FilesFollowPath, Running, Mutating, Early, Late
  <2>6. RecordsAgree'
    BY <1>1, <1>4 DEF RuntimeInv, RecordsAgree, ContentOf, Wanted, Early, Late
  <2>7. LeaseFits' /\ MemoryIsKnown' /\ MutationIsAtomic'
    BY <1>1, <1>4 DEF RuntimeInv, LeaseFits, MemoryIsKnown, MutationIsAtomic, Mutating, Early
  <2>8. UndoHasReason'
    BY <1>1, <1>4, <2>3 DEF RuntimeInv, UndoHasReason, Mutating, Running
  <2>9. RunningIsActive'
    <3>1. ContentOf(runtime)' = ContentOf(runtime)
      BY <1>4 DEF ContentOf
    <3>. QED
      BY <1>1, <1>4, <2>2, <2>3, <3>1 DEF RuntimeInv, RunningIsActive, Mutating, Wanted, Early,
         ContentOf
  <2>10. ActiveIsProven'
    BY <1>1, <1>4, <2>3 DEF RuntimeInv, ActiveIsProven
  <2>. QED
    BY <2>4, <2>5, <2>6, <2>7, <2>8, <2>9, <2>10 DEF RuntimeInv
<1>. QED
  BY <1>1, <1>3, <1>4

LEMMA CommitKeeps == ASSUME RuntimeInv, Commit PROVE RuntimeInv'
<1>1. /\ at = "commit" /\ UNCHANGED <<path, holds, proven, revisions>>
      /\ \/ /\ Holds /\ runtime' = Active /\ saved' = Active /\ marked' = runtime.revision /\ files' = files \cap {path}
            /\ at' = "end" /\ reply' = reply /\ UNCHANGED <<core, job>>
            /\ lease' = (IF job.kind = "proxy" /\ Running THEN [revision |-> runtime.revision, same |-> TRUE, idle |-> FALSE] ELSE lease)
         \/ /\ Breaks /\ marked' \in {marked, runtime.revision} /\ UNCHANGED <<saved, files, lease>>
            /\ IF job.kind \in Mutations /\ ~job.undo THEN Undo ELSE GiveUp(runtime, core) /\ job' = job
  BY DEF Commit, Goes
<1>2. /\ RuntimeTypeOK /\ runtime \in RuntimeStates /\ runtime.revision \in Revisions /\ marked \in Revisions
      /\ lease \in Leases /\ path \in Revisions /\ files \subseteq Revisions
  BY RuntimeTypes DEF RuntimeInv, RuntimeStates
<1>3. CASE /\ Breaks /\ marked' \in {marked, runtime.revision} /\ UNCHANGED <<saved, files, lease>>
           /\ IF job.kind \in Mutations /\ ~job.undo THEN Undo ELSE GiveUp(runtime, core) /\ job' = job
  <2>1. CASE job.kind \in Mutations /\ ~job.undo
    BY <1>1, <1>2, <1>3, <2>1, UndoKeeps
  <2>2. CASE job.kind \notin Mutations \/ job.undo
    BY <1>1, <1>2, <1>3, <2>2, LateFails
  <2>. QED
    BY <2>1, <2>2
<1>4. ASSUME Holds, runtime' = Active, saved' = Active, marked' = runtime.revision, files' = files \cap {path},
             at' = "end", reply' = reply, UNCHANGED <<core, job>>,
             lease' = (IF job.kind = "proxy" /\ Running THEN [revision |-> runtime.revision, same |-> TRUE, idle |-> FALSE] ELSE lease)
      PROVE  RuntimeInv'
  <2>1. /\ Active \in RuntimeStates /\ Active.status = "active" /\ Active.node = runtime.node /\ Active.policy = runtime.policy
        /\ Active.active = runtime.node /\ Active.revision = runtime.revision
    BY <1>2 DEF Active, RuntimeStates
  <2>2. ContentOf(runtime)' = ContentOf(runtime) /\ ContentOf(saved)' = ContentOf(runtime) /\ Wanted' = Wanted
    BY <1>4, <2>1 DEF ContentOf, Wanted
  <2>3. lease' \in Leases /\ ~lease'.idle /\ path \in files /\ reply # "down" /\ saved = runtime
    BY <1>1, <1>2, <1>4 DEF RuntimeInv, LeaseFits, Leases, FilesFollowPath, RecordsAgree, Late
  <2>4. RuntimeTypeOK'
    BY <1>1, <1>2, <1>4, <2>1, <2>3, RuntimeTypes, FaultsAreCounted, RuntimeTyping DEF Stages
  <2>5. FilesFollowPath'
    BY <1>1, <1>4, <2>3 DEF RuntimeInv, FilesFollowPath, Running, Mutating, Early, Late
  <2>6. RecordsAgree'
    BY <1>1, <1>4, <2>1, <2>2, <2>3 DEF RuntimeInv, RecordsAgree, Early, Late, ContentOf
  <2>7. LeaseFits' /\ MutationIsAtomic'
    BY <1>4, <2>3 DEF LeaseFits, MutationIsAtomic
  <2>8. MemoryIsKnown'
    BY <1>1, <1>4 DEF RuntimeInv, MemoryIsKnown, Mutating, Early
  <2>9. UndoHasReason'
    BY <1>1, <1>2, <1>4, FaultsAreCounted DEF RuntimeInv, UndoHasReason, Mutating, Running
  <2>10. RunningIsActive'
    BY <1>1, <1>2, <1>4, <2>2, FaultsAreCounted DEF RuntimeInv, RunningIsActive, Mutating, Early,
       ContentOf
  <2>11. ActiveIsProven'
    <3>1. ASSUME runtimeFaults' <= 1 PROVE ContentOf(runtime)' \in proven'
      BY <1>1, <1>2, <1>4, <2>2, <3>1, FaultsAreCounted DEF RuntimeInv, RunningIsActive
    <3>2. saved' = runtime'
      BY <1>4
    <3>. QED
      BY <3>1, <3>2 DEF ActiveIsProven, ContentOf
  <2>. QED
    BY <2>4, <2>5, <2>6, <2>7, <2>8, <2>9, <2>10, <2>11 DEF RuntimeInv
<1>. QED
  BY <1>1, <1>3, <1>4

-----------------------------------------------------------------------------
LEMMA RuntimeInitInv == ASSUME RuntimeInit PROVE RuntimeInv
<1>1. PICK n \in Nodes, p \in Policies :
         /\ runtime = [node |-> n, policy |-> p, active |-> n, status |-> "active", revision |-> 0, known |-> 0]
         /\ holds = [r \in Revisions |-> [node |-> n, policy |-> p]] /\ proven = {[node |-> n, policy |-> p]}
         /\ job = [kind |-> "boot", node |-> n, policy |-> p, before |-> runtime, ran |-> FALSE, warm |-> FALSE,
                   swapped |-> FALSE, undo |-> FALSE]
  BY DEF RuntimeInit
<1>2. /\ saved = runtime /\ path = 0 /\ files = {0} /\ marked = 0 /\ core = [state |-> "stopped", file |-> 0, tun |-> FALSE]
      /\ lease = NoLease /\ at = "idle" /\ reply = "none" /\ revisions = 0 /\ runtimeFaults = 0
  BY DEF RuntimeInit
<1>3. 0 \in Revisions /\ 0 \in 0 .. MaxRevisions /\ 0 \in 0 .. MaxRuntimeFaults
  BY RuntimeAssumption DEF Revisions
<1>4. /\ runtime \in RuntimeStates /\ runtime.node = n /\ runtime.policy = p /\ runtime.active = n /\ runtime.revision = 0
      /\ [node |-> n, policy |-> p] \in Contents
  BY <1>1, <1>3 DEF RuntimeStates, Contents
<1>5. job \in Jobs /\ job.kind = "boot" /\ job.before = runtime /\ job.undo = FALSE
  BY <1>1, <1>4 DEF Jobs, Kinds
<1>6. core \in Cores /\ core.state = "stopped" /\ lease \in Leases /\ ~lease.idle
  BY <1>2, <1>3 DEF Cores, Leases, NoLease
<1>7. RuntimeTypeOK
  BY <1>1, <1>2, <1>3, <1>4, <1>5, <1>6 DEF RuntimeTypeOK, Jobs, Cores, Leases
<1>8. FilesFollowPath
  BY <1>2, <1>6 DEF FilesFollowPath, Running, Mutating, Early, Late
<1>9. RecordsAgree
  BY <1>1, <1>2, <1>3, <1>4, <1>5 DEF RecordsAgree, ContentOf, Early, Late
<1>10. LeaseFits /\ MemoryIsKnown /\ UndoHasReason /\ RunningIsActive /\ MutationIsAtomic
  BY <1>2, <1>5, <1>6 DEF LeaseFits, MemoryIsKnown, UndoHasReason, RunningIsActive,
     MutationIsAtomic, Mutating, Running
<1>11. ActiveIsProven
  BY <1>1, <1>2, <1>4 DEF ActiveIsProven
<1>. QED
  BY <1>7, <1>8, <1>9, <1>10, <1>11 DEF RuntimeInv

LEMMA RuntimeNextInv == ASSUME RuntimeInv, [RuntimeNext]_runtimeVars PROVE RuntimeInv'
<1>1. CASE RuntimeNext
  BY <1>1, MutationsBegin, CaptureBegins, CoreNotReadyKeeps, LeaseKeeps, ExpireKeeps,
     PrepareKeeps, SwapKeeps, RecordKeeps, LaunchKeeps, VerifyKeeps, CommitKeeps, FinishKeeps,
     DeathsKeep, ServiceDiesKeeps, ServiceStartsKeeps DEF RuntimeNext
<1>2. CASE UNCHANGED runtimeVars
  BY <1>2 DEF runtimeVars, RuntimeInv, RuntimeTypeOK, FilesFollowPath, RecordsAgree, LeaseFits,
     MemoryIsKnown, UndoHasReason, RunningIsActive, ActiveIsProven, MutationIsAtomic, Mutating,
     Running, Wanted, ContentOf
<1>. QED
  BY <1>1, <1>2

LEMMA RuntimeSafe == ASSUME RuntimeInv PROVE RunningIsRecorded /\ NeededFilesStay /\ ActiveIsProven /\ MutationIsAtomic
<1>1. NeededFilesStay
  BY DEF RuntimeInv, FilesFollowPath, NeededFilesStay
<1>2. RunningIsRecorded
  BY DEF RuntimeInv, FilesFollowPath, RecordsAgree, LeaseFits, RunningIsActive, RunningIsRecorded,
     Running, ContentOf, Early
<1>. QED
  BY <1>1, <1>2 DEF RuntimeInv

-----------------------------------------------------------------------------
(* core.select (CoreSwitch).                                               *)

Befores == [picked : Kernels, memory : States, configured : Versions]
Switches ==
    [step : {"none", "compile", "record", "launch", "commit", "restore", "giveBack", "startAgain"}, target : Kernels,
     before : Befores, ran : BOOLEAN, stopFailed : BOOLEAN, answer : {"none", "ok", "failed"}]
Healths == {"stopped", "running", "dead", "failed", "dirty"}

SwitchTyped ==
    /\ picked \in Kernels /\ alive \subseteq Kernels /\ loaded \in [Kernels -> Versions] /\ sup \in [Kernels -> Healths]
    /\ memory \in States /\ disk \in States /\ configured \in Versions /\ kept \subseteq Versions
    /\ fits \in [Versions -> Kernels] /\ warm \in BOOLEAN /\ versions \in Versions /\ switchFaults \in 0 .. MaxSwitchFaults
    /\ switch = NoSwitch \/ switch \in Switches

\* What is in use has been compiled before.
Numbered ==
    /\ configured <= versions /\ \A k \in Kernels : loaded[k] <= versions
    /\ ~Resting => switch.before.configured <= versions
    /\ switch.step = "record" => switch.before.configured < versions

\* The path fits the core that may be started with it.
FilesFit ==
    /\ memory.core = picked /\ FileFitsCore
    /\ switch.step \in {"none", "launch", "commit", "startAgain"} => fits[configured] = picked
    /\ switch.step = "record" => fits[versions] = picked
    /\ switch.step \in {"compile", "record"} => sup[picked] = "stopped"
    /\ switch.step = "restore" /\ sup[picked] # "stopped" => fits[configured] = picked
    /\ ~Resting => switch.before.memory.core = switch.before.picked /\ fits[switch.before.configured] = switch.before.picked

\* A core that was stopped for a switch can be started again as it was.
StaysUndoable ==
    /\ Resting /\ SaysUp(picked) => memory.status = "active" /\ configured \in kept
    /\ ~Resting => ~SaysUp(switch.before.picked)
    /\ ~Resting /\ switch.ran => switch.before.memory.status = "active" /\ switch.before.configured \in kept
    /\ switch.step \in {"compile", "record"} =>
          memory.status = switch.before.memory.status /\ configured = switch.before.configured
    /\ switch.step = "record" => versions \in kept
    /\ switch.step \in {"launch", "commit"} => configured \in kept
    /\ switch.step \in {"compile", "record", "launch", "commit", "restore", "giveBack"} => picked # switch.before.picked
    /\ switch.step = "startAgain" =>
          /\ picked = switch.before.picked /\ memory = switch.before.memory /\ configured = switch.before.configured
          /\ switchFaults <= 1 => disk = memory

\* A switch that goes back has failed, and what it left is cold.
SwitchFaulty ==
    /\ switch.step \in {"restore", "giveBack", "startAgain"} => switchFaults >= 1
    /\ ~Resting \/ switch.answer = "failed" => ~warm
    /\ ~Resting => ~switch.stopFailed

AliveIsUp == switchFaults = 0 => alive \subseteq {picked} /\ (picked \in alive => sup[picked] = "running")

SwitchInv == SwitchTyped /\ Numbered /\ FilesFit /\ StaysUndoable /\ SwitchFaulty /\ AliveIsUp /\ SwitchIsUndone

SwitchStepNames == {"none", "compile", "record", "launch", "commit", "restore", "giveBack", "startAgain"}

LEMMA Switching == ASSUME SwitchTyped, ~Resting PROVE switch \in Switches /\ switch.before \in Befores /\ switch.ran \in BOOLEAN
<1>1. switch # NoSwitch
  BY DEF NoSwitch, Resting
<1>. QED
  BY <1>1 DEF SwitchTyped, Switches

\* The fields that a step of the switch keeps.
SameSwitch == switch'.before = switch.before /\ switch'.ran = switch.ran /\ switch'.stopFailed = switch.stopFailed

LEMMA SwitchGoes ==
    ASSUME switch \in Switches, NEW step \in SwitchStepNames, SwitchTo(step)
    PROVE  switch' \in Switches /\ switch'.step = step /\ switch'.answer = switch.answer /\ SameSwitch
  BY DEF Switches, SwitchTo, SwitchStepNames, SameSwitch

LEMMA SwitchEnds ==
    ASSUME switch \in Switches, NEW answer \in {"none", "ok", "failed"}, SwitchAnswers(answer)
    PROVE  switch' \in Switches /\ switch'.step = "none" /\ switch'.answer = answer /\ SameSwitch
  BY DEF Switches, SwitchAnswers, SameSwitch

\* A configuration that is compiled is one more, and changes no other.
LEMMA CompiledOne ==
    ASSUME SwitchTyped, NEW k \in Kernels, Compiled(k)
    PROVE  /\ versions' = versions + 1 /\ versions' \in Versions /\ fits' \in [Versions -> Kernels]
           /\ fits'[versions'] = k /\ \A v \in Versions : v <= versions => fits'[v] = fits[v]
           /\ versions \in Nat /\ versions + 1 \in Versions
  BY SwitchAssumption DEF SwitchTyped, Versions, Compiled

-----------------------------------------------------------------------------
LEMMA CompileKeeps == ASSUME SwitchInv, CompileNext PROVE SwitchInv'
<1>0. /\ switch \in Switches /\ switch.before \in Befores /\ ~Resting /\ switch.step = "compile"
  BY Switching DEF SwitchInv, CompileNext, Resting
<1>1. UNCHANGED <<picked, sup, alive, loaded, memory, disk, configured, warm>> /\ versions \in Nat /\ MaxVersions \in Nat
  BY SwitchAssumption DEF CompileNext, SwitchInv, SwitchTyped, Versions
<1>2. \/ /\ switchFaults' = switchFaults /\ kept' = kept \cup {versions'} /\ Compiled(memory.core) /\ SwitchTo("record")
      \/ /\ switchFaults' = switchFaults + 1 /\ switchFaults < MaxSwitchFaults /\ UNCHANGED <<versions, fits, kept>>
         /\ SwitchTo("restore")
  BY DEF CompileNext, StepWorks, StepFails, Compiled
<1>3. memory.core = picked /\ picked \in Kernels
  BY DEF SwitchInv, FilesFit, SwitchTyped
<1>4. \/ /\ switchFaults' = switchFaults /\ kept' = kept \cup {versions'} /\ switch'.step = "record"
         /\ versions' = versions + 1 /\ versions' \in Versions /\ fits' \in [Versions -> Kernels]
         /\ fits'[versions'] = picked /\ \A v \in Versions : v <= versions => fits'[v] = fits[v]
      \/ /\ switchFaults' = switchFaults + 1 /\ switchFaults < MaxSwitchFaults /\ UNCHANGED <<versions, fits, kept>>
         /\ switch'.step = "restore"
  BY <1>0, <1>2, <1>3, SwitchGoes, CompiledOne DEF SwitchInv, SwitchStepNames
<1>5. switch' \in Switches /\ SameSwitch /\ switch'.answer = switch.answer
  BY <1>0, <1>2, SwitchGoes DEF SwitchStepNames
<1>6. switch.before.configured \in Versions
  BY <1>0 DEF Befores
<1>21. SwitchTyped'
  <2>1. versions' \in Versions /\ fits' \in [Versions -> Kernels] /\ kept' \subseteq Versions
    BY <1>4 DEF SwitchInv, SwitchTyped
  <2>2. switchFaults' \in 0 .. MaxSwitchFaults
    BY <1>4, SwitchAssumption DEF SwitchInv, SwitchTyped
  <2>. QED
    BY <1>1, <1>5, <2>1, <2>2 DEF SwitchInv, SwitchTyped
<1>22. Numbered'
  <2>1. /\ configured <= versions /\ switch.before.configured <= versions
        /\ \A k \in Kernels : loaded[k] <= versions /\ loaded[k] \in Versions
    BY <1>0 DEF SwitchInv, SwitchTyped, Numbered
  <2>2. /\ configured <= versions' /\ switch.before.configured <= versions'
        /\ \A k \in Kernels : loaded[k] <= versions'
        /\ switch'.step = "record" => switch.before.configured < versions'
    <3>1. versions <= versions' /\ versions' \in Nat /\ (switch'.step = "record" => versions < versions')
      BY <1>1, <1>4
    <3>2. configured \in Nat /\ switch.before.configured \in Nat /\ \A k \in Kernels : loaded[k] \in Nat
      BY <1>6, <2>1 DEF SwitchInv, SwitchTyped, Versions
    <3>. QED
      BY <1>1, <2>1, <3>1, <3>2
  <2>. QED
    BY <1>1, <1>5, <2>2 DEF Numbered, SameSwitch
<1>23. FilesFit'
  BY <1>0, <1>1, <1>3, <1>4, <1>5, <1>6, SwitchAssumption DEF SwitchInv, SameSwitch, SwitchTyped,
     Versions, Numbered, FilesFit, FileFitsCore, SaysUp, Resting
<1>24. StaysUndoable'
  BY <1>0, <1>1, <1>3, <1>4, <1>5, <1>6, SwitchAssumption DEF SwitchInv, SameSwitch, SwitchTyped,
     Versions, Numbered, FilesFit, StaysUndoable, SwitchFaulty, SaysUp, Resting
<1>25. SwitchFaulty'
  BY <1>0, <1>1, <1>3, <1>4, <1>5, <1>6, SwitchAssumption DEF SwitchInv, SameSwitch, SwitchTyped,
     SwitchFaulty, Resting
<1>26. AliveIsUp'
  BY <1>0, <1>1, <1>3, <1>4, <1>5, <1>6, SwitchAssumption DEF SwitchInv, SameSwitch, SwitchTyped,
     SwitchFaulty, AliveIsUp, SaysUp, Resting
<1>27. SwitchIsUndone'
  BY <1>0, <1>1, <1>3, <1>4, <1>5, <1>6, SwitchAssumption DEF SwitchInv, SameSwitch, SwitchTyped,
     SwitchFaulty, StaysUndoable, SwitchIsUndone, Resting
<1>. QED
  BY <1>21, <1>22, <1>23, <1>24, <1>25, <1>26, <1>27 DEF SwitchInv

LEMMA SwitchRecordKeeps == ASSUME SwitchInv, RecordNext PROVE SwitchInv'
<1>0. /\ switch \in Switches /\ switch.before \in Befores /\ ~Resting /\ switch.step = "record"
  BY Switching DEF SwitchInv, RecordNext, Resting
<1>1. UNCHANGED <<picked, sup, alive, loaded, fits, warm, versions>>
  BY DEF RecordNext
<1>2. \/ /\ switchFaults' = switchFaults /\ memory' = CandidateOf(versions) /\ disk' = memory' /\ configured' = versions
         /\ kept' = kept \cap FilesAfter(versions)
         /\ \/ switch.ran /\ SwitchTo("launch")
            \/ ~switch.ran /\ SwitchAnswers("ok")
      \/ /\ switchFaults' = switchFaults + 1 /\ switchFaults < MaxSwitchFaults /\ kept' = kept \ {versions}
         /\ UNCHANGED <<memory, disk, configured>> /\ SwitchTo("restore")
  BY DEF RecordNext, StepWorks, StepFails
<1>3. /\ CandidateOf(versions) \in States /\ CandidateOf(versions).core = memory.core /\ CandidateOf(versions).status = "candidate"
  BY DEF CandidateOf, SwitchInv, SwitchTyped, States
<1>4. \/ /\ switchFaults' = switchFaults /\ memory' \in States /\ memory'.core = memory.core /\ disk' = memory' /\ configured' = versions
         /\ kept' = kept \cap FilesAfter(versions)
         /\ \/ switch.ran /\ switch'.step = "launch" /\ switch'.answer = switch.answer
            \/ ~switch.ran /\ switch'.step = "none" /\ switch'.answer = "ok"
      \/ /\ switchFaults' = switchFaults + 1 /\ switchFaults < MaxSwitchFaults /\ kept' = kept \ {versions}
         /\ UNCHANGED <<memory, disk, configured>> /\ switch'.step = "restore" /\ switch'.answer = switch.answer
  BY <1>0, <1>2, <1>3, SwitchGoes, SwitchEnds DEF SwitchStepNames
<1>5. switch' \in Switches /\ SameSwitch
  BY <1>0, <1>2, SwitchGoes, SwitchEnds DEF SwitchStepNames
<1>6. switch.before.configured \in Versions /\ switch.ran \in BOOLEAN /\ kept' \subseteq kept
  BY <1>0, <1>4 DEF Befores, Switches
<1>7. configured = switch.before.configured /\ memory.status = switch.before.memory.status /\ switch.before.configured < versions
  BY <1>0 DEF SwitchInv, StaysUndoable, Numbered
<1>21. SwitchTyped'
  BY <1>0, <1>1, <1>4, <1>5, <1>6, <1>7, SwitchAssumption DEF SwitchInv, SameSwitch, SwitchTyped
<1>22. Numbered'
  BY <1>0, <1>1, <1>4, <1>5, <1>6, <1>7, SwitchAssumption DEF SwitchInv, SameSwitch, SwitchTyped,
     Numbered, Versions, Resting
<1>23. FilesFit'
  BY <1>0, <1>1, <1>4, <1>5, <1>6, <1>7, SwitchAssumption DEF SwitchInv, SameSwitch, SwitchTyped,
     Versions, Numbered, FilesFit, FileFitsCore, SaysUp, Resting
<1>24. StaysUndoable'
  <2>1. sup[picked] = "stopped" /\ versions \in kept /\ picked # switch.before.picked /\ ~SaysUp(switch.before.picked)
    BY <1>0 DEF SwitchInv, FilesFit, StaysUndoable
  <2>2. switch.ran => switch.before.memory.status = "active" /\ switch.before.configured \in kept
    BY <1>0 DEF SwitchInv, StaysUndoable
  <2>3. ~SaysUp(picked)' /\ ~SaysUp(switch.before.picked)'
    BY <1>1, <1>5, <2>1 DEF SaysUp, SameSwitch
  <2>4. switch'.step = "launch" => versions \in kept' /\ configured' = versions
    BY <1>4, <2>1 DEF FilesAfter
  <2>5. ~Resting' /\ switch.ran => switch.before.configured \in kept'
    BY <1>4, <1>6, <1>7, <2>2, SwitchAssumption DEF FilesAfter, SwitchInv, SwitchTyped, Versions,
       Resting
  <2>6. switch'.step \in {"none", "launch", "restore"}
    BY <1>4
  <2>. QED
    BY <1>1, <1>5, <2>1, <2>2, <2>3, <2>4, <2>5, <2>6 DEF StaysUndoable, SameSwitch, Resting
<1>25. SwitchFaulty'
  BY <1>0, <1>1, <1>4, <1>5, <1>6, <1>7, SwitchAssumption DEF SwitchInv, SameSwitch, SwitchTyped,
     SwitchFaulty, Resting
<1>26. AliveIsUp'
  BY <1>0, <1>1, <1>4, <1>5, <1>6, <1>7, SwitchAssumption DEF SwitchInv, SameSwitch, SwitchTyped,
     SwitchFaulty, AliveIsUp, SaysUp, Resting
<1>27. SwitchIsUndone'
  BY <1>0, <1>1, <1>4, <1>5, <1>6, <1>7, SwitchAssumption DEF SwitchInv, SameSwitch, SwitchTyped,
     SwitchFaulty, StaysUndoable, SwitchIsUndone, Resting
<1>. QED
  BY <1>21, <1>22, <1>23, <1>24, <1>25, <1>26, <1>27 DEF SwitchInv

LEMMA SwitchLaunchKeeps == ASSUME SwitchInv, LaunchNext PROVE SwitchInv'
<1>0. /\ switch \in Switches /\ switch.before \in Befores /\ ~Resting /\ switch.step = "launch"
  BY Switching DEF SwitchInv, LaunchNext, Resting
<1>1. UNCHANGED <<picked, memory, disk, configured, kept, fits, warm, versions>>
  BY DEF LaunchNext
<1>2. \/ /\ switchFaults' = switchFaults /\ sup' = [sup EXCEPT ![picked] = "running"] /\ alive' = alive \cup {picked}
         /\ loaded' = [loaded EXCEPT ![picked] = configured] /\ SwitchTo("commit")
      \/ /\ switchFaults' = switchFaults + 1 /\ switchFaults < MaxSwitchFaults /\ sup' = [sup EXCEPT ![picked] = "failed"]
         /\ UNCHANGED <<alive, loaded>> /\ SwitchTo("restore")
  BY DEF LaunchNext, StepWorks, StepFails, StartUp
<1>4. \/ /\ switchFaults' = switchFaults /\ sup' = [sup EXCEPT ![picked] = "running"] /\ alive' = alive \cup {picked}
         /\ loaded' = [loaded EXCEPT ![picked] = configured] /\ switch'.step = "commit"
      \/ /\ switchFaults' = switchFaults + 1 /\ switchFaults < MaxSwitchFaults /\ sup' = [sup EXCEPT ![picked] = "failed"]
         /\ UNCHANGED <<alive, loaded>> /\ switch'.step = "restore"
  BY <1>0, <1>2, SwitchGoes DEF SwitchStepNames
<1>5. switch' \in Switches /\ SameSwitch /\ switch'.answer = switch.answer
  BY <1>0, <1>2, SwitchGoes DEF SwitchStepNames
<1>6. switch.before.configured \in Versions /\ switch.before.picked \in Kernels /\ sup' \in [Kernels -> Healths]
  BY <1>0, <1>4 DEF Befores, SwitchInv, SwitchTyped, Healths
<1>7. picked # switch.before.picked /\ picked \in Kernels
  BY <1>0 DEF SwitchInv, SwitchTyped, StaysUndoable
<1>8. ~SaysUp(switch.before.picked) /\ sup'[switch.before.picked] = sup[switch.before.picked]
  BY <1>0, <1>4, <1>6, <1>7 DEF SwitchInv, SwitchTyped, StaysUndoable, Healths
<1>9. ~SaysUp(switch.before.picked)'
  BY <1>5, <1>8 DEF SaysUp, SameSwitch
<1>21. SwitchTyped'
  BY <1>0, <1>1, <1>4, <1>5, <1>6, SwitchAssumption DEF SwitchInv, SameSwitch, SwitchTyped
<1>22. Numbered'
  BY <1>0, <1>1, <1>4, <1>5, <1>6, SwitchAssumption DEF SwitchInv, SameSwitch, SwitchTyped,
     Numbered, Versions, Resting
<1>23. FilesFit'
  BY <1>0, <1>1, <1>4, <1>5, <1>6, SwitchAssumption DEF SwitchInv, SameSwitch, SwitchTyped,
     Versions, Numbered, FilesFit, FileFitsCore, SaysUp, Resting
<1>24. StaysUndoable'
  BY <1>0, <1>1, <1>4, <1>5, <1>7, <1>8, <1>9 DEF SwitchInv, SameSwitch, StaysUndoable, Resting
<1>25. SwitchFaulty'
  BY <1>0, <1>1, <1>4, <1>5, <1>6, SwitchAssumption DEF SwitchInv, SameSwitch, SwitchTyped,
     SwitchFaulty, Resting
<1>26. AliveIsUp'
  BY <1>0, <1>1, <1>4, <1>5, <1>6, SwitchAssumption DEF SwitchInv, SameSwitch, SwitchTyped,
     SwitchFaulty, AliveIsUp, SaysUp, Resting
<1>27. SwitchIsUndone'
  BY <1>0, <1>1, <1>4, <1>5, <1>6, SwitchAssumption DEF SwitchInv, SameSwitch, SwitchTyped,
     SwitchFaulty, StaysUndoable, SwitchIsUndone, Resting
<1>. QED
  BY <1>21, <1>22, <1>23, <1>24, <1>25, <1>26, <1>27 DEF SwitchInv

LEMMA SwitchCommitKeeps == ASSUME SwitchInv, CommitNext PROVE SwitchInv'
<1>0. /\ switch \in Switches /\ switch.before \in Befores /\ ~Resting /\ switch.step = "commit"
  BY Switching DEF SwitchInv, CommitNext, Resting
<1>1. UNCHANGED <<picked, sup, alive, loaded, configured, fits, warm, versions>>
  BY DEF CommitNext
<1>2. \/ /\ switchFaults' = switchFaults /\ memory' = [memory EXCEPT !.status = "active"] /\ disk' = memory'
         /\ kept' = kept \cap {configured} /\ SwitchAnswers("ok")
      \/ /\ switchFaults' = switchFaults + 1 /\ switchFaults < MaxSwitchFaults
         /\ UNCHANGED <<memory, disk, kept>> /\ SwitchTo("restore")
  BY DEF CommitNext, StepWorks, StepFails
<1>3. LET active == [memory EXCEPT !.status = "active"]
      IN  active \in States /\ active.core = memory.core /\ active.status = "active"
  BY DEF SwitchInv, SwitchTyped, States
<1>4. \/ /\ switchFaults' = switchFaults /\ memory' \in States /\ memory'.core = memory.core /\ memory'.status = "active"
         /\ disk' = memory' /\ kept' = kept \cap {configured} /\ switch'.step = "none" /\ switch'.answer = "ok"
      \/ /\ switchFaults' = switchFaults + 1 /\ switchFaults < MaxSwitchFaults
         /\ UNCHANGED <<memory, disk, kept>> /\ switch'.step = "restore" /\ switch'.answer = switch.answer
  BY <1>0, <1>2, <1>3, SwitchGoes, SwitchEnds DEF SwitchStepNames
<1>5. switch' \in Switches /\ SameSwitch
  BY <1>0, <1>2, SwitchGoes, SwitchEnds DEF SwitchStepNames
<1>21. SwitchTyped'
  BY <1>0, <1>1, <1>4, <1>5, SwitchAssumption DEF SwitchInv, SameSwitch, SwitchTyped
<1>22. Numbered'
  BY <1>0, <1>1, <1>4, <1>5, SwitchAssumption DEF SwitchInv, SameSwitch, SwitchTyped, Numbered,
     Versions, Resting
<1>23. FilesFit'
  BY <1>0, <1>1, <1>4, <1>5, SwitchAssumption DEF SwitchInv, SameSwitch, SwitchTyped, Versions,
     Numbered, FilesFit, FileFitsCore, SaysUp, Resting
<1>24. StaysUndoable'
  BY <1>0, <1>1, <1>4, <1>5, SwitchAssumption DEF SwitchInv, SameSwitch, SwitchTyped, Versions,
     Numbered, FilesFit, StaysUndoable, SwitchFaulty, SaysUp, Resting
<1>25. SwitchFaulty'
  BY <1>0, <1>1, <1>4, <1>5, SwitchAssumption DEF SwitchInv, SameSwitch, SwitchTyped,
     SwitchFaulty, Resting
<1>26. AliveIsUp'
  BY <1>0, <1>1, <1>4, <1>5, SwitchAssumption DEF SwitchInv, SameSwitch, SwitchTyped,
     SwitchFaulty, AliveIsUp, SaysUp, Resting
<1>27. SwitchIsUndone'
  BY <1>0, <1>1, <1>4, <1>5, SwitchAssumption DEF SwitchInv, SameSwitch, SwitchTyped,
     SwitchFaulty, StaysUndoable, SwitchIsUndone, Resting
<1>. QED
  BY <1>21, <1>22, <1>23, <1>24, <1>25, <1>26, <1>27 DEF SwitchInv

LEMMA StopKeeps == ASSUME SwitchInv, StopReplacement PROVE SwitchInv'
<1>0. /\ switch \in Switches /\ switch.before \in Befores /\ ~Resting /\ switch.step = "restore"
  BY Switching DEF SwitchInv, StopReplacement, Resting
<1>1. UNCHANGED <<picked, loaded, memory, disk, configured, kept, fits, warm, versions>>
  BY DEF StopReplacement
<1>2. \/ /\ switchFaults' = switchFaults /\ sup' = [sup EXCEPT ![picked] = "stopped"] /\ alive' = alive \ {picked}
         /\ SwitchTo("giveBack")
      \/ /\ switchFaults' = switchFaults + 1 /\ switchFaults < MaxSwitchFaults /\ sup' = [sup EXCEPT ![picked] = "failed"]
         /\ UNCHANGED alive /\ sup[picked] # "stopped" /\ SwitchAnswers("failed")
  BY DEF StopReplacement, StepWorks, StepFails
<1>4. \/ /\ switchFaults' = switchFaults /\ sup' = [sup EXCEPT ![picked] = "stopped"] /\ alive' = alive \ {picked}
         /\ switch'.step = "giveBack" /\ switch'.answer = switch.answer
      \/ /\ switchFaults' = switchFaults + 1 /\ switchFaults < MaxSwitchFaults /\ sup' = [sup EXCEPT ![picked] = "failed"]
         /\ UNCHANGED alive /\ sup[picked] # "stopped" /\ switch'.step = "none" /\ switch'.answer = "failed"
  BY <1>0, <1>2, SwitchGoes, SwitchEnds DEF SwitchStepNames
<1>5. switch' \in Switches /\ SameSwitch
  BY <1>0, <1>2, SwitchGoes, SwitchEnds DEF SwitchStepNames
<1>6. switch.before.configured \in Versions /\ switch.before.picked \in Kernels /\ sup' \in [Kernels -> Healths]
  BY <1>0, <1>4 DEF Befores, SwitchInv, SwitchTyped, Healths
<1>7. picked # switch.before.picked /\ picked \in Kernels
  BY <1>0 DEF SwitchInv, SwitchTyped, StaysUndoable
<1>8. ~SaysUp(switch.before.picked) /\ sup'[switch.before.picked] = sup[switch.before.picked]
  BY <1>0, <1>4, <1>6, <1>7 DEF SwitchInv, SwitchTyped, StaysUndoable, Healths
<1>9. ~SaysUp(switch.before.picked)'
  BY <1>5, <1>8 DEF SaysUp, SameSwitch
<1>21. SwitchTyped'
  BY <1>0, <1>1, <1>4, <1>5, <1>6, SwitchAssumption DEF SwitchInv, SameSwitch, SwitchTyped
<1>22. Numbered'
  BY <1>0, <1>1, <1>4, <1>5, <1>6, SwitchAssumption DEF SwitchInv, SameSwitch, SwitchTyped,
     Numbered, Versions, Resting
<1>23. FilesFit'
  BY <1>0, <1>1, <1>4, <1>5, <1>6, SwitchAssumption DEF SwitchInv, SameSwitch, SwitchTyped,
     Versions, Numbered, FilesFit, FileFitsCore, SaysUp, Resting
<1>24. StaysUndoable'
  BY <1>0, <1>1, <1>4, <1>5, <1>7, <1>8, <1>9 DEF SwitchInv, SwitchTyped, SameSwitch,
     StaysUndoable, SaysUp, Resting
<1>25. SwitchFaulty'
  BY <1>0, <1>1, <1>4, <1>5, <1>6, SwitchAssumption DEF SwitchInv, SameSwitch, SwitchTyped,
     SwitchFaulty, Resting
<1>26. AliveIsUp'
  BY <1>0, <1>1, <1>4, <1>5, <1>6, SwitchAssumption DEF SwitchInv, SameSwitch, SwitchTyped,
     SwitchFaulty, AliveIsUp, SaysUp, Resting
<1>27. SwitchIsUndone'
  BY <1>0, <1>1, <1>4, <1>5, <1>6, SwitchAssumption DEF SwitchInv, SameSwitch, SwitchTyped,
     SwitchFaulty, StaysUndoable, SwitchIsUndone, Resting
<1>. QED
  BY <1>21, <1>22, <1>23, <1>24, <1>25, <1>26, <1>27 DEF SwitchInv

LEMMA GiveBackKeeps == ASSUME SwitchInv, GiveBack PROVE SwitchInv'
<1>0. /\ switch \in Switches /\ switch.before \in Befores /\ ~Resting /\ switch.step = "giveBack"
  BY Switching DEF SwitchInv, GiveBack, Resting
<1>1. /\ UNCHANGED <<sup, alive, loaded, kept, fits, warm, versions>> /\ picked' = switch.before.picked
      /\ memory' = switch.before.memory /\ configured' = switch.before.configured /\ SwitchTo("startAgain")
  BY DEF GiveBack
<1>4. \/ switchFaults' = switchFaults /\ disk' = memory'
      \/ switchFaults' = switchFaults + 1 /\ switchFaults < MaxSwitchFaults /\ disk' = disk
  BY DEF GiveBack, StepWorks, StepFails
<1>5. switch' \in Switches /\ SameSwitch /\ switch'.step = "startAgain" /\ switch'.answer = switch.answer
  BY <1>0, <1>1, SwitchGoes DEF SwitchStepNames
<1>6. switch.before.configured \in Versions /\ switch.before.picked \in Kernels /\ switch.before.memory \in States
  BY <1>0 DEF Befores
<1>21. SwitchTyped'
  BY <1>0, <1>1, <1>4, <1>5, <1>6, SwitchAssumption DEF SwitchInv, SameSwitch, SwitchTyped
<1>22. Numbered'
  BY <1>0, <1>1, <1>4, <1>5, <1>6, SwitchAssumption DEF SwitchInv, SameSwitch, SwitchTyped,
     Numbered, Versions, Resting
<1>23. FilesFit'
  BY <1>0, <1>1, <1>4, <1>5, <1>6, SwitchAssumption DEF SwitchInv, SameSwitch, SwitchTyped,
     Versions, Numbered, FilesFit, FileFitsCore, SaysUp, Resting
<1>24. StaysUndoable'
  BY <1>0, <1>1, <1>4, <1>5, <1>6, SwitchAssumption DEF SwitchInv, SameSwitch, SwitchTyped,
     Versions, Numbered, FilesFit, StaysUndoable, SwitchFaulty, SaysUp, Resting
<1>25. SwitchFaulty'
  BY <1>0, <1>1, <1>4, <1>5, <1>6, SwitchAssumption DEF SwitchInv, SameSwitch, SwitchTyped,
     SwitchFaulty, Resting
<1>26. AliveIsUp'
  BY <1>0, <1>1, <1>4, <1>5, <1>6, SwitchAssumption DEF SwitchInv, SameSwitch, SwitchTyped,
     SwitchFaulty, AliveIsUp, SaysUp, Resting
<1>27. SwitchIsUndone'
  BY <1>0, <1>1, <1>4, <1>5, <1>6, SwitchAssumption DEF SwitchInv, SameSwitch, SwitchTyped,
     SwitchFaulty, StaysUndoable, SwitchIsUndone, Resting
<1>. QED
  BY <1>21, <1>22, <1>23, <1>24, <1>25, <1>26, <1>27 DEF SwitchInv

LEMMA StartAgainKeeps == ASSUME SwitchInv, StartAgain PROVE SwitchInv'
<1>0. /\ switch \in Switches /\ switch.before \in Befores /\ ~Resting /\ switch.step = "startAgain"
  BY Switching DEF SwitchInv, StartAgain, Resting
<1>1. UNCHANGED <<picked, memory, disk, configured, kept, fits, warm, versions>> /\ SwitchAnswers("failed")
  BY DEF StartAgain
<1>4. \/ ~switch.ran /\ UNCHANGED <<switchFaults, sup, alive, loaded>>
      \/ /\ switch.ran /\ switchFaults' = switchFaults /\ sup' = [sup EXCEPT ![picked] = "running"] /\ alive' = alive \cup {picked}
         /\ loaded' = [loaded EXCEPT ![picked] = configured]
      \/ /\ switch.ran /\ switchFaults' = switchFaults + 1 /\ switchFaults < MaxSwitchFaults /\ sup' = [sup EXCEPT ![picked] = "failed"]
         /\ UNCHANGED <<alive, loaded>>
  BY <1>0 DEF StartAgain, StepWorks, StepFails, StartUp, SwitchInv, StaysUndoable, Resting
<1>5. switch' \in Switches /\ SameSwitch /\ switch'.step = "none" /\ switch'.answer = "failed"
  BY <1>0, <1>1, SwitchEnds
<1>6. switch.before.configured \in Versions /\ switch.before.picked \in Kernels /\ sup' \in [Kernels -> Healths]
  BY <1>0, <1>4 DEF Befores, SwitchInv, SwitchTyped, Healths
<1>21. SwitchTyped'
  BY <1>0, <1>1, <1>4, <1>5, <1>6, SwitchAssumption DEF SwitchInv, SameSwitch, SwitchTyped
<1>22. Numbered'
  BY <1>0, <1>1, <1>4, <1>5, <1>6, SwitchAssumption DEF SwitchInv, SameSwitch, SwitchTyped,
     Numbered, Versions, Resting
<1>23. FilesFit'
  BY <1>0, <1>1, <1>4, <1>5, <1>6, SwitchAssumption DEF SwitchInv, SameSwitch, SwitchTyped,
     Versions, Numbered, FilesFit, FileFitsCore, SaysUp, Resting
<1>24. StaysUndoable'
  BY <1>0, <1>1, <1>4, <1>5, <1>6, SwitchAssumption DEF SwitchInv, SameSwitch, SwitchTyped,
     Versions, Numbered, FilesFit, StaysUndoable, SwitchFaulty, SaysUp, Resting
<1>25. SwitchFaulty'
  BY <1>0, <1>1, <1>4, <1>5, <1>6, SwitchAssumption DEF SwitchInv, SameSwitch, SwitchTyped,
     SwitchFaulty, Resting
<1>26. AliveIsUp'
  BY <1>0, <1>1, <1>4, <1>5, <1>6, SwitchAssumption DEF SwitchInv, SameSwitch, SwitchTyped,
     SwitchFaulty, AliveIsUp, SaysUp, Resting
<1>27. SwitchIsUndone'
  BY <1>0, <1>1, <1>4, <1>5, <1>6, SwitchAssumption DEF SwitchInv, SameSwitch, SwitchTyped,
     SwitchFaulty, StaysUndoable, SwitchIsUndone, Resting
<1>. QED
  BY <1>21, <1>22, <1>23, <1>24, <1>25, <1>26, <1>27 DEF SwitchInv

\* The two ends of handleCoreSelect's first part.
LEMMA SelectKeeps == ASSUME SwitchInv, NEW target \in Kernels, BeginSelect(target) PROVE SwitchInv'
<1>. DEFINE ran == SaysUp(picked)
            begun == [step |-> "compile", target |-> target, answer |-> "none", ran |-> ran, stopFailed |-> FALSE,
                    before |-> [picked |-> picked, memory |-> memory, configured |-> configured]]
            failed == [begun EXCEPT !.step = "none", !.stopFailed = TRUE, !.answer = "failed"]
<1>1. /\ Resting /\ target # picked /\ UNCHANGED <<loaded, disk, configured, kept, fits, versions>> /\ warm' = FALSE
      /\ \/ /\ switchFaults' = switchFaults /\ switch' = begun
            /\ sup' = [sup EXCEPT ![picked] = IF ran THEN "stopped" ELSE @, ![target] = "stopped"]
            /\ alive' = (IF ran THEN alive \ {picked} ELSE alive)
            /\ picked' = target /\ memory' = [memory EXCEPT !.core = target]
         \/ /\ ran /\ switchFaults' = switchFaults + 1 /\ switchFaults < MaxSwitchFaults
            /\ switch' = failed
            /\ sup' = [sup EXCEPT ![picked] = "failed"] /\ UNCHANGED <<alive, picked, memory>>
  BY DEF BeginSelect, StepWorks, StepFails
<1>2. /\ picked \in Kernels /\ memory \in States /\ configured \in Versions /\ sup \in [Kernels -> Healths]
      /\ alive \subseteq Kernels /\ switchFaults \in 0 .. MaxSwitchFaults
  BY DEF SwitchInv, SwitchTyped
<1>3. /\ begun \in Switches /\ begun.before.picked = picked /\ begun.before.memory = memory /\ begun.before.configured = configured
      /\ begun.step = "compile" /\ begun.ran = ran /\ begun.stopFailed = FALSE /\ begun.answer = "none"
  BY <1>2 DEF Switches, Befores, SaysUp
<1>4. failed \in Switches /\ failed.step = "none" /\ failed.stopFailed = TRUE /\ failed.answer = "failed"
  BY <1>3 DEF Switches
<1>5. LET next == [memory EXCEPT !.core = target]
      IN  next \in States /\ next.core = target /\ next.status = memory.status
  BY <1>2 DEF States
<1>. HIDE DEF begun, failed
<1>6. ASSUME switchFaults' = switchFaults, switch' = begun,
             sup' = [sup EXCEPT ![picked] = IF ran THEN "stopped" ELSE @, ![target] = "stopped"],
             alive' = (IF ran THEN alive \ {picked} ELSE alive),
             picked' = target, memory' = [memory EXCEPT !.core = target]
      PROVE  SwitchInv'
  <2>1. memory' \in States /\ memory'.core = target /\ memory'.status = memory.status
    BY <1>5, <1>6
  <2>2. /\ sup' \in [Kernels -> Healths] /\ sup'[target] = "stopped" /\ sup'[picked] = (IF ran THEN "stopped" ELSE sup[picked])
        /\ \A k \in Kernels : k \notin {picked, target} => sup'[k] = sup[k]
    BY <1>1, <1>2, <1>6 DEF Healths
  <2>3. /\ switch' \in Switches /\ switch'.step = "compile" /\ switch'.ran = ran /\ switch'.stopFailed = FALSE
        /\ switch'.before.picked = picked /\ switch'.before.memory = memory /\ switch'.before.configured = configured
    BY <1>3, <1>6
  <2>4. sup'[picked] \notin {"running", "dead"} /\ ~SaysUp(target)' /\ \A k \in Kernels : SaysUp(k)' => SaysUp(k)
    BY <1>2, <2>2 DEF SaysUp
  <2>5. UNCHANGED <<loaded, disk, configured, kept, fits, versions>> /\ warm' = FALSE /\ target # picked /\ Resting
    BY <1>1
  <2>6. SwitchTyped'
    BY <1>2, <1>6, <2>1, <2>2, <2>3, <2>5 DEF SwitchInv, SwitchTyped
  <2>7. Numbered'
    BY <2>3, <2>5 DEF SwitchInv, Numbered
  <2>8. FilesFit'
    BY <1>6, <2>1, <2>2, <2>3, <2>4, <2>5 DEF SwitchInv, FilesFit, FileFitsCore, Resting
  <2>9. StaysUndoable'
    <3>1. ~SaysUp(switch.before.picked)'
      BY <2>3, <2>4 DEF SaysUp
    <3>. QED
      BY <1>6, <2>1, <2>3, <2>5, <3>1 DEF SwitchInv, StaysUndoable, Resting
  <2>10. SwitchFaulty' /\ SwitchIsUndone'
    BY <2>3, <2>5 DEF SwitchFaulty, SwitchIsUndone, Resting
  <2>11. AliveIsUp'
    <3>1. ASSUME switchFaults = 0 PROVE alive' = {}
      <4>1. alive \subseteq {picked} /\ (picked \in alive => ran)
        BY <3>1 DEF SwitchInv, AliveIsUp, SaysUp
      <4>. QED
        BY <1>6, <4>1
    <3>. QED
      BY <1>6, <3>1 DEF AliveIsUp
  <2>. QED
    BY <2>6, <2>7, <2>8, <2>9, <2>10, <2>11 DEF SwitchInv
<1>7. ASSUME switchFaults' = switchFaults + 1, switchFaults < MaxSwitchFaults, switch' = failed,
             sup' = [sup EXCEPT ![picked] = "failed"], UNCHANGED <<alive, picked, memory>>
      PROVE  SwitchInv'
  <2>1. switch' \in Switches /\ switch'.step = "none" /\ switch'.stopFailed = TRUE
    BY <1>4, <1>7
  <2>2. sup' \in [Kernels -> Healths] /\ sup'[picked] = "failed" /\ \A k \in Kernels : k # picked => sup'[k] = sup[k]
    BY <1>2, <1>7 DEF Healths
  <2>3. ~SaysUp(picked)' /\ \A k \in Kernels : SaysUp(k)' => SaysUp(k)
    BY <1>2, <1>7, <2>2 DEF SaysUp
  <2>4. switchFaults' \in 0 .. MaxSwitchFaults /\ switchFaults' # 0
    BY <1>2, <1>7, SwitchAssumption
  <2>5. UNCHANGED <<loaded, disk, configured, kept, fits, versions>> /\ warm' = FALSE /\ Resting
    BY <1>1
  <2>6. SwitchTyped'
    BY <1>7, <2>1, <2>2, <2>4, <2>5 DEF SwitchInv, SwitchTyped
  <2>7. Numbered'
    BY <2>1, <2>5 DEF SwitchInv, Numbered, Resting
  <2>8. FilesFit'
    BY <1>7, <2>1, <2>3, <2>5 DEF SwitchInv, FilesFit, FileFitsCore, Resting
  <2>9. StaysUndoable'
    BY <1>7, <2>1, <2>3, <2>5 DEF SwitchInv, StaysUndoable, Resting
  <2>10. SwitchFaulty' /\ SwitchIsUndone' /\ AliveIsUp'
    BY <2>1, <2>4, <2>5 DEF SwitchFaulty, SwitchIsUndone, AliveIsUp, Resting
  <2>. QED
    BY <2>6, <2>7, <2>8, <2>9, <2>10 DEF SwitchInv
<1>. QED
  BY <1>1, <1>6, <1>7

LEMMA CaptureUpKeeps == ASSUME SwitchInv, CaptureUp PROVE SwitchInv'
<1>1. /\ Resting /\ sup[picked] \in {"stopped", "failed"} /\ Compiled(memory.core)
      /\ memory' = [core |-> memory.core, version |-> versions + 1, status |-> "active"] /\ disk' = memory'
      /\ configured' = versions + 1 /\ kept' = {versions + 1} /\ StartUp(picked, versions + 1)
      /\ switch' = NoSwitch /\ UNCHANGED <<picked, warm, switchFaults>>
  BY DEF CaptureUp, StepWorks
<1>2. memory.core = picked /\ picked \in Kernels /\ switch'.step = "none" /\ switch'.answer = "none"
  BY <1>1 DEF SwitchInv, FilesFit, SwitchTyped, NoSwitch
<1>3. /\ versions' = versions + 1 /\ versions' \in Versions /\ fits' \in [Versions -> Kernels]
      /\ fits'[versions'] = picked /\ \A v \in Versions : v <= versions => fits'[v] = fits[v]
      /\ versions \in Nat
  BY <1>1, <1>2, CompiledOne DEF SwitchInv
<1>4. /\ memory' \in States /\ memory'.core = picked /\ memory'.status = "active" /\ disk' = memory'
      /\ configured' = versions' /\ kept' = {versions'}
  BY <1>1, <1>2, <1>3 DEF States
<1>5. /\ sup' = [sup EXCEPT ![picked] = "running"] /\ alive' = alive \cup {picked}
      /\ loaded' = [loaded EXCEPT ![picked] = versions']
  BY <1>1, <1>3 DEF StartUp
<1>6. /\ sup' \in [Kernels -> Healths] /\ sup'[picked] = "running"
      /\ \A k \in Kernels : k # picked => sup'[k] = sup[k]
  BY <1>2, <1>5 DEF SwitchInv, SwitchTyped, Healths
<1>7. /\ loaded' \in [Kernels -> Versions] /\ loaded'[picked] = versions'
      /\ \A k \in Kernels : k # picked => loaded'[k] = loaded[k] /\ loaded[k] \in Versions /\ loaded[k] <= versions
  BY <1>2, <1>3, <1>5 DEF SwitchInv, SwitchTyped, Numbered
<1>21. SwitchTyped'
  <2>1. kept' \subseteq Versions /\ configured' \in Versions /\ disk' \in States /\ alive' \subseteq Kernels
    BY <1>2, <1>3, <1>4, <1>5 DEF SwitchInv, SwitchTyped
  <2>2. picked' \in Kernels /\ warm' \in BOOLEAN /\ switchFaults' \in 0 .. MaxSwitchFaults
    BY <1>1, <1>2 DEF SwitchInv, SwitchTyped
  <2>. QED
    BY <1>1, <1>3, <1>4, <1>6, <1>7, <2>1, <2>2 DEF SwitchTyped
<1>22. Numbered'
  <2>1. configured' <= versions' /\ \A k \in Kernels : loaded'[k] <= versions'
    BY <1>3, <1>4, <1>7 DEF Versions
  <2>. QED
    BY <1>2, <2>1 DEF Numbered, Resting
<1>23. FilesFit'
  <2>1. \A k \in Kernels : SaysUp(k)' => fits'[loaded'[k]] = k
    BY <1>3, <1>6, <1>7 DEF SwitchInv, FilesFit, FileFitsCore, SaysUp
  <2>. QED
    BY <1>1, <1>2, <1>3, <1>4, <2>1 DEF FilesFit, FileFitsCore, Resting
<1>24. StaysUndoable'
  BY <1>2, <1>4 DEF StaysUndoable, Resting
<1>25. SwitchFaulty'
  BY <1>2 DEF SwitchFaulty, Resting
<1>26. AliveIsUp' /\ SwitchIsUndone'
  BY <1>1, <1>2, <1>5, <1>6 DEF SwitchInv, AliveIsUp, SwitchIsUndone
<1>. QED
  BY <1>21, <1>22, <1>23, <1>24, <1>25, <1>26 DEF SwitchInv

LEMMA CaptureDownKeeps == ASSUME SwitchInv, CaptureDown PROVE SwitchInv'
<1>1. /\ Resting /\ switch' = NoSwitch /\ switch'.step = "none" /\ switch'.answer = "none"
      /\ UNCHANGED <<picked, loaded, memory, disk, configured, kept, fits, versions, switchFaults>>
  BY DEF CaptureDown, StepWorks, NoSwitch
<1>2. \/ sup[picked] = "running" /\ warm' = TRUE /\ UNCHANGED <<sup, alive>>
      \/ sup' = [sup EXCEPT ![picked] = "stopped"] /\ alive' = alive \ {picked} /\ UNCHANGED warm
  BY DEF CaptureDown
<1>3. sup' \in [Kernels -> Healths] /\ warm' \in BOOLEAN
  BY <1>2 DEF SwitchInv, SwitchTyped, Healths
<1>21. SwitchTyped'
  BY <1>1, <1>2, <1>3, SwitchAssumption DEF SwitchInv, SameSwitch, SwitchTyped
<1>22. Numbered'
  BY <1>1, <1>2, <1>3, SwitchAssumption DEF SwitchInv, SameSwitch, SwitchTyped, Numbered,
     Versions, Resting
<1>23. FilesFit'
  BY <1>1, <1>2, <1>3, SwitchAssumption DEF SwitchInv, SameSwitch, SwitchTyped, Versions,
     Numbered, FilesFit, FileFitsCore, SaysUp, Resting
<1>24. StaysUndoable'
  BY <1>1, <1>2, <1>3, SwitchAssumption DEF SwitchInv, SameSwitch, SwitchTyped, Versions,
     Numbered, FilesFit, StaysUndoable, SwitchFaulty, SaysUp, Resting
<1>25. SwitchFaulty'
  BY <1>1, <1>2, <1>3, SwitchAssumption DEF SwitchInv, SameSwitch, SwitchTyped, SwitchFaulty,
     Resting
<1>26. AliveIsUp'
  BY <1>1, <1>2, <1>3, SwitchAssumption DEF SwitchInv, SameSwitch, SwitchTyped, SwitchFaulty,
     AliveIsUp, SaysUp, Resting
<1>27. SwitchIsUndone'
  BY <1>1, <1>2, <1>3, SwitchAssumption DEF SwitchInv, SameSwitch, SwitchTyped, SwitchFaulty,
     StaysUndoable, SwitchIsUndone, Resting
<1>. QED
  BY <1>21, <1>22, <1>23, <1>24, <1>25, <1>26, <1>27 DEF SwitchInv

LEMMA DiesKeeps == ASSUME SwitchInv, NEW k \in Kernels, KernelDies(k) PROVE SwitchInv'
<1>1. /\ sup[k] = "running" /\ sup' = [sup EXCEPT ![k] = "dead"] /\ alive' = alive \ {k}
      /\ UNCHANGED <<picked, loaded, memory, disk, configured, kept, fits, warm, switch, versions, switchFaults>>
  BY DEF KernelDies, StepWorks
<1>2. sup' \in [Kernels -> Healths] /\ sup \in [Kernels -> Healths]
  BY <1>1 DEF SwitchInv, SwitchTyped, Healths
<1>3. \A j \in Kernels : SaysUp(j)' <=> SaysUp(j)
  BY <1>1, <1>2 DEF SaysUp
<1>4. ~Resting => switch.before.picked \in Kernels
  BY Switching DEF SwitchInv, Befores
<1>5. picked \in Kernels
  BY DEF SwitchInv, SwitchTyped
<1>21. SwitchTyped'
  BY <1>1, <1>2, <1>3, <1>4, <1>5, SwitchAssumption DEF SwitchInv, SameSwitch, SwitchTyped
<1>22. Numbered'
  BY <1>1, <1>2, <1>3, <1>4, <1>5, SwitchAssumption DEF SwitchInv, SameSwitch, SwitchTyped,
     Numbered, Versions, Resting
<1>23. FilesFit'
  BY <1>1, <1>2, <1>3, <1>4, <1>5, SwitchAssumption DEF SwitchInv, SameSwitch, SwitchTyped,
     Versions, Numbered, FilesFit, FileFitsCore, SaysUp, Resting
<1>24. StaysUndoable'
  BY <1>1, <1>3, <1>4, <1>5 DEF SwitchInv, StaysUndoable, Resting
<1>25. SwitchFaulty'
  BY <1>1, <1>2, <1>3, <1>4, <1>5, SwitchAssumption DEF SwitchInv, SameSwitch, SwitchTyped,
     SwitchFaulty, Resting
<1>26. AliveIsUp'
  BY <1>1, <1>2, <1>3, <1>4, <1>5, SwitchAssumption DEF SwitchInv, SameSwitch, SwitchTyped,
     SwitchFaulty, AliveIsUp, SaysUp, Resting
<1>27. SwitchIsUndone'
  BY <1>1, <1>2, <1>3, <1>4, <1>5, SwitchAssumption DEF SwitchInv, SameSwitch, SwitchTyped,
     SwitchFaulty, StaysUndoable, SwitchIsUndone, Resting
<1>. QED
  BY <1>21, <1>22, <1>23, <1>24, <1>25, <1>26, <1>27 DEF SwitchInv

LEMMA MissedKeeps == ASSUME SwitchInv, NEW k \in Kernels, KernelMissed(k) PROVE SwitchInv'
<1>1. /\ sup[k] = "dead" /\ sup' = [sup EXCEPT ![k] = IF warm /\ k = picked THEN "stopped" ELSE "dirty"]
      /\ warm' = (warm /\ k # picked)
      /\ UNCHANGED <<picked, alive, loaded, memory, disk, configured, kept, fits, switch, versions, switchFaults>>
  BY DEF KernelMissed, StepWorks
<1>2. sup' \in [Kernels -> Healths] /\ sup \in [Kernels -> Healths] /\ warm' \in BOOLEAN
  BY <1>1 DEF SwitchInv, SwitchTyped, Healths
<1>3. \A j \in Kernels : SaysUp(j)' => SaysUp(j)
  BY <1>1, <1>2 DEF SaysUp
<1>4. ~Resting => switch.before.picked \in Kernels
  BY Switching DEF SwitchInv, Befores
<1>5. picked \in Kernels
  BY DEF SwitchInv, SwitchTyped
<1>21. SwitchTyped'
  BY <1>1, <1>2, <1>3, <1>4, <1>5, SwitchAssumption DEF SwitchInv, SameSwitch, SwitchTyped
<1>22. Numbered'
  BY <1>1, <1>2, <1>3, <1>4, <1>5, SwitchAssumption DEF SwitchInv, SameSwitch, SwitchTyped,
     Numbered, Versions, Resting
<1>23. FilesFit'
  BY <1>1, <1>2, <1>3, <1>4, <1>5, SwitchAssumption DEF SwitchInv, SameSwitch, SwitchTyped,
     Versions, Numbered, FilesFit, FileFitsCore, SaysUp, Resting
<1>24. StaysUndoable'
  BY <1>1, <1>3, <1>4, <1>5 DEF SwitchInv, StaysUndoable, Resting
<1>25. SwitchFaulty'
  BY <1>1, <1>2, <1>3, <1>4, <1>5, SwitchAssumption DEF SwitchInv, SameSwitch, SwitchTyped,
     SwitchFaulty, Resting
<1>26. AliveIsUp'
  BY <1>1, <1>2, <1>3, <1>4, <1>5, SwitchAssumption DEF SwitchInv, SameSwitch, SwitchTyped,
     SwitchFaulty, AliveIsUp, SaysUp, Resting
<1>27. SwitchIsUndone'
  BY <1>1, <1>2, <1>3, <1>4, <1>5, SwitchAssumption DEF SwitchInv, SameSwitch, SwitchTyped,
     SwitchFaulty, StaysUndoable, SwitchIsUndone, Resting
<1>. QED
  BY <1>21, <1>22, <1>23, <1>24, <1>25, <1>26, <1>27 DEF SwitchInv

LEMMA SwitchRestartKeeps == ASSUME SwitchInv, NEW k \in Kernels, ServiceRestarts(k) PROVE SwitchInv'
<1>1. /\ switchFaults < MaxSwitchFaults /\ switchFaults' = switchFaults + 1 /\ picked' = k /\ alive' = {} /\ warm' = FALSE
      /\ sup' = [j \in Kernels |-> "stopped"] /\ Compiled(k)
      /\ memory' = [core |-> k, version |-> versions + 1, status |-> "candidate"] /\ disk' = memory'
      /\ configured' = versions + 1 /\ kept' = {versions + 1} /\ switch' = NoSwitch /\ loaded' = loaded
  BY DEF ServiceRestarts, StepFails
<1>2. /\ versions' = versions + 1 /\ versions' \in Versions /\ fits' \in [Versions -> Kernels]
      /\ fits'[versions'] = k /\ \A v \in Versions : v <= versions => fits'[v] = fits[v]
      /\ versions \in Nat
  BY <1>1, CompiledOne DEF SwitchInv
<1>3. /\ memory' \in States /\ memory'.core = k /\ disk' = memory' /\ configured' = versions' /\ kept' = {versions'}
  BY <1>1, <1>2 DEF States
<1>4. switch' = NoSwitch /\ switch'.step = "none" /\ switch'.answer = "none"
  BY <1>1 DEF NoSwitch
<1>5. sup' \in [Kernels -> Healths] /\ \A j \in Kernels : sup'[j] = "stopped"
  BY <1>1 DEF Healths
<1>6. switchFaults' \in 0 .. MaxSwitchFaults /\ switchFaults' # 0
  BY <1>1, SwitchAssumption DEF SwitchInv, SwitchTyped
<1>7. \A j \in Kernels : loaded'[j] = loaded[j] /\ loaded[j] \in Versions /\ loaded[j] <= versions
  BY <1>1 DEF SwitchInv, SwitchTyped, Numbered
<1>8. loaded' \in [Kernels -> Versions] /\ picked' = k /\ alive' = {} /\ warm' = FALSE
  BY <1>1 DEF SwitchInv, SwitchTyped
<1>21. SwitchTyped'
  <2>1. kept' \subseteq Versions /\ configured' \in Versions /\ disk' \in States
    BY <1>2, <1>3
  <2>. QED
    BY <1>2, <1>3, <1>4, <1>5, <1>6, <1>8, <2>1 DEF SwitchTyped
<1>22. Numbered'
  <2>1. configured' <= versions' /\ \A j \in Kernels : loaded'[j] <= versions'
    BY <1>2, <1>3, <1>7 DEF Versions
  <2>. QED
    BY <1>4, <2>1 DEF Numbered, Resting
<1>23. FilesFit'
  BY <1>2, <1>3, <1>4, <1>5, <1>8 DEF FilesFit, FileFitsCore, SaysUp, Resting
<1>24. StaysUndoable'
  BY <1>4, <1>5, <1>8 DEF StaysUndoable, SaysUp, Resting
<1>25. SwitchFaulty'
  BY <1>4 DEF SwitchFaulty, Resting
<1>26. AliveIsUp' /\ SwitchIsUndone'
  BY <1>4, <1>6 DEF AliveIsUp, SwitchIsUndone
<1>. QED
  BY <1>21, <1>22, <1>23, <1>24, <1>25, <1>26 DEF SwitchInv

-----------------------------------------------------------------------------
LEMMA SwitchInitInv == ASSUME SwitchInit PROVE SwitchInv
<1>1. PICK k \in Kernels :
        /\ picked = k /\ fits = [v \in Versions |-> k] /\ memory = [core |-> k, version |-> 0, status |-> "candidate"]
  BY DEF SwitchInit
<1>2. /\ disk = memory /\ configured = 0 /\ kept = {0} /\ alive = {} /\ warm = FALSE
      /\ sup = [j \in Kernels |-> "stopped"] /\ loaded = [j \in Kernels |-> 0]
      /\ switch = NoSwitch /\ versions = 0 /\ switchFaults = 0
  BY DEF SwitchInit
<1>3. 0 \in Versions /\ 0 \in 0 .. MaxSwitchFaults
  BY SwitchAssumption DEF Versions
<1>4. memory \in States /\ memory.core = picked /\ switch.step = "none" /\ switch.answer = "none"
  BY <1>1, <1>2, <1>3 DEF States, NoSwitch
<1>5. SwitchTyped
  BY <1>1, <1>2, <1>3, <1>4 DEF SwitchTyped, Healths
<1>6. Numbered /\ FilesFit /\ StaysUndoable /\ SwitchFaulty /\ AliveIsUp /\ SwitchIsUndone
  BY <1>1, <1>2, <1>3, <1>4 DEF Numbered, FilesFit, FileFitsCore, StaysUndoable, SwitchFaulty,
     AliveIsUp, SwitchIsUndone, Resting, SaysUp
<1>. QED
  BY <1>5, <1>6 DEF SwitchInv

LEMMA SwitchNextInv == ASSUME SwitchInv, [SwitchNext]_switchVars PROVE SwitchInv'
<1>1. CASE SwitchNext
  BY <1>1, SelectKeeps, DiesKeeps, MissedKeeps, SwitchRestartKeeps, CompileKeeps,
     SwitchRecordKeeps, SwitchLaunchKeeps, SwitchCommitKeeps, StopKeeps, GiveBackKeeps,
     StartAgainKeeps, CaptureUpKeeps, CaptureDownKeeps DEF SwitchNext
<1>2. CASE UNCHANGED switchVars
  BY <1>2 DEF switchVars, SwitchInv, SwitchTyped, Numbered, FilesFit, FileFitsCore, StaysUndoable,
     SwitchFaulty, AliveIsUp, SwitchIsUndone, SaysUp, Resting
<1>. QED
  BY <1>1, <1>2

LEMMA SwitchSafe == ASSUME SwitchInv PROVE FileFitsCore /\ SwitchIsUndone /\ NoDroppedCoreLives /\ SwitchTypeOK
  BY DEF SwitchInv, FilesFit, AliveIsUp, NoDroppedCoreLives, SwitchTyped, SwitchTypeOK, Healths

-----------------------------------------------------------------------------
(* A TUN session (TunSession).                                             *)

Reloading == tunJob.kind \in {"reload", "undo", "restore"}
Binding == {"unbind", "bind", "swapBack", "unbindBack", "bindBack", "boundBack"}
GoingBack == {"swapBack", "unbindBack", "bindBack", "boundBack"}
Memories ==
    [manager : {"none", "recovery", "planned"}, enabled : BOOLEAN, plan : Sessions,
     stage : {"none", "preparing", "bound", "committed"}, session : Sessions, index : Numbers,
     direct : BOOLEAN, fault : [by : {"nobody", "watch", "prepare"}, seen : 0 .. Threshold]]
TunKinds == {"none", "tun", "proxy", "off", "reload", "undo", "restore", "boot"}
PrepareStages == {"stop", "clean", "compile", "preflight", "config", "start", "activate", "verify", "rollback"}
ReloadStages == {"swap", "record", "probe", "undone"} \cup Binding
TunSteps == {"idle", "recover"} \cup PrepareStages \cup ReloadStages
TunJobs ==
    [kind : TunKinds, step : TunSteps,
     session : Sessions, index : Numbers, direct : BOOLEAN, before : BOOLEAN, answer : {"none", "ok", "failed", "dirty"}]
Adapters == [state : {"missing", "enabled", "disabled", "starting"}, index : Numbers]
Nets == [session : Sessions, index : Numbers]

Blames == [session : Sessions, count : 0 .. Threshold]
Watches ==
    [at : {"wait", "inspect", "again", "confirm", "publish"}, expected : Nets, session : Sessions, count : 0 .. Threshold]

TunTyped ==
    /\ tun \in Memories /\ tunJob \in TunJobs
    /\ tunCore \in {"stopped", "running", "dead", "failed", "dirty"}
    /\ adapter \in Adapters /\ net \in Nets /\ proof \in BOOLEAN
    /\ sessions \in Sessions /\ tunFaults \in 0 .. MaxTunFaults

\* The steps of each handler.
StepsFit ==
    /\ tunJob.kind = "none" <=> tunJob.step = "idle"
    /\ tunJob.kind = "boot" <=> tunJob.step = "recover"
    /\ tunJob.kind \in {"tun", "proxy", "off"} <=> tunJob.step \in PrepareStages
    /\ tunJob.step \in {"preflight", "config", "activate"} => tunJob.kind = "tun"
    /\ tunJob.step = "compile" => tunJob.kind \in {"proxy", "off"}
    /\ tunJob.step \in {"start", "verify"} => tunJob.kind \in {"tun", "proxy"}
    /\ tunJob.step = "probe" => tunJob.kind = "reload"
    /\ tunJob.step = "undone" => tunJob.kind \in {"undo", "restore"}
    /\ tunJob.step \in GoingBack => tunJob.kind # "restore"

\* Who takes the network down, and what is known of it.
Owned ==
    /\ TunAlive /\ net.session # 0 => tun.manager # "none"
    /\ TunAlive /\ tun.stage = "none" => net.session = 0
    /\ tunJob.step \in {"config", "activate"} \cup Binding => tun.manager # "none"
    /\ tunJob.kind = "tun" /\ tunJob.step \in {"start", "verify"} => tun.manager # "none"

\* A preparation clears the old session before it makes a new one.
Prepared ==
    /\ tunJob.step = "recover" => tunCore = "stopped" /\ tun.manager = "none" /\ ~tun.enabled /\ tun.stage = "none" /\ tun.session = 0
    /\ tunJob.step \in {"clean", "compile", "preflight", "config", "start"} => tunCore = "stopped"
    /\ tunJob.step \in {"compile", "preflight", "config", "start", "activate", "verify"} => tun.session = 0 /\ tun.index = 0
    /\ tunJob.kind = "tun" /\ tunJob.step \in {"config", "start", "activate", "verify"} =>
          tunJob.session # 0 /\ tun.stage # "none"
    /\ tunJob.kind = "tun" /\ tunJob.step \in {"start", "activate", "verify"} => tun.enabled /\ tun.plan = tunJob.session
    /\ tunJob.kind = "tun" /\ tunJob.step = "verify" => net = [session |-> tunJob.session, index |-> tunJob.index]
    /\ tunJob.kind = "proxy" /\ tunJob.step \in {"start", "verify"} => ~tun.enabled
    /\ tun.session # 0 => tun.session = tun.plan
    /\ tun.enabled => tun.plan # 0
    /\ tun.enabled /\ SaysRunning => tun.stage # "none"
    /\ adapter.state # "missing" => adapter.index # 0

\* A reload keeps the session, and undoes to what was there before.
Reloaded ==
    /\ Reloading => tun.enabled /\ tun.stage # "none" /\ tunJob.session = tun.plan
    /\ tunJob.kind = "reload" /\ tunJob.step # "probe" => tun.direct = tunJob.before
    /\ tunJob.kind \in {"undo", "restore"} => tunJob.direct = tunJob.before

\* Two looks are one blame short of the third.
WatchIsFair ==
    /\ blame \in Blames /\ watch \in Watches
    /\ watch.at \in {"wait", "inspect"} =>
          /\ watch.count < Threshold
          /\ watch.count # 0 => watch.session = blame.session /\ watch.count <= blame.count
    /\ watch.at \in {"again", "confirm", "publish"} => blame = [session |-> watch.expected.session, count |-> Threshold]
    /\ FaultHasEvidence

\* Without a failure.
WholeTun ==
    tunFaults = 0 =>
        /\ tunCore \in {"stopped", "running"} /\ tunJob.step \notin GoingBack /\ tunJob.kind # "restore"
        /\ tunJob.step = "rollback" => tun.session = 0 /\ tun.index = 0
        /\ tunJob.kind = "tun" /\ tunJob.step = "verify" => adapter = [state |-> "enabled", index |-> tunJob.index]
        /\ (tunJob.step = "idle" /\ tun.enabled) \/ Reloading =>
              /\ tunCore = "running" /\ adapter.state = "enabled" /\ tun.stage \in {"bound", "committed"}
              /\ tun.session # 0 /\ tun.manager # "none"
        /\ (tunJob.step = "idle" /\ tun.enabled) \/ tunJob.step \in {"swap", "probe", "undone"} =>
              net = [session |-> tun.session, index |-> tun.index]
        /\ (tunJob.step = "idle" /\ tun.enabled) \/ tunJob.step \in {"probe", "undone"} => adapter.index = tun.index
        /\ tunJob.step = "record" =>
              net = [session |-> tun.session, index |-> tunJob.index] /\ adapter.index = tunJob.index
        /\ tunJob.kind = "undo" \/ tunJob.step \in {"record", "probe"} => tun.stage = "bound"
        /\ tunJob.step = "idle" /\ tun.enabled /\ tunJob.answer = "ok" => tun.stage = "committed"

\* With one failure at most, a network that was bound is bound to an adapter of its session.
BoundOnce ==
    tunFaults <= 1 =>
        /\ tunJob.step = "idle" /\ tun.enabled /\ tun.session # 0 /\ SaysRunning /\ tun.index # 0 =>
              net.session = tun.session /\ net.index \in {tun.index, adapter.index}
        /\ TunAlive /\ tun.manager = "none" /\ tun.enabled /\ SaysRunning => tun.index = 0
        /\ Reloading /\ tun.manager = "none" => tun.index = 0 /\ tunJob.index = 0
        /\ tunJob.step = "record" /\ SaysRunning /\ tun.manager # "none" =>
              net = [session |-> tunJob.session, index |-> tunJob.index]
        /\ tunJob.step \in {"probe", "undone"} /\ SaysRunning /\ tun.manager # "none" =>
              net = [session |-> tunJob.session, index |-> tun.index]
        /\ tunJob.step \in {"unbindBack", "bindBack", "boundBack"} => tunCore = "running" /\ adapter.state = "enabled"
        /\ tunJob.step = "boundBack" => tun.stage = "bound" /\ net = [session |-> tunJob.session, index |-> adapter.index]
        /\ tunJob.kind = "restore" =>
              /\ tunFaults = 1 /\ tunCore = "running" /\ adapter.state = "enabled"
              /\ tun.stage = "bound" /\ tun.manager # "none"
        /\ tunJob.step = "undone" => tun.direct = tunJob.before

\* Which mode the last commit proved.
Proved == IF tunJob.kind \in {"undo", "restore"} \/ tunJob.step = "probe" THEN tunJob.before ELSE tun.direct
Trusted == tunFaults <= 1 /\ tun.stage = "committed" => Proved \/ proof

TunInv ==
    /\ TunTyped /\ StepsFit /\ Owned /\ Prepared /\ Reloaded /\ WatchIsFair
    /\ WholeTun /\ BoundOnce /\ Trusted

-----------------------------------------------------------------------------
(* The records of a handler and of the memory *)

LEMMA SomeSteps ==
    /\ {"idle", "recover", "stop", "swap"} \subseteq TunSteps
    /\ PrepareStages \subseteq TunSteps /\ ReloadStages \subseteq TunSteps
  BY DEF TunSteps, PrepareStages, ReloadStages

LEMMA Zeros == 0 \in Sessions /\ 0 \in Numbers /\ NoNet \in Nets /\ NoAdapter \in Adapters
  BY TunAssumption DEF Sessions, Numbers, NoNet, Nets, NoAdapter, Adapters

LEMMA TunIdleType ==
    /\ TunIdle \in TunJobs
    /\ TunIdle.kind = "none" /\ TunIdle.step = "idle" /\ TunIdle.session = 0 /\ TunIdle.index = 0 /\ TunIdle.answer = "none"
<1>1. "none" \in TunKinds /\ "idle" \in TunSteps
  BY SomeSteps DEF TunKinds
<1> QED
  BY <1>1, Zeros DEF TunIdle, TunJobs

LEMMA TunBegins ==
    ASSUME NEW k \in TunKinds, NEW s \in TunSteps
    PROVE  LET task == [Begun(k) EXCEPT !.step = s]
           IN  task \in TunJobs /\ task.kind = k /\ task.step = s /\ task.session = 0 /\ task.index = 0 /\ task.answer = "none"
<1>1. Begun(k) \in TunJobs /\ Begun(k).kind = k /\ Begun(k).session = 0 /\ Begun(k).index = 0 /\ Begun(k).answer = "none"
  BY TunIdleType DEF Begun, TunJobs
<1> HIDE DEF Begun
<1> QED
  BY <1>1 DEF TunJobs

LEMMA TunAtType ==
    ASSUME tunJob \in TunJobs, NEW s \in TunSteps, TunAt(s)
    PROVE  /\ tunJob' \in TunJobs /\ tunJob'.step = s
           /\ tunJob'.kind = tunJob.kind /\ tunJob'.session = tunJob.session /\ tunJob'.index = tunJob.index
           /\ tunJob'.direct = tunJob.direct /\ tunJob'.before = tunJob.before
  BY DEF TunJobs, TunAt

LEMMA TunAnswersType ==
    ASSUME NEW a \in {"none", "ok", "failed", "dirty"}, TunAnswers(a)
    PROVE  /\ tunJob' \in TunJobs /\ tunJob'.kind = "none" /\ tunJob'.step = "idle" /\ tunJob'.answer = a
           /\ tunJob'.session = 0 /\ tunJob'.index = 0
  BY TunIdleType DEF TunJobs, TunAnswers

LEMMA TunUndoes ==
    ASSUME tunJob \in TunJobs, NEW k \in {"undo", "restore"}, UndoReload(k)
    PROVE  /\ tunJob' \in TunJobs /\ tunJob'.kind = k /\ tunJob'.step = "swap" /\ tunJob'.direct = tunJob.before
           /\ tunJob'.before = tunJob.before /\ tunJob'.session = tunJob.session /\ tunJob'.index = tunJob.index
<1>1. k \in TunKinds /\ "swap" \in TunSteps
  BY SomeSteps DEF TunKinds
<1> QED
  BY <1>1 DEF TunJobs, UndoReload

LEMMA TunReloads ==
    ASSUME tun \in Memories, NEW d \in BOOLEAN
    PROVE  LET task == [Begun("reload") EXCEPT !.step = "swap", !.session = tun.plan, !.direct = d, !.before = tun.direct]
           IN  /\ task \in TunJobs /\ task.kind = "reload" /\ task.step = "swap" /\ task.session = tun.plan
               /\ task.index = 0 /\ task.direct = d /\ task.before = tun.direct /\ task.answer = "none"
<1>1. "reload" \in TunKinds /\ "swap" \in TunSteps
  BY SomeSteps DEF TunKinds
<1>2. Begun("reload") \in TunJobs /\ Begun("reload").index = 0 /\ Begun("reload").answer = "none" /\ Begun("reload").kind = "reload"
  BY <1>1, TunIdleType DEF Begun, TunJobs
<1>3. tun.plan \in Sessions /\ tun.direct \in BOOLEAN
  BY DEF Memories
<1> HIDE DEF Begun
<1> QED
  BY <1>1, <1>2, <1>3 DEF TunJobs

LEMMA MemoryChanges ==
    ASSUME tun \in Memories
    PROVE  /\ Deactivated(tun) \in Memories /\ Cleared(Deactivated(tun)) \in Memories
           /\ [Cleared(Deactivated(tun)) EXCEPT !.enabled = FALSE, !.plan = 0, !.fault = PreparedFault] \in Memories
           /\ [Deactivated(tun) EXCEPT !.fault = PreparedFault] \in Memories
           /\ [tun EXCEPT !.fault = PreparedFault] \in Memories
<1>1. tun.fault \in [by : {"nobody", "watch", "prepare"}, seen : 0 .. Threshold]
  BY DEF Memories
<1>2. PreparedFault \in [by : {"nobody", "watch", "prepare"}, seen : 0 .. Threshold]
  BY <1>1 DEF PreparedFault, NoFaultId, Threshold
<1>3. Deactivated(tun) \in Memories /\ Cleared(Deactivated(tun)) \in Memories
  BY Zeros DEF Memories, Deactivated, Cleared
<1>4. [tun EXCEPT !.fault = PreparedFault] \in Memories
  BY <1>2 DEF Memories
<1>5. [Deactivated(tun) EXCEPT !.fault = PreparedFault] \in Memories
  BY <1>2, <1>3 DEF Memories
<1>6. [Cleared(Deactivated(tun)) EXCEPT !.enabled = FALSE, !.plan = 0, !.fault = PreparedFault] \in Memories
  BY <1>2, <1>3, Zeros DEF Memories
<1> QED
  BY <1>3, <1>4, <1>5, <1>6

LEMMA BindNetType ==
    ASSUME TunTyped, NEW done \in TunSteps, NEW failed \in TunSteps, BindNet(done, failed)
    PROVE  /\ tunJob' \in TunJobs /\ net' \in Nets /\ tunFaults' \in 0 .. MaxTunFaults
           /\ tunJob'.kind = tunJob.kind /\ tunJob'.session = tunJob.session
           /\ tunJob'.direct = tunJob.direct /\ tunJob'.before = tunJob.before
           /\ \/ /\ adapter.state = "enabled" /\ net' = [session |-> tunJob.session, index |-> adapter.index]
                 /\ tunJob'.step = done /\ tunJob'.index = adapter.index /\ tunFaults' = tunFaults
              \/ /\ adapter.state # "enabled" /\ tunJob'.step = failed /\ tunJob'.index = tunJob.index
                 /\ net' = net /\ tunFaults' = tunFaults
              \/ /\ tunFaults < MaxTunFaults /\ tunFaults' = tunFaults + 1
                 /\ tunJob'.step = failed /\ tunJob'.index = tunJob.index
                 /\ net' \in {NoNet, [session |-> tunJob.session, index |-> adapter.index]}
<1>1. tunJob.session \in Sessions /\ adapter.index \in Numbers /\ tunJob \in TunJobs /\ net \in Nets
      /\ tunFaults \in 0 .. MaxTunFaults
  BY DEF TunTyped, TunJobs, Adapters
<1>2. CASE /\ adapter.state = "enabled" /\ net' = [session |-> tunJob.session, index |-> adapter.index]
           /\ tunJob' = [tunJob EXCEPT !.step = done, !.index = adapter.index] /\ UNCHANGED tunFaults
  BY <1>1, <1>2 DEF TunJobs, Nets
<1>3. CASE adapter.state # "enabled" /\ TunAt(failed) /\ UNCHANGED <<net, tunFaults>>
  BY <1>1, <1>3, TunAtType
<1>4. CASE /\ TunBreaks /\ TunAt(failed)
           /\ net' \in {NoNet, [session |-> tunJob.session, index |-> adapter.index]}
  <2>1. net' \in Nets
    BY <1>1, <1>4, Zeros DEF Nets
  <2>2. tunFaults < MaxTunFaults /\ tunFaults' = tunFaults + 1 /\ tunFaults' \in 0 .. MaxTunFaults
    BY <1>1, <1>4, TunAssumption DEF TunBreaks
  <2> QED
    BY <1>1, <1>4, <2>1, <2>2, TunAtType
<1> QED
  BY <1>2, <1>3, <1>4 DEF BindNet

\* A check of the data path without direct mode proves that the traffic is captured.
LEMMA VerifiedProves ==
    ASSUME NEW world \in Worlds, NEW direct \in BOOLEAN, NEW udp \in BOOLEAN, DataPlaneVerified(world, direct, udp)
    PROVE  tunCore = "running" /\ Proves(world) \in BOOLEAN /\ (direct \/ Proves(world))
  BY DEF Worlds, DataPlaneVerified, ExitOf, Proves

-----------------------------------------------------------------------------
(* The monitor, the core, the adapter and the process *)

\* Nothing that holds the lock looks at the monitor.
LEMMA WatchRests ==
    ASSUME TunInv, UNCHANGED <<watch, blame>>, tun'.fault = tun.fault \/ tun'.fault.by # "watch"
    PROVE  WatchIsFair'
  BY DEF TunInv, WatchIsFair, FaultHasEvidence

\* What only changes the fault that is shown, or nothing of the session.
LEMMA SessionRests ==
    ASSUME TunInv, UNCHANGED <<tunJob, tunCore, adapter, net, proof, sessions, tunFaults>>, tun' \in Memories,
           \A f \in {"manager", "enabled", "plan", "stage", "session", "index", "direct"} : tun'[f] = tun[f]
    PROVE  /\ TunTyped' /\ StepsFit' /\ Owned' /\ Prepared' /\ Reloaded' /\ WholeTun' /\ BoundOnce' /\ Trusted'
<1>1. /\ tun'.manager = tun.manager /\ tun'.enabled = tun.enabled /\ tun'.plan = tun.plan /\ tun'.stage = tun.stage
      /\ tun'.session = tun.session /\ tun'.index = tun.index /\ tun'.direct = tun.direct
  OBVIOUS
<1>2. TunTyped' /\ StepsFit'
  BY DEF TunInv, TunTyped, StepsFit
<1>3. Owned' /\ Reloaded'
  BY <1>1 DEF TunInv, Owned, Reloaded, TunAlive, Reloading
<1>4. Prepared'
  BY <1>1 DEF TunInv, Prepared, SaysRunning
<1>5. WholeTun' /\ Trusted'
  BY <1>1 DEF TunInv, WholeTun, Trusted, Proved, Reloading
<1>6. BoundOnce'
  BY <1>1 DEF TunInv, BoundOnce, TunAlive, SaysRunning, Reloading
<1> QED
  BY <1>2, <1>3, <1>4, <1>5, <1>6

LEMMA NobodyIsBlamed == Unwatched \in Watches /\ Unwatched.at = "wait" /\ Unwatched.count = 0 /\ Blamed(0, FALSE) \in Blames
  BY Zeros DEF Unwatched, NoExpectation, Nets, Watches, Blamed, Blames, Threshold

LEMMA WatchGoes ==
    ASSUME WatchIsFair, NEW a \in {"inspect", "again", "confirm", "publish"}
    PROVE  LET next == [watch EXCEPT !.at = a]
           IN  /\ next \in Watches /\ next.at = a /\ next.expected = watch.expected
               /\ next.session = watch.session /\ next.count = watch.count
  BY DEF WatchIsFair, Watches

\* Who looks at the adapter counts what nobody else counts.
LEMMA WatchCounts ==
    ASSUME TunInv, Look \/ Inspect \/ LookAgain \/ Confirm
    PROVE  WatchIsFair'
<1>1. /\ WatchIsFair /\ watch \in Watches /\ blame \in Blames /\ FaultHasEvidence'
      /\ watch.session \in Sessions /\ watch.count \in 0 .. Threshold /\ watch.expected \in Nets
      /\ watch.expected.session \in Sessions /\ blame.session \in Sessions /\ blame.count \in 0 .. Threshold
  BY DEF TunInv, WatchIsFair, Watches, Blames, Nets, FaultHasEvidence, Look, Inspect, LookAgain,
     Confirm
<1>2. CASE Look
  <2>1. tun \in Memories /\ tun.session \in Sessions /\ tun.index \in Numbers
    BY DEF TunInv, TunTyped, Memories
  <2>2. Expectation \in Nets
    BY <2>1 DEF Expectation, Nets
  <2>3. CASE Committed
    <3>1. watch' = [watch EXCEPT !.at = "inspect", !.expected = Expectation] /\ blame' = blame /\ watch.at = "wait"
      BY <1>2, <2>3 DEF Look
    <3>2. /\ watch' \in Watches /\ watch'.at = "inspect" /\ watch'.session = watch.session /\ watch'.count = watch.count
      BY <1>1, <2>2, <3>1 DEF Watches
    <3> QED
      BY <1>1, <3>1, <3>2 DEF TunInv, WatchIsFair
  <2>4. CASE ~Committed
    <3>1. watch' = Unwatched /\ blame' = Blamed(0, FALSE)
      BY <1>2, <2>4 DEF Look
    <3>2. watch' \in Watches /\ blame' \in Blames /\ watch'.at = "wait" /\ watch'.count = 0
      BY <3>1, NobodyIsBlamed
    <3> QED
      BY <1>1, <3>2 DEF WatchIsFair, Threshold
  <2> QED
    BY <2>3, <2>4
<1>3. CASE Inspect
  <2> DEFINE wrong == Actionable(watch.expected)
             suspect == watch.expected.session
             tracker == Observed(suspect, wrong)
  <2>1. /\ watch.at = "inspect" /\ blame' = Blamed(suspect, wrong)
        /\ watch' = IF tracker.count >= Threshold
                    THEN [watch EXCEPT !.at = "again", !.session = tracker.session, !.count = tracker.count]
                    ELSE [Unwatched EXCEPT !.session = tracker.session, !.count = tracker.count]
    BY <1>3 DEF Inspect
  <2>2. watch.count < Threshold /\ (watch.count # 0 => watch.session = blame.session /\ watch.count <= blame.count)
    BY <2>1 DEF TunInv, WatchIsFair
  <2>3. /\ tracker \in Blames /\ blame' \in Blames
        /\ tracker.count # 0 => tracker.session = suspect /\ blame'.session = suspect /\ tracker.count <= blame'.count
    <3> HIDE DEF wrong
    <3>1. CASE ~wrong
      BY <1>1, <2>1, <3>1, Zeros DEF Observed, Blamed, Blames, Threshold
    <3>2. CASE wrong
      <4>1. tracker = [session |-> suspect, count |-> IF watch.session = suspect THEN watch.count + 1 ELSE 1]
        BY <3>2 DEF Observed
      <4>2. blame' = [session |-> suspect,
                      count |-> IF blame.session # suspect THEN 1 ELSE IF blame.count < Threshold THEN blame.count + 1 ELSE Threshold]
        BY <2>1, <3>2 DEF Blamed
      <4> HIDE DEF tracker, suspect
      <4>3. suspect \in Sessions
        BY <1>1 DEF suspect
      <4> QED
        BY <1>1, <2>2, <4>1, <4>2, <4>3 DEF Blames, Threshold
    <3> QED
      BY <3>1, <3>2
  <2> HIDE DEF tracker, wrong
  <2>4. tracker.session \in Sessions /\ tracker.count \in 0 .. Threshold /\ blame'.session \in Sessions /\ blame'.count \in 0 .. Threshold
    BY <2>3 DEF Blames
  <2>5. CASE tracker.count >= Threshold
    <3>1. watch' = [watch EXCEPT !.at = "again", !.session = tracker.session, !.count = tracker.count]
      BY <2>1, <2>5
    <3>2. watch' \in Watches /\ watch'.at = "again" /\ watch'.expected = watch.expected
      BY <1>1, <2>4, <3>1 DEF Watches
    <3>3. blame'.count = Threshold /\ blame'.session = suspect
      BY <2>3, <2>4, <2>5 DEF Threshold
    <3>4. blame' = [session |-> suspect, count |-> Threshold]
      BY <2>3, <3>3 DEF Blames
    <3> QED
      BY <1>1, <2>3, <3>2, <3>4 DEF WatchIsFair
  <2>6. CASE ~(tracker.count >= Threshold)
    <3>1. watch' = [Unwatched EXCEPT !.session = tracker.session, !.count = tracker.count]
      BY <2>1, <2>6
    <3>2. watch' \in Watches /\ watch'.at = "wait" /\ watch'.session = tracker.session /\ watch'.count = tracker.count
      BY <2>4, <3>1, NobodyIsBlamed DEF Watches
    <3>3. watch'.count < Threshold
      BY <2>4, <2>6, <3>2 DEF Threshold
    <3> QED
      BY <1>1, <2>3, <3>2, <3>3 DEF WatchIsFair
  <2> QED
    BY <2>5, <2>6
<1>4. CASE LookAgain
  <2>1. watch.at = "again" /\ blame' = blame /\ (watch' = [watch EXCEPT !.at = "confirm"] \/ watch' = Unwatched)
    BY <1>4 DEF LookAgain
  <2>2. CASE watch' = Unwatched
    BY <1>1, <2>1, <2>2, NobodyIsBlamed DEF WatchIsFair, Threshold
  <2>3. CASE watch' = [watch EXCEPT !.at = "confirm"]
    <3>1. watch' \in Watches /\ watch'.at = "confirm" /\ watch'.expected = watch.expected
      BY <1>1, <2>3, WatchGoes
    <3> QED
      BY <1>1, <2>1, <3>1 DEF WatchIsFair
  <2> QED
    BY <2>1, <2>2, <2>3
<1>5. CASE Confirm
  <2>1. watch.at = "confirm" /\ blame' = blame /\ (watch' = [watch EXCEPT !.at = "publish"] \/ watch' = Unwatched)
    BY <1>5 DEF Confirm
  <2>2. CASE watch' = Unwatched
    BY <1>1, <2>1, <2>2, NobodyIsBlamed DEF WatchIsFair, Threshold
  <2>3. CASE watch' = [watch EXCEPT !.at = "publish"]
    <3>1. watch' \in Watches /\ watch'.at = "publish" /\ watch'.expected = watch.expected
      BY <1>1, <2>3, WatchGoes
    <3> QED
      BY <1>1, <2>1, <3>1 DEF WatchIsFair
  <2> QED
    BY <2>1, <2>2, <2>3
<1> QED
  BY <1>2, <1>3, <1>4, <1>5

LEMMA LookingKeeps == ASSUME TunInv, Look \/ Inspect \/ LookAgain \/ Confirm PROVE TunInv'
<1>1. UNCHANGED <<tun, tunJob, tunCore, adapter, net, proof, sessions, tunFaults>>
  BY DEF Look, Inspect, LookAgain, Confirm
<1>2. tun' \in Memories
  BY <1>1 DEF TunInv, TunTyped
<1> QED
  BY <1>1, <1>2, SessionRests, WatchCounts DEF TunInv

LEMMA PublishKeeps == ASSUME TunInv, Publish PROVE TunInv'
<1> DEFINE seen == IF blame.session = watch.expected.session THEN blame.count ELSE 0
<1>1. /\ tun' = [tun EXCEPT !.fault = [by |-> "watch", seen |-> seen]] /\ watch' = Unwatched /\ watch.at = "publish"
      /\ UNCHANGED <<tunJob, tunCore, adapter, net, blame, proof, sessions, tunFaults>>
  BY DEF Publish
<1>2. blame = [session |-> watch.expected.session, count |-> Threshold] /\ blame \in Blames
  BY <1>1 DEF TunInv, WatchIsFair
<1>3. seen = Threshold /\ [by |-> "watch", seen |-> seen] \in [by : {"nobody", "watch", "prepare"}, seen : 0 .. Threshold]
  BY <1>2 DEF Threshold
<1> HIDE DEF seen
<1>4. tun \in Memories
  BY DEF TunInv, TunTyped
<1>5. /\ tun' \in Memories /\ tun'.manager = tun.manager /\ tun'.enabled = tun.enabled /\ tun'.plan = tun.plan
                           /\ tun'.stage = tun.stage /\ tun'.session = tun.session /\ tun'.index = tun.index
                           /\ tun'.direct = tun.direct
      /\ tun'.fault.seen = Threshold
  BY <1>1, <1>3, <1>4 DEF Memories
<1>6. WatchIsFair'
  BY <1>1, <1>2, <1>5, NobodyIsBlamed DEF WatchIsFair, FaultHasEvidence, Threshold
<1> QED
  BY <1>1, <1>5, <1>6, SessionRests DEF TunInv


\* A step outside of a reload that leaves the memory, the handler and the network as they are.
LEMMA CoreDiesKeeps == ASSUME TunInv, TunCoreDies PROVE TunInv'
<1>1. /\ tunCore = "running" /\ tunCore' = "dead" /\ tunFaults < MaxTunFaults /\ tunFaults' = tunFaults + 1
      /\ adapter' = NoAdapter \/ (adapter # NoAdapter /\ adapter' = [adapter EXCEPT !.state = "disabled"])
      /\ UNCHANGED <<tun, tunJob, net, watch, blame, proof, sessions>>
  BY DEF TunCoreDies, TunBreaks
<1>2. /\ TunTyped /\ tunFaults \in 0 .. MaxTunFaults /\ adapter \in Adapters /\ MaxTunFaults \in Nat
      /\ adapter.state # "missing" => adapter.index # 0
  BY TunAssumption DEF TunInv, TunTyped, Prepared
<1>3. adapter' \in Adapters /\ (adapter'.state # "missing" => adapter'.index = adapter.index /\ adapter.index # 0)
  <2>1. adapter # NoAdapter => adapter.index # 0 \/ adapter.state = "missing"
    BY <1>2
  <2> QED
    BY <1>1, <1>2, <2>1, Zeros DEF Adapters, NoAdapter
<1>4. tunFaults' \in 0 .. MaxTunFaults /\ tunFaults' # 0 /\ (tunFaults' <= 1 => tunFaults = 0)
  BY <1>1, <1>2
<1>5. TunTyped' /\ StepsFit' /\ WatchIsFair' /\ Reloaded' /\ Owned'
  BY <1>1, <1>3, <1>4, WatchRests DEF TunInv, TunTyped, StepsFit, Reloaded, Reloading, Owned,
     TunAlive
<1>6. Prepared'
  <2>1. SaysRunning /\ SaysRunning'
    BY <1>1 DEF SaysRunning
  <2>2. adapter'.state # "missing" => adapter'.index # 0
    BY <1>2, <1>3
  <2> QED
    BY <1>1, <2>1, <2>2 DEF TunInv, Prepared
<1>7. WholeTun'
  BY <1>1, <1>3, <1>4 DEF TunInv, StepsFit, Owned, Prepared, Reloaded, WholeTun, SaysRunning,
     Reloading, PrepareStages, Binding, GoingBack
<1>8. BoundOnce'
  BY <1>1, <1>3, <1>4 DEF TunInv, StepsFit, Owned, Prepared, Reloaded, WholeTun, BoundOnce,
     TunAlive, SaysRunning, Reloading, PrepareStages, Binding, GoingBack
<1>9. Trusted'
  BY <1>1, <1>3, <1>4 DEF TunInv, StepsFit, Reloaded, Prepared, WholeTun, BoundOnce, Trusted,
     Proved, SaysRunning, Reloading, PrepareStages, Binding, GoingBack
<1> QED
  BY <1>5, <1>6, <1>7, <1>8, <1>9 DEF TunInv

LEMMA DeathNoticedKeeps == ASSUME TunInv, TunDeathNoticed PROVE TunInv'
<1>1. /\ tunCore = "dead" /\ tunCore' \in {"dirty", "failed"}
      /\ UNCHANGED <<tun, tunJob, adapter, net, watch, blame, proof, sessions, tunFaults>>
  BY DEF TunDeathNoticed
<1>2. TunTyped' /\ StepsFit' /\ WatchIsFair' /\ Reloaded' /\ Owned'
  BY <1>1, WatchRests DEF TunInv, TunTyped, StepsFit, Reloaded, Reloading, Owned, TunAlive
<1>3. Prepared'
  BY <1>1 DEF TunInv, StepsFit, Owned, Prepared, Reloaded, SaysRunning, Reloading, PrepareStages,
     Binding
<1>4. WholeTun'
  BY <1>1 DEF TunInv, StepsFit, Owned, Prepared, Reloaded, WholeTun, SaysRunning, Reloading,
     PrepareStages, Binding, GoingBack
<1>5. BoundOnce'
  BY <1>1 DEF TunInv, StepsFit, Owned, Prepared, Reloaded, WholeTun, BoundOnce, TunAlive,
     SaysRunning, Reloading, PrepareStages, Binding, GoingBack
<1>6. Trusted'
  BY <1>1 DEF TunInv, StepsFit, Reloaded, Prepared, WholeTun, BoundOnce, Trusted, Proved,
     SaysRunning, Reloading, PrepareStages, Binding, GoingBack
<1> QED
  BY <1>2, <1>3, <1>4, <1>5, <1>6 DEF TunInv

LEMMA AdapterKeeps == ASSUME TunInv, AdapterChanges PROVE TunInv'
<1>1. /\ UNCHANGED <<tun, tunJob, tunCore, net, watch, blame, proof, sessions>>
      /\ \/ /\ adapter.state = "enabled" /\ tunFaults < MaxTunFaults /\ tunFaults' = tunFaults + 1
            /\ adapter' = NoAdapter \/ adapter' = [adapter EXCEPT !.state = "disabled"] \/ adapter' = [adapter EXCEPT !.state = "starting"]
         \/ /\ adapter.state \in {"disabled", "starting"} /\ tunFaults' = tunFaults
            /\ adapter' = [adapter EXCEPT !.state = "enabled"]
  BY DEF AdapterChanges, TunBreaks
<1>2. /\ TunTyped /\ tunFaults \in 0 .. MaxTunFaults /\ adapter \in Adapters /\ MaxTunFaults \in Nat
      /\ adapter.state # "missing" => adapter.index # 0
  BY TunAssumption DEF TunInv, TunTyped, Prepared
<1>3. /\ adapter' \in Adapters /\ (adapter'.state # "missing" => adapter'.index = adapter.index /\ adapter.index # 0)
      /\ tunFaults' \in 0 .. MaxTunFaults
      /\ \/ tunFaults' # 0 /\ (tunFaults' <= 1 => tunFaults = 0)
         \/ tunFaults' = tunFaults /\ adapter'.index = adapter.index /\ adapter'.state = "enabled" /\ adapter.state # "enabled"
  BY <1>1, <1>2, Zeros DEF Adapters, NoAdapter
<1>4. TunTyped' /\ StepsFit' /\ WatchIsFair' /\ Reloaded' /\ Owned'
  BY <1>1, <1>3, WatchRests DEF TunInv, TunTyped, StepsFit, Reloaded, Reloading, Owned, TunAlive
<1>5. Prepared'
  BY <1>1, <1>3 DEF TunInv, StepsFit, Owned, Prepared, Reloaded, SaysRunning, Reloading,
     PrepareStages, Binding
<1>6. WholeTun'
  BY <1>1, <1>3 DEF TunInv, StepsFit, Owned, Prepared, Reloaded, WholeTun, SaysRunning, Reloading,
     PrepareStages, Binding, GoingBack
<1>7. BoundOnce'
  BY <1>1, <1>3 DEF TunInv, StepsFit, Owned, Prepared, Reloaded, WholeTun, BoundOnce, TunAlive,
     SaysRunning, Reloading, PrepareStages, Binding, GoingBack
<1>8. Trusted'
  BY <1>1, <1>3 DEF TunInv, StepsFit, Reloaded, Prepared, WholeTun, BoundOnce, Trusted, Proved,
     SaysRunning, Reloading, PrepareStages, Binding, GoingBack
<1> QED
  BY <1>4, <1>5, <1>6, <1>7, <1>8 DEF TunInv

LEMMA ProcessGoneKeeps ==
    ASSUME TunInv, ProcessGone, adapter' \in Adapters, adapter'.state # "missing" => adapter'.index # 0,
           net' \in Nets, sessions' = sessions, tunFaults' \in 0 .. MaxTunFaults
    PROVE  TunInv'
<1>1. /\ tun'.manager = "none" /\ tun'.enabled = FALSE /\ tun'.plan = 0 /\ tun'.stage = "none"
      /\ tun'.session = 0 /\ tun'.index = 0 /\ tun'.direct = FALSE /\ tun'.fault = NoFaultId /\ tun' \in Memories
  BY Zeros DEF ProcessGone, Memories, NoFaultId, Threshold
<1>2. tunJob' \in TunJobs /\ tunJob'.kind = "boot" /\ tunJob'.step = "recover"
  <2>1. "boot" \in TunKinds /\ "recover" \in TunSteps
    BY SomeSteps DEF TunKinds
  <2> QED
    BY <2>1, TunBegins DEF ProcessGone
<1>3. tunCore' = "stopped" /\ watch' = Unwatched /\ blame' = Blamed(0, FALSE) /\ proof' = FALSE
  BY DEF ProcessGone
<1>4. TunTyped'
  BY <1>1, <1>2, <1>3 DEF TunInv, TunTyped
<1>5. WatchIsFair'
  <2>1. watch' \in Watches /\ blame' \in Blames /\ watch'.at = "wait" /\ watch'.count = 0
    BY <1>3, NobodyIsBlamed
  <2>2. tun'.fault.by # "watch"
    BY <1>1 DEF NoFaultId
  <2> QED
    BY <2>1, <2>2 DEF WatchIsFair, FaultHasEvidence, Threshold
<1>6. StepsFit'
  BY <1>1, <1>2, <1>3 DEF TunInv, StepsFit, PrepareStages, Binding, GoingBack
<1>7. Owned'
  BY <1>1, <1>2, <1>3 DEF TunInv, StepsFit, Owned, Prepared, Reloaded, TunAlive, Reloading,
     PrepareStages, Binding
<1>8. Prepared'
  BY <1>1, <1>2, <1>3 DEF TunInv, StepsFit, Owned, Prepared, Reloaded, SaysRunning, Reloading,
     PrepareStages, Binding
<1>9. Reloaded'
  BY <1>1, <1>2, <1>3 DEF TunInv, StepsFit, Prepared, Reloaded, SaysRunning, Reloading,
     PrepareStages, Binding
<1>10. WholeTun'
  BY <1>1, <1>2, <1>3 DEF TunInv, StepsFit, Owned, Prepared, Reloaded, WholeTun, SaysRunning,
     Reloading, PrepareStages, Binding, GoingBack
<1>11. BoundOnce'
  BY <1>1, <1>2, <1>3 DEF TunInv, StepsFit, Owned, Prepared, Reloaded, WholeTun, BoundOnce,
     TunAlive, SaysRunning, Reloading, PrepareStages, Binding, GoingBack
<1>12. Trusted'
  BY <1>1, <1>2, <1>3 DEF TunInv, StepsFit, Reloaded, Prepared, WholeTun, BoundOnce, Trusted,
     Proved, SaysRunning, Reloading, PrepareStages, Binding, GoingBack
<1> QED
  BY <1>4, <1>5, <1>6, <1>7, <1>8, <1>9, <1>10, <1>11, <1>12 DEF TunInv

LEMMA EndsKeep == ASSUME TunInv, ServiceCrashes \/ ShutDown PROVE TunInv'
<1>1. /\ adapter \in Adapters /\ net \in Nets /\ tunFaults \in 0 .. MaxTunFaults
      /\ adapter.state # "missing" => adapter.index # 0
  BY DEF TunInv, TunTyped, Prepared
<1>2. CASE ServiceCrashes
  <2>1. /\ ProcessGone /\ net' = net /\ sessions' = sessions /\ tunFaults < MaxTunFaults /\ tunFaults' = tunFaults + 1
        /\ adapter' = NoAdapter \/ (adapter # NoAdapter /\ adapter' = [adapter EXCEPT !.state = "disabled"])
    BY <1>2 DEF ServiceCrashes, TunBreaks
  <2>2. adapter' \in Adapters /\ (adapter'.state # "missing" => adapter'.index # 0)
    <3>1. adapter # NoAdapter => adapter.index # 0 \/ adapter.state = "missing"
      BY <1>1
    <3> QED
      BY <1>1, <2>1, <3>1, Zeros DEF Adapters, NoAdapter
  <2>3. tunFaults' \in 0 .. MaxTunFaults
    BY <1>1, <2>1, TunAssumption
  <2> QED
    BY <1>1, <2>1, <2>2, <2>3, ProcessGoneKeeps
<1>3. CASE ShutDown
  <2>1. /\ ProcessGone /\ adapter' = NoAdapter /\ sessions' = sessions /\ net' \in {net, NoNet}
        /\ tunFaults' = tunFaults \/ (tunFaults < MaxTunFaults /\ tunFaults' = tunFaults + 1)
    BY <1>3 DEF ShutDown, TunBreaks
  <2>2. tunFaults' \in 0 .. MaxTunFaults
    BY <1>1, <2>1, TunAssumption
  <2>3. NoAdapter.state = "missing"
    BY DEF NoAdapter
  <2> QED
    BY <1>1, <2>1, <2>2, <2>3, Zeros, ProcessGoneKeeps
<1> QED
  BY <1>2, <1>3


-----------------------------------------------------------------------------
(* capture.prepare *)

LEMMA BeginPrepareKeeps == ASSUME TunInv, NEW kind \in {"tun", "proxy", "off"}, BeginPrepare(kind) PROVE TunInv'
<1>1. /\ tunJob.step = "idle" /\ TunAlive /\ tunJob' = [Begun(kind) EXCEPT !.step = "stop"]
      /\ tun' = IF tun.manager = "none" THEN [tun EXCEPT !.manager = "recovery"] ELSE tun
      /\ UNCHANGED <<tunCore, adapter, net, watch, blame, proof, sessions, tunFaults>>
  BY DEF BeginPrepare
<1>2. tunJob' \in TunJobs /\ tunJob'.kind = kind /\ tunJob'.step = "stop"
  <2>1. kind \in TunKinds /\ "stop" \in TunSteps
    BY SomeSteps DEF TunKinds
  <2> QED
    BY <1>1, <2>1, TunBegins
<1>3. /\ tun' \in Memories /\ tun'.manager # "none" /\ tun'.enabled = tun.enabled /\ tun'.plan = tun.plan
      /\ tun'.stage = tun.stage /\ tun'.session = tun.session /\ tun'.index = tun.index /\ tun'.direct = tun.direct
      /\ tun'.fault = tun.fault
  BY <1>1 DEF TunInv, TunTyped, Memories
<1>4. TunTyped' /\ WatchIsFair'
  BY <1>1, <1>2, <1>3, WatchRests DEF TunInv, TunTyped
<1>5. StepsFit'
  BY <1>1, <1>2, <1>3 DEF TunInv, StepsFit, PrepareStages, Binding, GoingBack
<1>6. Owned'
  BY <1>1, <1>2, <1>3 DEF TunInv, StepsFit, Owned, Prepared, Reloaded, TunAlive, Reloading,
     PrepareStages, Binding
<1>7. Prepared'
  BY <1>1, <1>2, <1>3 DEF TunInv, StepsFit, Owned, Prepared, Reloaded, SaysRunning, Reloading,
     PrepareStages, Binding
<1>8. Reloaded'
  BY <1>1, <1>2, <1>3 DEF TunInv, StepsFit, Prepared, Reloaded, SaysRunning, Reloading,
     PrepareStages, Binding
<1>9. WholeTun'
  BY <1>1, <1>2, <1>3 DEF TunInv, StepsFit, Owned, Prepared, Reloaded, WholeTun, SaysRunning,
     Reloading, PrepareStages, Binding, GoingBack
<1>10. BoundOnce'
  BY <1>1, <1>2, <1>3 DEF TunInv, StepsFit, Owned, Prepared, Reloaded, WholeTun, BoundOnce,
     TunAlive, SaysRunning, Reloading, PrepareStages, Binding, GoingBack
<1>11. Trusted'
  BY <1>1, <1>2, <1>3 DEF TunInv, StepsFit, Reloaded, Prepared, WholeTun, BoundOnce, Trusted,
     Proved, SaysRunning, Reloading, PrepareStages, Binding, GoingBack
<1> QED
  BY <1>4, <1>5, <1>6, <1>7, <1>8, <1>9, <1>10, <1>11 DEF TunInv

LEMMA StopOldCoreKeeps == ASSUME TunInv, StopOldCore PROVE TunInv'
<1>1. /\ tunJob.step = "stop" /\ UNCHANGED <<tun, net, watch, blame, proof, sessions>>
      /\ \/ /\ tunCore # "dirty" /\ tunCore' = "stopped" /\ TunAt("clean") /\ UNCHANGED tunFaults
            /\ adapter' = NoAdapter \/ (adapter # NoAdapter /\ adapter' = [adapter EXCEPT !.state = "disabled"])
         \/ tunCore = "dirty" /\ TunAt("rollback") /\ UNCHANGED <<tunCore, adapter, tunFaults>>
         \/ /\ tunFaults < MaxTunFaults /\ tunFaults' = tunFaults + 1 /\ TunAt("rollback") /\ UNCHANGED <<tunCore, adapter>>
  BY DEF StopOldCore, TunBreaks
<1>2. /\ TunTyped /\ tunJob \in TunJobs /\ adapter \in Adapters /\ tunFaults \in 0 .. MaxTunFaults /\ MaxTunFaults \in Nat
      /\ adapter.state # "missing" => adapter.index # 0
      /\ "clean" \in TunSteps /\ "rollback" \in TunSteps
  BY TunAssumption, SomeSteps DEF TunInv, TunTyped, Prepared, PrepareStages
<1>3. /\ adapter' \in Adapters /\ (adapter'.state # "missing" => adapter'.index # 0)
      /\ tunFaults' \in 0 .. MaxTunFaults /\ tunFaults' \in {tunFaults, tunFaults + 1}
  <2>1. adapter # NoAdapter => adapter.index # 0 \/ adapter.state = "missing"
    BY <1>2
  <2> QED
    BY <1>1, <1>2, <2>1, Zeros DEF Adapters, NoAdapter
<1>4. /\ tunJob' \in TunJobs /\ tunJob'.kind = tunJob.kind
      /\ \/ tunJob'.step = "clean" /\ tunCore # "dirty" /\ tunCore' = "stopped" /\ tunFaults' = tunFaults
         \/ tunJob'.step = "rollback" /\ tunCore' = tunCore /\ tunFaults' # 0 /\ adapter' = adapter
  <2>1. tunCore = "dirty" => tunFaults # 0
    BY DEF TunInv, WholeTun
  <2> QED
    BY <1>1, <1>2, <2>1, TunAtType
<1>5. TunTyped' /\ WatchIsFair'
  BY <1>1, <1>2, <1>3, <1>4, WatchRests DEF TunTyped
<1>6. StepsFit'
  BY <1>1, <1>2, <1>3, <1>4 DEF TunInv, StepsFit, PrepareStages, Binding, GoingBack
<1>7. Owned'
  BY <1>1, <1>2, <1>3, <1>4 DEF TunInv, StepsFit, Owned, Prepared, Reloaded, TunAlive, Reloading,
     PrepareStages, Binding
<1>8. Prepared'
  BY <1>1, <1>2, <1>3, <1>4 DEF TunInv, StepsFit, Owned, Prepared, Reloaded, SaysRunning,
     Reloading, PrepareStages, Binding
<1>9. Reloaded'
  BY <1>1, <1>2, <1>3, <1>4 DEF TunInv, StepsFit, Prepared, Reloaded, SaysRunning, Reloading,
     PrepareStages, Binding
<1>10. WholeTun'
  BY <1>1, <1>2, <1>3, <1>4 DEF TunInv, StepsFit, Owned, Prepared, Reloaded, WholeTun,
     SaysRunning, Reloading, PrepareStages, Binding, GoingBack
<1>11. BoundOnce'
  BY <1>1, <1>2, <1>3, <1>4 DEF TunInv, StepsFit, Owned, Prepared, Reloaded, WholeTun, BoundOnce,
     TunAlive, SaysRunning, Reloading, PrepareStages, Binding, GoingBack
<1>12. Trusted'
  BY <1>1, <1>2, <1>3, <1>4 DEF TunInv, StepsFit, Reloaded, Prepared, WholeTun, BoundOnce,
     Trusted, Proved, SaysRunning, Reloading, PrepareStages, Binding, GoingBack
<1> QED
  BY <1>5, <1>6, <1>7, <1>8, <1>9, <1>10, <1>11, <1>12 DEF TunInv


LEMMA DeactivatedFields ==
    ASSUME tun \in Memories, tun' = Deactivated(tun)
    PROVE  /\ tun' \in Memories /\ tun'.manager = "none" /\ tun'.enabled = tun.enabled /\ tun'.plan = tun.plan
                                /\ tun'.stage = tun.stage /\ tun'.session = tun.session /\ tun'.index = tun.index
                                /\ tun'.direct = tun.direct /\ tun'.fault = tun.fault
  BY MemoryChanges DEF Memories, Deactivated

LEMMA ClearedFields ==
    ASSUME tun \in Memories, tun' = Cleared(Deactivated(tun))
    PROVE  /\ tun' \in Memories /\ tun'.manager = "none" /\ tun'.enabled = tun.enabled /\ tun'.plan = tun.plan
                                /\ tun'.stage = "none" /\ tun'.session = 0 /\ tun'.index = 0
                                /\ tun'.direct = tun.direct /\ tun'.fault = tun.fault
  BY MemoryChanges DEF Memories, Deactivated, Cleared

\* What every step of a preparation has that fails before it has changed anything.
LEMMA PrepareFails ==
    ASSUME TunInv, tunJob.step \in PrepareStages, TunBreaks, TunAt("rollback"), tunCore' \in {tunCore, "failed"},
           UNCHANGED <<tun, adapter, net, watch, blame, proof, sessions>>
    PROVE  TunInv'
<1>1. /\ tunJob' \in TunJobs /\ tunJob'.kind = tunJob.kind /\ tunJob'.step = "rollback"
      /\ tunJob.kind \in {"tun", "proxy", "off"}
  <2>1. "rollback" \in TunSteps
    BY SomeSteps DEF PrepareStages
  <2> QED
    BY <2>1, TunAtType DEF TunInv, TunTyped, StepsFit
<1>2. tunFaults \in 0 .. MaxTunFaults /\ tunFaults' = tunFaults + 1 /\ tunFaults' \in 0 .. MaxTunFaults /\ tunFaults' # 0
  BY TunAssumption DEF TunInv, TunTyped, TunBreaks
<1>3. TunTyped' /\ WatchIsFair'
  BY <1>1, <1>2, WatchRests DEF TunInv, TunTyped
<1>4. StepsFit'
  BY <1>1, <1>2 DEF TunInv, StepsFit, PrepareStages, Binding, GoingBack
<1>5. Owned'
  BY <1>1, <1>2 DEF TunInv, StepsFit, Owned, Prepared, Reloaded, TunAlive, Reloading,
     PrepareStages, Binding
<1>6. Prepared'
  BY <1>1, <1>2 DEF TunInv, StepsFit, Owned, Prepared, Reloaded, SaysRunning, Reloading,
     PrepareStages, Binding
<1>7. Reloaded'
  BY <1>1, <1>2 DEF TunInv, StepsFit, Prepared, Reloaded, SaysRunning, Reloading, PrepareStages,
     Binding
<1>8. WholeTun'
  BY <1>1, <1>2 DEF TunInv, StepsFit, Owned, Prepared, Reloaded, WholeTun, SaysRunning, Reloading,
     PrepareStages, Binding, GoingBack
<1>9. BoundOnce'
  BY <1>1, <1>2 DEF TunInv, StepsFit, Owned, Prepared, Reloaded, WholeTun, BoundOnce, TunAlive,
     SaysRunning, Reloading, PrepareStages, Binding, GoingBack
<1>10. Trusted'
  BY <1>1, <1>2 DEF TunInv, StepsFit, Reloaded, Prepared, WholeTun, BoundOnce, Trusted, Proved,
     SaysRunning, Reloading, PrepareStages, Binding, GoingBack
<1> QED
  BY <1>3, <1>4, <1>5, <1>6, <1>7, <1>8, <1>9, <1>10 DEF TunInv

LEMMA CleanOldKeeps == ASSUME TunInv, CleanOld PROVE TunInv'
<1>1. tunJob.step = "clean" /\ tunJob.step \in PrepareStages /\ UNCHANGED <<tunCore, watch, blame, sessions>> /\ tunCore = "stopped"
  BY DEF TunInv, Prepared, CleanOld, PrepareStages
<1>2. /\ tun \in Memories /\ tunJob \in TunJobs /\ tunFaults \in 0 .. MaxTunFaults /\ MaxTunFaults \in Nat
      /\ tunJob.kind \in {"tun", "proxy", "off"}
      /\ {"preflight", "compile", "rollback"} \subseteq TunSteps
  BY <1>1, TunAssumption, SomeSteps DEF TunInv, TunTyped, StepsFit, PrepareStages
<1>3. CASE TunBreaks /\ tun' = NotDeactivated(tun) /\ TunAt("rollback") /\ UNCHANGED <<net, adapter, proof>>
  BY <1>1, <1>3, PrepareFails DEF NotDeactivated
<1>4. CASE TunBreaks /\ tun' = Deactivated(tun) /\ net' = NoNet /\ TunAt("rollback") /\ UNCHANGED <<adapter, proof>>
  <2>1. /\ tun' \in Memories /\ tun'.manager = "none" /\ tun'.enabled = tun.enabled /\ tun'.plan = tun.plan
                             /\ tun'.stage = tun.stage /\ tun'.session = tun.session /\ tun'.index = tun.index
                             /\ tun'.direct = tun.direct /\ tun'.fault = tun.fault
    BY <1>2, <1>4, DeactivatedFields
  <2>2. tunJob' \in TunJobs /\ tunJob'.kind = tunJob.kind /\ tunJob'.step = "rollback" /\ net' \in Nets /\ net'.session = 0
    BY <1>2, <1>4, TunAtType, Zeros DEF NoNet
  <2>3. tunFaults' = tunFaults + 1 /\ tunFaults' \in 0 .. MaxTunFaults /\ tunFaults' # 0
    BY <1>2, <1>4 DEF TunBreaks
  <2>4. TunTyped' /\ WatchIsFair'
    BY <1>1, <1>4, <2>1, <2>2, <2>3, WatchRests DEF TunInv, TunTyped
  <2>5. StepsFit' /\ Owned' /\ Prepared' /\ Reloaded'
    BY <1>1, <1>2, <1>4, <2>1, <2>2 DEF TunInv, StepsFit, Owned, Prepared, Reloaded, SaysRunning,
       Reloading, PrepareStages, Binding, GoingBack, TunAlive
  <2>6. WholeTun' /\ BoundOnce' /\ Trusted'
    BY <1>1, <1>2, <1>4, <2>1, <2>2, <2>3
    DEF TunInv, WholeTun, BoundOnce, Trusted, Proved, SaysRunning, Reloading, Binding, GoingBack, TunAlive
  <2> QED
    BY <2>4, <2>5, <2>6 DEF TunInv
<1>5. CASE /\ tun' = Cleared(Deactivated(tun)) /\ net' = NoNet /\ adapter' = NoAdapter /\ proof' = FALSE
           /\ TunAt(IF tunJob.kind = "tun" THEN "preflight" ELSE "compile") /\ UNCHANGED tunFaults
  <2>1. /\ tun' \in Memories /\ tun'.manager = "none" /\ tun'.enabled = tun.enabled /\ tun'.plan = tun.plan
                             /\ tun'.stage = "none" /\ tun'.session = 0 /\ tun'.index = 0 /\ tun'.direct = tun.direct
                             /\ tun'.fault = tun.fault
    BY <1>2, <1>5, ClearedFields
  <2>2. /\ tunJob' \in TunJobs /\ tunJob'.kind = tunJob.kind /\ net' \in Nets /\ net'.session = 0
        /\ tunJob'.step = IF tunJob.kind = "tun" THEN "preflight" ELSE "compile"
    BY <1>2, <1>5, TunAtType, Zeros DEF NoNet
  <2>3. adapter' \in Adapters /\ adapter'.state = "missing"
    BY <1>5, Zeros DEF NoAdapter
  <2>4. TunTyped' /\ WatchIsFair'
    BY <1>1, <1>5, <2>1, <2>2, <2>3, WatchRests DEF TunInv, TunTyped
  <2>5. StepsFit' /\ Owned' /\ Prepared' /\ Reloaded'
    BY <1>1, <1>2, <1>5, <2>1, <2>2, <2>3 DEF TunInv, StepsFit, Owned, Prepared, Reloaded,
       SaysRunning, Reloading, PrepareStages, Binding, GoingBack, TunAlive
  <2>6. WholeTun' /\ BoundOnce' /\ Trusted'
    BY <1>1, <1>2, <1>5, <2>1, <2>2
    DEF TunInv, WholeTun, BoundOnce, Trusted, Proved, SaysRunning, Reloading, Binding, GoingBack, TunAlive
  <2> QED
    BY <2>4, <2>5, <2>6 DEF TunInv
<1> QED
  BY <1>3, <1>4, <1>5 DEF CleanOld

LEMMA CompileWithoutKeeps == ASSUME TunInv, CompileWithout PROVE TunInv'
<1>1. /\ tunJob.step = "compile" /\ tunJob.step \in PrepareStages /\ tunJob.kind \in {"proxy", "off"} /\ tunCore = "stopped"
      /\ UNCHANGED <<tunCore, adapter, net, watch, blame, proof, sessions>> /\ tun.session = 0 /\ tun.index = 0
  BY DEF TunInv, Prepared, StepsFit, CompileWithout, PrepareStages
<1>2. CASE TunBreaks /\ TunAt("rollback") /\ UNCHANGED tun
  BY <1>1, <1>2, PrepareFails
<1>3. CASE /\ tun' = [tun EXCEPT !.enabled = FALSE, !.plan = 0, !.fault = IF tunJob.kind = "off" THEN NoFaultId ELSE @]
           /\ IF tunJob.kind = "off" THEN TunAnswers("ok") ELSE TunAt("start")
           /\ UNCHANGED tunFaults
  <2>1. tun \in Memories /\ tun.fault \in [by : {"nobody", "watch", "prepare"}, seen : 0 .. Threshold] /\ tunJob \in TunJobs
    BY DEF TunInv, TunTyped, Memories
  <2>2. NoFaultId \in [by : {"nobody", "watch", "prepare"}, seen : 0 .. Threshold] /\ NoFaultId.by # "watch"
    BY DEF NoFaultId, Threshold
  <2>3. tun'.fault = tun.fault \/ tun'.fault.by # "watch"
    BY <1>3, <2>1, <2>2 DEF Memories
  <2>4. /\ tun' \in Memories /\ tun'.manager = tun.manager /\ tun'.enabled = FALSE /\ tun'.plan = 0
                             /\ tun'.stage = tun.stage /\ tun'.session = tun.session /\ tun'.index = tun.index
                             /\ tun'.direct = tun.direct
    BY <1>3, <2>1, <2>2, Zeros DEF Memories
  <2>5. /\ tunJob' \in TunJobs
        /\ IF tunJob.kind = "off" THEN tunJob'.kind = "none" /\ tunJob'.step = "idle"
           ELSE tunJob'.kind = tunJob.kind /\ tunJob'.step = "start"
    <3>1. "start" \in TunSteps
      BY SomeSteps DEF PrepareStages
    <3> QED
      BY <1>3, <2>1, <3>1, TunAtType, TunAnswersType
  <2>6. TunTyped' /\ WatchIsFair'
    BY <1>1, <1>3, <2>3, <2>4, <2>5, WatchRests DEF TunInv, TunTyped
  <2>7. StepsFit' /\ Owned' /\ Prepared' /\ Reloaded'
    BY <1>1, <1>3, <2>4, <2>5 DEF TunInv, StepsFit, Owned, Prepared, Reloaded, SaysRunning,
       Reloading, PrepareStages, Binding, GoingBack, TunAlive
  <2>8. WholeTun' /\ BoundOnce' /\ Trusted'
    BY <1>1, <1>3, <2>4, <2>5
    DEF TunInv, WholeTun, BoundOnce, Trusted, Proved, SaysRunning, Reloading, Binding, GoingBack, TunAlive
  <2> QED
    BY <2>6, <2>7, <2>8 DEF TunInv
<1> QED
  BY <1>2, <1>3 DEF CompileWithout

LEMMA PlanKeeps == ASSUME TunInv, Plan PROVE TunInv'
<1>1. /\ tunJob.step = "preflight" /\ tunJob.kind = "tun" /\ tunCore = "stopped" /\ tun.session = 0 /\ tun.index = 0
      /\ UNCHANGED <<tunCore, adapter, net, watch, blame, proof, tunFaults>>
  BY DEF TunInv, Prepared, StepsFit, Plan
<1>2. PICK direct \in BOOLEAN :
         \/ /\ sessions < MaxSessions /\ sessions' = sessions + 1
            /\ tun' = [tun EXCEPT !.manager = "planned", !.stage = "preparing", !.direct = direct]
            /\ tunJob' = [tunJob EXCEPT !.step = "config", !.session = sessions + 1]
         \/ /\ tun' = [tun EXCEPT !.manager = "recovery", !.stage = "preparing", !.direct = direct]
            /\ TunAt("rollback") /\ UNCHANGED sessions
  <2>1. \A mode \in BOOLEAN, selection \in Selections : isDirectRuntime(mode, selection) \in BOOLEAN
    BY DEF isDirectRuntime
  <2> QED
    BY <2>1 DEF Plan
<1>3. /\ tun \in Memories /\ tunJob \in TunJobs /\ sessions \in Sessions /\ "config" \in TunSteps /\ "rollback" \in TunSteps
  BY SomeSteps DEF TunInv, TunTyped, PrepareStages
<1>4. /\ tun' \in Memories /\ tun'.manager # "none" /\ tun'.enabled = tun.enabled /\ tun'.plan = tun.plan
      /\ tun'.stage = "preparing" /\ tun'.session = tun.session /\ tun'.index = tun.index /\ tun'.fault = tun.fault
  BY <1>2, <1>3 DEF Memories
<1>5. sessions' \in Sessions /\ sessions + 1 # 0 /\ (sessions < MaxSessions => sessions + 1 \in Sessions)
  BY <1>2, <1>3, TunAssumption DEF Sessions
<1>6. /\ tunJob' \in TunJobs /\ tunJob'.kind = tunJob.kind
      /\ tunJob'.step = "rollback" \/ (tunJob'.step = "config" /\ tunJob'.session # 0)
  <2>1. CASE TunAt("rollback")
    BY <1>3, <2>1, TunAtType
  <2>2. CASE sessions < MaxSessions /\ tunJob' = [tunJob EXCEPT !.step = "config", !.session = sessions + 1]
    BY <1>3, <1>5, <2>2 DEF TunJobs
  <2> QED
    BY <1>2, <2>1, <2>2
<1>7. TunTyped' /\ WatchIsFair'
  BY <1>1, <1>4, <1>5, <1>6, WatchRests DEF TunInv, TunTyped
<1>8. StepsFit'
  BY <1>1, <1>4, <1>6 DEF TunInv, StepsFit, PrepareStages, Binding, GoingBack
<1>9. Owned'
  BY <1>1, <1>4, <1>6 DEF TunInv, StepsFit, Owned, Prepared, Reloaded, TunAlive, Reloading,
     PrepareStages, Binding
<1>10. Prepared'
  BY <1>1, <1>4, <1>6 DEF TunInv, StepsFit, Owned, Prepared, Reloaded, SaysRunning, Reloading,
     PrepareStages, Binding
<1>11. Reloaded'
  BY <1>1, <1>4, <1>6 DEF TunInv, StepsFit, Prepared, Reloaded, SaysRunning, Reloading,
     PrepareStages, Binding
<1>12. WholeTun'
  BY <1>1, <1>4, <1>6 DEF TunInv, StepsFit, Owned, Prepared, Reloaded, WholeTun, SaysRunning,
     Reloading, PrepareStages, Binding, GoingBack
<1>13. BoundOnce'
  BY <1>1, <1>4, <1>6 DEF TunInv, StepsFit, Owned, Prepared, Reloaded, WholeTun, BoundOnce,
     TunAlive, SaysRunning, Reloading, PrepareStages, Binding, GoingBack
<1>14. Trusted'
  BY <1>1, <1>4, <1>6 DEF TunInv, StepsFit, Reloaded, Prepared, WholeTun, BoundOnce, Trusted,
     Proved, SaysRunning, Reloading, PrepareStages, Binding, GoingBack
<1> QED
  BY <1>7, <1>8, <1>9, <1>10, <1>11, <1>12, <1>13, <1>14 DEF TunInv


LEMMA PreparationFailsKeeps == ASSUME TunInv, PreparationFails PROVE TunInv'
<1>1. /\ tunJob.step = "preflight" /\ tunJob.kind = "tun" /\ tun.session = 0 /\ tun.index = 0
      /\ TunAt("rollback") /\ UNCHANGED <<tunCore, adapter, net, watch, blame, proof, sessions>>
      /\ tun' = [tun EXCEPT !.manager = "recovery", !.stage = "preparing"]
      /\ tunFaults < MaxTunFaults /\ tunFaults' = tunFaults + 1
  BY DEF TunInv, Prepared, StepsFit, PreparationFails, TunBreaks
<1>2. /\ tun \in Memories /\ tunJob \in TunJobs /\ "rollback" \in TunSteps /\ tunFaults \in 0 .. MaxTunFaults
  BY SomeSteps DEF TunInv, TunTyped, PrepareStages
<1>3. /\ tun' \in Memories /\ tun'.manager = "recovery" /\ tun'.enabled = tun.enabled /\ tun'.plan = tun.plan
                           /\ tun'.stage = "preparing" /\ tun'.session = tun.session /\ tun'.index = tun.index
                           /\ tun'.direct = tun.direct /\ tun'.fault = tun.fault
  BY <1>1, <1>2 DEF Memories
<1>4. tunJob' \in TunJobs /\ tunJob'.kind = tunJob.kind /\ tunJob'.step = "rollback"
  BY <1>1, <1>2, TunAtType
<1>5. tunFaults' = tunFaults + 1 /\ tunFaults' \in 0 .. MaxTunFaults /\ tunFaults' # 0
  BY <1>1, <1>2, TunAssumption
<1>6. TunTyped' /\ WatchIsFair'
  BY <1>1, <1>3, <1>4, <1>5, WatchRests DEF TunInv, TunTyped
<1>7. StepsFit'
  BY <1>1, <1>2, <1>3, <1>4, <1>5 DEF TunInv, StepsFit, PrepareStages, Binding, GoingBack
<1>8. Owned'
  BY <1>1, <1>2, <1>3, <1>4, <1>5 DEF TunInv, StepsFit, Owned, Prepared, Reloaded, TunAlive,
     Reloading, PrepareStages, Binding
<1>9. Prepared'
  BY <1>1, <1>2, <1>3, <1>4, <1>5 DEF TunInv, StepsFit, Owned, Prepared, Reloaded, SaysRunning,
     Reloading, PrepareStages, Binding
<1>10. Reloaded'
  BY <1>1, <1>2, <1>3, <1>4, <1>5 DEF TunInv, StepsFit, Prepared, Reloaded, SaysRunning,
     Reloading, PrepareStages, Binding
<1>11. WholeTun'
  BY <1>1, <1>2, <1>3, <1>4, <1>5 DEF TunInv, StepsFit, Owned, Prepared, Reloaded, WholeTun,
     SaysRunning, Reloading, PrepareStages, Binding, GoingBack
<1>12. BoundOnce'
  BY <1>1, <1>2, <1>3, <1>4, <1>5 DEF TunInv, StepsFit, Owned, Prepared, Reloaded, WholeTun,
     BoundOnce, TunAlive, SaysRunning, Reloading, PrepareStages, Binding, GoingBack
<1>13. Trusted'
  BY <1>1, <1>2, <1>3, <1>4, <1>5 DEF TunInv, StepsFit, Reloaded, Prepared, WholeTun, BoundOnce,
     Trusted, Proved, SaysRunning, Reloading, PrepareStages, Binding, GoingBack
<1> QED
  BY <1>6, <1>7, <1>8, <1>9, <1>10, <1>11, <1>12, <1>13 DEF TunInv

LEMMA CompilePinnedKeeps == ASSUME TunInv, CompilePinned PROVE TunInv'
<1>1. /\ tunJob.step = "config" /\ tunJob.step \in PrepareStages /\ tunJob.kind = "tun" /\ tunCore = "stopped"
      /\ UNCHANGED <<tunCore, adapter, net, watch, blame, proof, sessions>> /\ tun.session = 0 /\ tun.index = 0
      /\ tunJob.session # 0 /\ tun.stage # "none" /\ tun.manager # "none"
  BY DEF TunInv, Owned, Prepared, StepsFit, CompilePinned, PrepareStages
<1>2. CASE TunBreaks /\ TunAt("rollback") /\ UNCHANGED tun
  BY <1>1, <1>2, PrepareFails
<1>3. CASE tun' = [tun EXCEPT !.enabled = TRUE, !.plan = tunJob.session] /\ TunAt("start") /\ UNCHANGED tunFaults
  <2>1. tun \in Memories /\ tunJob \in TunJobs /\ tunJob.session \in Sessions /\ "start" \in TunSteps
    BY SomeSteps DEF TunInv, TunTyped, TunJobs, PrepareStages
  <2>2. /\ tun' \in Memories /\ tun'.manager = tun.manager /\ tun'.enabled = TRUE /\ tun'.plan = tunJob.session
                             /\ tun'.stage = tun.stage /\ tun'.session = tun.session /\ tun'.index = tun.index
                             /\ tun'.direct = tun.direct /\ tun'.fault = tun.fault
    BY <1>3, <2>1 DEF Memories
  <2>3. tunJob' \in TunJobs /\ tunJob'.kind = "tun" /\ tunJob'.step = "start" /\ tunJob'.session = tunJob.session
    BY <1>1, <1>3, <2>1, TunAtType
  <2>4. TunTyped' /\ WatchIsFair'
    BY <1>1, <1>3, <2>2, <2>3, WatchRests DEF TunInv, TunTyped
  <2>5. StepsFit' /\ Owned' /\ Prepared' /\ Reloaded'
    BY <1>1, <2>2, <2>3 DEF TunInv, StepsFit, Owned, Prepared, Reloaded, SaysRunning, Reloading,
       PrepareStages, Binding, GoingBack, TunAlive
  <2>6. WholeTun' /\ BoundOnce' /\ Trusted'
    BY <1>1, <1>3, <2>2, <2>3
    DEF TunInv, WholeTun, BoundOnce, Trusted, Proved, SaysRunning, Reloading, Binding, GoingBack, TunAlive
  <2> QED
    BY <2>4, <2>5, <2>6 DEF TunInv
<1> QED
  BY <1>2, <1>3 DEF CompilePinned

LEMMA StartForCaptureKeeps == ASSUME TunInv, StartForCapture PROVE TunInv'
<1>1. /\ tunJob.step = "start" /\ tunJob.step \in PrepareStages /\ tunJob.kind \in {"tun", "proxy"}
      /\ UNCHANGED <<tun, net, watch, blame, proof, sessions>> /\ tun.session = 0 /\ tun.index = 0
  BY DEF TunInv, Prepared, StepsFit, StartForCapture, PrepareStages
<1>2. CASE TunBreaks /\ TunAt("rollback") /\ tunCore' = "failed" /\ UNCHANGED adapter
  BY <1>1, <1>2, PrepareFails
<1>3. CASE /\ tunCore' = "running" /\ TunAt(IF tunJob.kind = "tun" THEN "activate" ELSE "verify") /\ UNCHANGED tunFaults
           /\ IF tunJob.kind = "tun" THEN NewAdapter ELSE UNCHANGED adapter
  <2>1. tunJob \in TunJobs /\ adapter \in Adapters /\ (adapter.state # "missing" => adapter.index # 0) /\ {"activate", "verify"} \subseteq TunSteps
    BY SomeSteps DEF TunInv, TunTyped, Prepared, PrepareStages
  <2>2. adapter' \in Adapters /\ (adapter'.state # "missing" => adapter'.index # 0)
    BY <1>3, <2>1, TunAssumption DEF NewAdapter, Adapters, Numbers
  <2>3. /\ tunJob' \in TunJobs /\ tunJob'.kind = tunJob.kind /\ tunJob'.session = tunJob.session
        /\ tunJob'.step = IF tunJob.kind = "tun" THEN "activate" ELSE "verify"
    BY <1>3, <2>1, TunAtType
  <2>4. TunTyped' /\ WatchIsFair'
    BY <1>1, <1>3, <2>2, <2>3, WatchRests DEF TunInv, TunTyped
  <2>5. StepsFit' /\ Owned' /\ Prepared' /\ Reloaded'
    BY <1>1, <1>3, <2>2, <2>3 DEF TunInv, StepsFit, Owned, Prepared, Reloaded, SaysRunning,
       Reloading, PrepareStages, Binding, GoingBack, TunAlive
  <2>6. WholeTun' /\ BoundOnce' /\ Trusted'
    BY <1>1, <1>3, <2>3
    DEF TunInv, WholeTun, BoundOnce, Trusted, Proved, Prepared, Owned, SaysRunning, Reloading, Binding, GoingBack, TunAlive
  <2> QED
    BY <2>4, <2>5, <2>6 DEF TunInv
<1> QED
  BY <1>2, <1>3 DEF StartForCapture

LEMMA ActivateKeeps == ASSUME TunInv, Activate PROVE TunInv'
<1>1. /\ tunJob.step = "activate" /\ tunJob.kind = "tun" /\ BindNet("verify", "rollback")
      /\ UNCHANGED <<tun, tunCore, adapter, watch, blame, proof, sessions>> /\ tun.session = 0 /\ tun.index = 0
  BY DEF TunInv, Prepared, StepsFit, Activate
<1>2. TunTyped /\ {"verify", "rollback"} \subseteq TunSteps /\ tunFaults \in 0 .. MaxTunFaults
  BY SomeSteps DEF TunInv, TunTyped, PrepareStages
<1>3. /\ tunJob' \in TunJobs /\ net' \in Nets /\ tunFaults' \in 0 .. MaxTunFaults
      /\ tunJob'.kind = "tun" /\ tunJob'.session = tunJob.session
      /\ \/ /\ adapter.state = "enabled" /\ net' = [session |-> tunJob.session, index |-> adapter.index]
            /\ tunJob'.step = "verify" /\ tunJob'.index = adapter.index /\ tunFaults' = tunFaults
         \/ /\ tunJob'.step = "rollback" /\ tunFaults' \in {tunFaults, tunFaults + 1}
  BY <1>1, <1>2, BindNetType
<1>4. TunTyped' /\ WatchIsFair'
  BY <1>1, <1>2, <1>3, WatchRests DEF TunTyped
<1>5. StepsFit' /\ Owned' /\ Prepared' /\ Reloaded'
  BY <1>1, <1>3 DEF TunInv, StepsFit, Owned, Prepared, Reloaded, SaysRunning, Reloading,
     PrepareStages, Binding, GoingBack, TunAlive
<1>6. tunFaults <= tunFaults' /\ (tunFaults' = 0 => tunFaults = 0) /\ (tunFaults' <= 1 => tunFaults <= 1)
  BY <1>2, <1>3
<1>7. WholeTun'
  <2>1. tunJob'.step = "verify" => adapter = [state |-> "enabled", index |-> tunJob'.index]
    BY <1>2, <1>3 DEF TunTyped, Adapters
  <2> QED
    BY <1>1, <1>3, <1>6, <2>1 DEF TunInv, WholeTun, Prepared, Reloading, Binding, GoingBack
<1>8. BoundOnce' /\ Trusted'
  BY <1>1, <1>3, <1>6
  DEF TunInv, BoundOnce, Trusted, Proved, Prepared, Owned, SaysRunning, Reloading, Binding, GoingBack, TunAlive
<1> QED
  BY <1>4, <1>5, <1>7, <1>8 DEF TunInv


LEMMA VerifyAndCommitKeeps == ASSUME TunInv, VerifyAndCommit PROVE TunInv'
<1>1. /\ tunJob.step = "verify" /\ tunJob.kind = "tun" /\ tun.session = 0 /\ tun.index = 0
      /\ UNCHANGED <<tunCore, adapter, net, watch, blame, sessions, tunFaults>>
      /\ tunJob.session # 0 /\ tun.enabled /\ tun.plan = tunJob.session
      /\ net = [session |-> tunJob.session, index |-> tunJob.index] /\ tun.manager # "none"
  BY DEF TunInv, Prepared, Owned, VerifyAndCommit
<1>2. tun \in Memories /\ tunJob \in TunJobs /\ tunJob.session \in Sessions /\ tunJob.index \in Numbers
  BY DEF TunInv, TunTyped, TunJobs
<1>3. CASE /\ tun' = [tun EXCEPT !.stage = "committed", !.session = tunJob.session, !.index = tunJob.index, !.fault = NoFaultId]
           /\ proof' \in BOOLEAN /\ (tun.direct \/ proof') /\ TunAnswers("ok") /\ tunCore = "running"
  <2>1. NoFaultId \in [by : {"nobody", "watch", "prepare"}, seen : 0 .. Threshold] /\ NoFaultId.by # "watch"
    BY DEF NoFaultId, Threshold
  <2>2. /\ tun' \in Memories /\ tun'.manager = tun.manager /\ tun'.enabled = tun.enabled /\ tun'.plan = tun.plan
                             /\ tun'.stage = "committed" /\ tun'.session = tunJob.session /\ tun'.index = tunJob.index
                             /\ tun'.direct = tun.direct /\ tun'.fault = NoFaultId
    BY <1>2, <1>3, <2>1 DEF Memories
  <2>3. tunJob' \in TunJobs /\ tunJob'.kind = "none" /\ tunJob'.step = "idle"
    BY <1>3, TunAnswersType
  <2>4. TunTyped' /\ WatchIsFair'
    BY <1>1, <1>3, <2>1, <2>2, <2>3, WatchRests DEF TunInv, TunTyped
  <2>5. StepsFit' /\ Owned' /\ Prepared' /\ Reloaded'
    BY <1>1, <2>2, <2>3 DEF TunInv, StepsFit, Owned, Prepared, Reloaded, SaysRunning, Reloading,
       PrepareStages, Binding, GoingBack, TunAlive
  <2>6. WholeTun'
    BY <1>1, <1>3, <2>2, <2>3 DEF TunInv, WholeTun, Reloading, Binding, GoingBack
  <2>7. BoundOnce' /\ Trusted'
    BY <1>1, <1>3, <2>2, <2>3
    DEF TunInv, BoundOnce, Trusted, Proved, SaysRunning, Reloading, Binding, GoingBack, TunAlive
  <2> QED
    BY <2>4, <2>5, <2>6, <2>7 DEF TunInv
<1>4. CASE TunAt("rollback") /\ UNCHANGED <<tun, proof>>
  <2>1. tunJob' \in TunJobs /\ tunJob'.kind = "tun" /\ tunJob'.step = "rollback"
    BY <1>1, <1>2, <1>4, TunAtType, SomeSteps DEF PrepareStages
  <2>2. TunTyped' /\ WatchIsFair'
    BY <1>1, <1>4, <2>1, WatchRests DEF TunInv, TunTyped
  <2>3. StepsFit' /\ Owned' /\ Prepared' /\ Reloaded'
    BY <1>1, <1>4, <2>1 DEF TunInv, StepsFit, Owned, Prepared, Reloaded, SaysRunning, Reloading,
       PrepareStages, Binding, GoingBack, TunAlive
  <2>4. WholeTun' /\ BoundOnce' /\ Trusted'
    BY <1>1, <1>4, <2>1
    DEF TunInv, WholeTun, BoundOnce, Trusted, Proved, SaysRunning, Reloading, Binding, GoingBack, TunAlive
  <2> QED
    BY <2>2, <2>3, <2>4 DEF TunInv
<1>5. PICK world \in Worlds, udpRequired \in BOOLEAN :
         IF DataPlaneVerified(world, tun.direct, udpRequired)
         THEN /\ tun' = [tun EXCEPT !.stage = "committed", !.session = tunJob.session,
                                    !.index = tunJob.index, !.fault = NoFaultId]
              /\ proof' = Proves(world) /\ TunAnswers("ok")
         ELSE TunAt("rollback") /\ UNCHANGED <<tun, proof>>
  BY DEF VerifyAndCommit
<1>6. CASE DataPlaneVerified(world, tun.direct, udpRequired)
  BY <1>3, <1>5, <1>6, VerifiedProves DEF DataPlaneVerified
<1> QED
  BY <1>4, <1>5, <1>6

LEMMA CommitProxyKeeps == ASSUME TunInv, CommitProxy PROVE TunInv'
<1>1. /\ tunJob.step = "verify" /\ tunJob.kind = "proxy" /\ tun.session = 0 /\ tun.index = 0 /\ ~tun.enabled
      /\ UNCHANGED <<tunCore, adapter, net, watch, blame, proof, sessions, tunFaults>>
      /\ tun' = [tun EXCEPT !.fault = NoFaultId] /\ TunAnswers("ok")
  BY DEF TunInv, Prepared, CommitProxy
<1>2. NoFaultId \in [by : {"nobody", "watch", "prepare"}, seen : 0 .. Threshold] /\ NoFaultId.by # "watch"
  BY DEF NoFaultId, Threshold
<1>3. /\ tun' \in Memories /\ tun'.manager = tun.manager /\ tun'.enabled = tun.enabled /\ tun'.plan = tun.plan
                           /\ tun'.stage = tun.stage /\ tun'.session = tun.session /\ tun'.index = tun.index
                           /\ tun'.direct = tun.direct /\ tun'.fault = NoFaultId
  BY <1>1, <1>2 DEF TunInv, TunTyped, Memories
<1>4. tunJob' \in TunJobs /\ tunJob'.kind = "none" /\ tunJob'.step = "idle"
  BY <1>1, TunAnswersType
<1>5. TunTyped' /\ WatchIsFair'
  BY <1>1, <1>2, <1>3, <1>4, WatchRests DEF TunInv, TunTyped
<1>6. StepsFit'
  BY <1>1, <1>3, <1>4 DEF TunInv, StepsFit, PrepareStages, Binding, GoingBack
<1>7. Owned'
  BY <1>1, <1>3, <1>4 DEF TunInv, StepsFit, Owned, Prepared, Reloaded, TunAlive, Reloading,
     PrepareStages, Binding
<1>8. Prepared'
  BY <1>1, <1>3, <1>4 DEF TunInv, StepsFit, Owned, Prepared, Reloaded, SaysRunning, Reloading,
     PrepareStages, Binding
<1>9. Reloaded'
  BY <1>1, <1>3, <1>4 DEF TunInv, StepsFit, Prepared, Reloaded, SaysRunning, Reloading,
     PrepareStages, Binding
<1>10. WholeTun'
  BY <1>1, <1>3, <1>4 DEF TunInv, StepsFit, Owned, Prepared, Reloaded, WholeTun, SaysRunning,
     Reloading, PrepareStages, Binding, GoingBack
<1>11. BoundOnce'
  BY <1>1, <1>3, <1>4 DEF TunInv, StepsFit, Owned, Prepared, Reloaded, WholeTun, BoundOnce,
     TunAlive, SaysRunning, Reloading, PrepareStages, Binding, GoingBack
<1>12. Trusted'
  BY <1>1, <1>3, <1>4 DEF TunInv, StepsFit, Reloaded, Prepared, WholeTun, BoundOnce, Trusted,
     Proved, SaysRunning, Reloading, PrepareStages, Binding, GoingBack
<1> QED
  BY <1>5, <1>6, <1>7, <1>8, <1>9, <1>10, <1>11, <1>12 DEF TunInv

LEMMA CommitFailsKeeps == ASSUME TunInv, CommitFails PROVE TunInv'
<1>1. tunJob.step \in PrepareStages
  BY DEF CommitFails, PrepareStages
<1> QED
  BY <1>1, PrepareFails DEF CommitFails

LEMMA RollbackKeeps == ASSUME TunInv, Rollback PROVE TunInv'
<1>1. /\ tunJob.step = "rollback" /\ tunJob.kind \in {"tun", "proxy", "off"} /\ UNCHANGED <<watch, blame, sessions>>
  BY DEF TunInv, StepsFit, Rollback, PrepareStages
<1>2. /\ tun \in Memories /\ net \in Nets /\ adapter \in Adapters /\ tunFaults \in 0 .. MaxTunFaults /\ MaxTunFaults \in Nat
      /\ adapter.state # "missing" => adapter.index # 0
      /\ net.session # 0 => tun.manager # "none"
  BY <1>1, TunAssumption DEF TunInv, TunTyped, Prepared, Owned, TunAlive
<1>3. PreparedFault = tun.fault \/ PreparedFault.by # "watch"
  BY DEF PreparedFault, NoFaultId
<1>4. CASE /\ tunCore' = "stopped" /\ adapter' = NoAdapter
           /\ net' = (IF tun.manager = "none" THEN net ELSE NoNet)
           /\ tun' = [Cleared(Deactivated(tun)) EXCEPT !.enabled = FALSE, !.plan = 0, !.fault = PreparedFault]
           /\ proof' = FALSE /\ TunAnswers("failed") /\ UNCHANGED tunFaults
  <2>1. /\ tun' \in Memories
        /\ tun'.manager = "none" /\ tun'.enabled = FALSE /\ tun'.plan = 0 /\ tun'.stage = "none" /\ tun'.session = 0
        /\ tun'.index = 0 /\ tun'.direct = tun.direct /\ tun'.fault = PreparedFault
    BY <1>2, <1>4, MemoryChanges DEF Memories, Cleared, Deactivated
  <2>2. /\ tunJob' \in TunJobs /\ tunJob'.kind = "none" /\ tunJob'.step = "idle"
        /\ net' \in Nets /\ net'.session = 0 /\ adapter' \in Adapters /\ adapter'.state = "missing"
    BY <1>2, <1>4, TunAnswersType, Zeros DEF NoNet, NoAdapter
  <2>3. TunTyped' /\ WatchIsFair'
    BY <1>1, <1>3, <1>4, <2>1, <2>2, WatchRests DEF TunInv, TunTyped
  <2>4. StepsFit' /\ Owned' /\ Prepared' /\ Reloaded'
    BY <1>1, <1>4, <2>1, <2>2 DEF StepsFit, Owned, Prepared, Reloaded, SaysRunning, Reloading,
       PrepareStages, Binding, GoingBack, TunAlive
  <2>5. WholeTun' /\ BoundOnce' /\ Trusted'
    BY <1>1, <1>4, <2>1, <2>2
    DEF TunInv, WholeTun, BoundOnce, Trusted, Proved, SaysRunning, Reloading, Binding, GoingBack, TunAlive
  <2> QED
    BY <2>3, <2>4, <2>5 DEF TunInv
<1>5. ASSUME tun'.manager \in {tun.manager, "none"}, net' \in Nets, net'.session # 0 => tun'.manager # "none" /\ net' = net,
             tun' = [tun EXCEPT !.fault = PreparedFault] \/ tun' = [Deactivated(tun) EXCEPT !.fault = PreparedFault],
             TunAnswers("dirty"), proof' = proof, tunFaults' \in {tunFaults, tunFaults + 1}, tunFaults' \in 0 .. MaxTunFaults,
             adapter' \in Adapters, adapter'.state # "missing" => adapter'.index # 0,
             tunCore' \in {"stopped", tunCore}, tunFaults' # 0, tunFaults' = tunFaults => tunCore' = "dirty"
      PROVE  TunInv'
  <2>1. /\ tun' \in Memories /\ tun'.enabled = tun.enabled /\ tun'.plan = tun.plan /\ tun'.stage = tun.stage
        /\ tun'.session = tun.session /\ tun'.index = tun.index /\ tun'.direct = tun.direct /\ tun'.fault = PreparedFault
    <3>1. CASE tun' = [tun EXCEPT !.fault = PreparedFault]
      BY <1>2, <3>1, MemoryChanges DEF Memories
    <3>2. CASE tun' = [Deactivated(tun) EXCEPT !.fault = PreparedFault]
      BY <1>2, <3>2, MemoryChanges DEF Memories, Deactivated
    <3> QED
      BY <1>5, <3>1, <3>2
  <2>2. tunJob' \in TunJobs /\ tunJob'.kind = "none" /\ tunJob'.step = "idle"
    BY <1>5, TunAnswersType
  <2>3. TunTyped' /\ WatchIsFair'
    BY <1>1, <1>3, <1>5, <2>1, <2>2, WatchRests DEF TunInv, TunTyped
  <2>4. StepsFit' /\ Owned' /\ Prepared' /\ Reloaded'
    BY <1>1, <1>5, <2>1, <2>2 DEF TunInv, StepsFit, Owned, Prepared, Reloaded, SaysRunning,
       Reloading, PrepareStages, Binding, GoingBack, TunAlive
  <2>5. WholeTun'
    BY <1>5 DEF WholeTun
  <2>6. tunFaults' <= 1 => (SaysRunning' => tunFaults = 0 /\ tun.session = 0 /\ tun.index = 0)
    BY <1>1, <1>2, <1>5 DEF TunInv, WholeTun, SaysRunning
  <2>7. BoundOnce'
    BY <1>1, <1>5, <2>1, <2>2, <2>6 DEF BoundOnce, Reloading
  <2>8. Trusted'
    BY <1>1, <1>2, <1>5, <2>1, <2>2 DEF TunInv, Trusted, Proved
  <2> QED
    BY <2>3, <2>4, <2>5, <2>7, <2>8 DEF TunInv
<1>6. CASE /\ TunBreaks /\ tun' = [NotDeactivated(tun) EXCEPT !.fault = PreparedFault]
           /\ tunCore' = (IF tunCore = "dirty" THEN tunCore ELSE "stopped")
           /\ adapter' = NoAdapter /\ TunAnswers("dirty") /\ UNCHANGED <<net, proof>>
  <2>1. tun' = [tun EXCEPT !.fault = PreparedFault] /\ tun'.manager = tun.manager
    BY <1>2, <1>6 DEF NotDeactivated, Memories
  <2>2. tunFaults' = tunFaults + 1 /\ tunFaults' \in 0 .. MaxTunFaults /\ tunFaults' # 0 /\ tunFaults' # tunFaults
    BY <1>2, <1>6 DEF TunBreaks
  <2>3. adapter' \in Adapters /\ adapter'.state = "missing"
    BY <1>6, Zeros DEF NoAdapter
  <2> QED
    BY <1>2, <1>5, <1>6, <2>1, <2>2, <2>3
<1>7. CASE /\ tun' = [Deactivated(tun) EXCEPT !.fault = PreparedFault]
           /\ net' = (IF tun.manager = "none" THEN net ELSE NoNet)
           /\ TunAnswers("dirty") /\ UNCHANGED proof
           /\ \/ tunCore = "dirty" /\ UNCHANGED <<tunCore, tunFaults>> /\ adapter' = NoAdapter
              \/ TunBreaks /\ UNCHANGED <<tunCore, adapter>>
              \/ /\ TunBreaks /\ tunCore # "dirty" /\ tunCore' = "stopped"
                 /\ adapter.state # "missing" /\ adapter' = [adapter EXCEPT !.state = "disabled"]
  <2>1. tun'.manager = "none"
    BY <1>2, <1>7 DEF Deactivated, Memories
  <2>2. net' \in Nets /\ net'.session = 0
    BY <1>2, <1>7, Zeros DEF NoNet
  <2>3. tunCore = "dirty" => tunFaults # 0
    BY DEF TunInv, WholeTun
  <2>4. /\ tunFaults' \in {tunFaults, tunFaults + 1} /\ tunFaults' \in 0 .. MaxTunFaults
        /\ tunFaults' # 0 /\ (tunFaults' = tunFaults => tunCore' = "dirty") /\ tunCore' \in {"stopped", tunCore}
    BY <1>2, <1>7, <2>3 DEF TunBreaks
  <2>5. adapter' \in Adapters /\ (adapter'.state # "missing" => adapter'.index # 0)
    BY <1>2, <1>7, Zeros DEF NoAdapter, Adapters
  <2> QED
    BY <1>5, <1>7, <2>1, <2>2, <2>4, <2>5
<1> QED
  BY <1>4, <1>6, <1>7 DEF Rollback


-----------------------------------------------------------------------------
(* Reloads and runtime.verify *)

LEMMA BeginReloadKeeps == ASSUME TunInv, NEW direct \in BOOLEAN, BeginReload(direct) PROVE TunInv'
<1>1. /\ tunJob.step = "idle" /\ tun.enabled /\ SaysRunning
      /\ tunJob' = [Begun("reload") EXCEPT !.step = "swap", !.session = tun.plan, !.direct = direct, !.before = tun.direct]
      /\ UNCHANGED <<tun, tunCore, adapter, net, watch, blame, proof, sessions, tunFaults>>
  BY DEF BeginReload
<1>2. /\ tunJob' \in TunJobs /\ tunJob'.kind = "reload" /\ tunJob'.step = "swap" /\ tunJob'.session = tun.plan
      /\ tunJob'.index = 0 /\ tunJob'.before = tun.direct
  BY <1>1, TunReloads DEF TunInv, TunTyped
<1>3. TunTyped' /\ WatchIsFair'
  BY <1>1, <1>2, WatchRests DEF TunInv, TunTyped
<1>4. tunJob.kind = "none"
  BY <1>1 DEF TunInv, StepsFit
<1>5. StepsFit'
  BY <1>1, <1>2, <1>4 DEF TunInv, StepsFit, PrepareStages, Binding, GoingBack
<1>6. Owned'
  BY <1>1, <1>2, <1>4 DEF TunInv, StepsFit, Owned, Prepared, Reloaded, TunAlive, Reloading,
     PrepareStages, Binding
<1>7. Prepared'
  BY <1>1, <1>2, <1>4 DEF TunInv, StepsFit, Owned, Prepared, Reloaded, SaysRunning, Reloading,
     PrepareStages, Binding
<1>8. Reloaded'
  BY <1>1, <1>2, <1>4 DEF TunInv, StepsFit, Prepared, Reloaded, SaysRunning, Reloading,
     PrepareStages, Binding
<1>9. WholeTun'
  BY <1>1, <1>2, <1>4 DEF TunInv, StepsFit, Owned, Prepared, Reloaded, WholeTun, SaysRunning,
     Reloading, PrepareStages, Binding, GoingBack
<1>10. BoundOnce'
  BY <1>1, <1>2, <1>4 DEF TunInv, StepsFit, Owned, Prepared, Reloaded, WholeTun, BoundOnce,
     TunAlive, SaysRunning, Reloading, PrepareStages, Binding, GoingBack
<1>11. Trusted'
  BY <1>1, <1>2, <1>4 DEF TunInv, StepsFit, Reloaded, Prepared, WholeTun, BoundOnce, Trusted,
     Proved, SaysRunning, Reloading, PrepareStages, Binding, GoingBack
<1> QED
  BY <1>3, <1>5, <1>6, <1>7, <1>8, <1>9, <1>10, <1>11 DEF TunInv

LEMMA ReloadingSteps ==
    ASSUME TunInv, tunJob.step \in {"swap", "record", "probe", "undone"} \cup Binding
    PROVE  Reloading
<1>1. tunJob.kind \in TunKinds
  BY DEF TunInv, TunTyped, TunJobs
<1>2. tunJob.kind \notin {"none", "boot", "tun", "proxy", "off"}
  BY DEF TunInv, StepsFit, PrepareStages, Binding
<1> QED
  BY <1>1, <1>2 DEF TunKinds, Reloading

LEMMA SwapCoreKeeps == ASSUME TunInv, SwapCore PROVE TunInv'
<1>1. /\ tunJob.step = "swap" /\ Reloading /\ UNCHANGED <<tun, net, watch, blame, proof, sessions>>
      /\ tun.enabled /\ tun.stage # "none" /\ tunJob.session = tun.plan
  BY ReloadingSteps DEF TunInv, Reloaded, SwapCore
<1>2. /\ tun \in Memories /\ tunJob \in TunJobs /\ adapter \in Adapters /\ tunFaults \in 0 .. MaxTunFaults /\ tun.index \in Numbers
      /\ MaxTunFaults \in Nat /\ {"record", "unbind"} \subseteq TunSteps /\ (adapter.state # "missing" => adapter.index # 0)
  BY TunAssumption, SomeSteps DEF TunInv, TunTyped, Memories, Prepared, ReloadStages, Binding
<1>3. NewAdapter => adapter' \in Adapters /\ adapter'.state = "enabled" /\ adapter'.index # 0
  BY TunAssumption DEF NewAdapter, Adapters, Numbers
<1>4. CASE /\ SaysRunning /\ tunCore' = "running" /\ NewAdapter /\ UNCHANGED tunFaults
           /\ TunAt(IF tun.manager = "none" THEN "record" ELSE "unbind")
  <2>1. /\ tunJob' \in TunJobs /\ tunJob'.kind = tunJob.kind /\ tunJob'.session = tunJob.session /\ tunJob'.index = tunJob.index
        /\ tunJob'.direct = tunJob.direct /\ tunJob'.before = tunJob.before
        /\ tunJob'.step = IF tun.manager = "none" THEN "record" ELSE "unbind"
    BY <1>2, <1>4, TunAtType
  <2>2. TunTyped' /\ WatchIsFair'
    BY <1>1, <1>3, <1>4, <2>1, WatchRests DEF TunInv, TunTyped
  <2>3. StepsFit' /\ Owned' /\ Prepared' /\ Reloaded'
    BY <1>1, <1>3, <1>4, <2>1 DEF TunInv, StepsFit, Owned, Prepared, Reloaded, SaysRunning,
       Reloading, PrepareStages, Binding, GoingBack, TunAlive
  <2>4. WholeTun' /\ BoundOnce' /\ Trusted'
    BY <1>1, <1>3, <1>4, <2>1
    DEF TunInv, WholeTun, BoundOnce, Trusted, Proved, SaysRunning, Reloading, Binding, GoingBack, TunAlive
  <2> QED
    BY <2>2, <2>3, <2>4 DEF TunInv
<1>5. CASE /\ ~SaysRunning /\ UNCHANGED <<tunCore, adapter, tunFaults>>
           /\ tunJob' = [tunJob EXCEPT !.step = "record", !.index = tun.index]
  <2>1. /\ tunJob' \in TunJobs /\ tunJob'.kind = tunJob.kind /\ tunJob'.session = tunJob.session /\ tunJob'.index = tun.index
        /\ tunJob'.direct = tunJob.direct /\ tunJob'.before = tunJob.before /\ tunJob'.step = "record"
    BY <1>2, <1>5 DEF TunJobs
  <2>2. TunTyped' /\ WatchIsFair'
    BY <1>1, <1>5, <2>1, WatchRests DEF TunInv, TunTyped
  <2>3. StepsFit' /\ Owned' /\ Prepared' /\ Reloaded'
    BY <1>1, <1>5, <2>1 DEF TunInv, StepsFit, Owned, Prepared, Reloaded, SaysRunning, Reloading,
       PrepareStages, Binding, GoingBack, TunAlive
  <2>4. WholeTun' /\ BoundOnce' /\ Trusted'
    BY <1>1, <1>5, <2>1
    DEF TunInv, WholeTun, BoundOnce, Trusted, Proved, SaysRunning, Reloading, Binding, GoingBack, TunAlive
  <2> QED
    BY <2>2, <2>3, <2>4 DEF TunInv
<1>6. CASE /\ SaysRunning /\ TunBreaks /\ TunAnswers("failed")
           /\ \/ tunCore' = "running" /\ NewAdapter
              \/ tunCore' = "failed" /\ adapter' = NoAdapter
  <2>1. /\ adapter' \in Adapters /\ (adapter'.state # "missing" => adapter'.index # 0)
        /\ tunCore' \in {"running", "failed"}
    BY <1>3, <1>6, Zeros DEF NoAdapter
  <2>2. tunFaults' \in 0 .. MaxTunFaults /\ tunFaults' # 0 /\ (tunFaults' <= 1 => tunFaults = 0)
    BY <1>2, <1>6 DEF TunBreaks
  <2>3. tunJob' \in TunJobs /\ tunJob'.kind = "none" /\ tunJob'.step = "idle"
    BY <1>6, TunAnswersType
  <2>4. TunTyped' /\ WatchIsFair'
    BY <1>1, <2>1, <2>2, <2>3, WatchRests DEF TunInv, TunTyped
  <2>5. StepsFit' /\ Owned' /\ Prepared' /\ Reloaded'
    BY <1>1, <1>6, <2>1, <2>3 DEF TunInv, StepsFit, Owned, Prepared, Reloaded, SaysRunning,
       Reloading, PrepareStages, Binding, GoingBack, TunAlive
  <2>6. WholeTun' /\ BoundOnce'
    BY <1>1, <2>2, <2>3 DEF TunInv, WholeTun, BoundOnce, Reloading, Binding, GoingBack, TunAlive
  <2>7. Trusted'
    <3>1. tunFaults = 0 => tunJob.kind # "restore" /\ (tunJob.kind = "undo" => tun.stage = "bound")
      BY DEF TunInv, WholeTun
    <3> QED
      BY <1>1, <2>2, <2>3, <3>1 DEF TunInv, Trusted, Proved, Reloaded, Reloading
  <2> QED
    BY <2>4, <2>5, <2>6, <2>7 DEF TunInv
<1> QED
  BY <1>4, <1>5, <1>6 DEF SwapCore

LEMMA UnbindKeeps == ASSUME TunInv, Unbind PROVE TunInv'
<1>1. /\ tunJob.step \in {"unbind", "unbindBack"} /\ Reloading /\ tun.manager # "none" /\ tun.stage # "none"
      /\ UNCHANGED <<tun, tunCore, adapter, watch, blame, proof, sessions>>
  BY ReloadingSteps DEF TunInv, Owned, Reloaded, Unbind, Binding
<1>2. /\ tunJob \in TunJobs /\ tunFaults \in 0 .. MaxTunFaults /\ MaxTunFaults \in Nat
      /\ {"bind", "bindBack", "swapBack", "undone"} \subseteq TunSteps
  BY TunAssumption, SomeSteps DEF TunInv, TunTyped, ReloadStages, Binding
<1>3. CASE net' = NoNet /\ TunAt(IF tunJob.step = "unbind" THEN "bind" ELSE "bindBack") /\ UNCHANGED tunFaults
  <2>1. /\ tunJob' \in TunJobs /\ tunJob'.kind = tunJob.kind /\ tunJob'.session = tunJob.session /\ tunJob'.index = tunJob.index
        /\ tunJob'.direct = tunJob.direct /\ tunJob'.before = tunJob.before
        /\ tunJob'.step = (IF tunJob.step = "unbind" THEN "bind" ELSE "bindBack") /\ net' \in Nets /\ net'.session = 0
    BY <1>2, <1>3, TunAtType, Zeros DEF NoNet
  <2>2. TunTyped' /\ WatchIsFair'
    BY <1>1, <1>3, <2>1, WatchRests DEF TunInv, TunTyped
  <2>3. StepsFit' /\ Owned' /\ Prepared' /\ Reloaded'
    BY <1>1, <1>3, <2>1 DEF TunInv, StepsFit, Owned, Prepared, Reloaded, SaysRunning, Reloading,
       PrepareStages, Binding, GoingBack, TunAlive
  <2>4. WholeTun' /\ BoundOnce' /\ Trusted'
    BY <1>1, <1>3, <2>1
    DEF TunInv, WholeTun, BoundOnce, Trusted, Proved, SaysRunning, Reloading, Binding, GoingBack, TunAlive
  <2> QED
    BY <2>2, <2>3, <2>4 DEF TunInv
<1>4. CASE TunBreaks /\ UNCHANGED net /\ IF tunJob.step = "unbind" THEN TunAt(NotBound) ELSE TunAnswers("failed")
  <2>1. tunFaults' = tunFaults + 1 /\ tunFaults' \in 0 .. MaxTunFaults /\ tunFaults' # 0 /\ (tunFaults' <= 1 => tunFaults = 0)
    BY <1>2, <1>4 DEF TunBreaks
  <2>2. tunFaults = 0 => tunJob.step = "unbind" /\ tunJob.kind # "restore"
    BY <1>1 DEF TunInv, WholeTun, GoingBack
  <2>3. CASE tunJob.step = "unbind"
    <3>1. /\ tunJob' \in TunJobs /\ tunJob'.kind = tunJob.kind /\ tunJob'.session = tunJob.session /\ tunJob'.index = tunJob.index
          /\ tunJob'.direct = tunJob.direct /\ tunJob'.before = tunJob.before
          /\ tunJob'.step = IF tunJob.kind = "restore" THEN "undone" ELSE "swapBack"
      BY <1>2, <1>4, <2>3, TunAtType DEF NotBound
    <3>2. TunTyped' /\ WatchIsFair'
      BY <1>1, <1>4, <2>1, <3>1, WatchRests DEF TunInv, TunTyped
    <3>3. StepsFit' /\ Owned' /\ Prepared' /\ Reloaded'
      BY <1>1, <1>4, <3>1 DEF TunInv, StepsFit, Owned, Prepared, Reloaded, SaysRunning, Reloading,
         PrepareStages, Binding, GoingBack, TunAlive
    <3>4. WholeTun' /\ BoundOnce' /\ Trusted'
      BY <1>1, <1>4, <2>1, <2>2, <3>1
      DEF TunInv, WholeTun, BoundOnce, Trusted, Proved, SaysRunning, Reloading, Binding, GoingBack, TunAlive
    <3> QED
      BY <3>2, <3>3, <3>4 DEF TunInv
  <2>4. CASE tunJob.step # "unbind"
    <3>1. tunJob' \in TunJobs /\ tunJob'.kind = "none" /\ tunJob'.step = "idle"
      BY <1>4, <2>4, TunAnswersType
    <3>2. TunTyped' /\ WatchIsFair'
      BY <1>1, <1>4, <2>1, <3>1, WatchRests DEF TunInv, TunTyped
    <3>3. StepsFit' /\ Owned' /\ Prepared' /\ Reloaded'
      BY <1>1, <1>4, <3>1 DEF TunInv, StepsFit, Owned, Prepared, Reloaded, SaysRunning, Reloading,
         PrepareStages, Binding, GoingBack, TunAlive
    <3>4. WholeTun' /\ BoundOnce' /\ Trusted'
      BY <2>1, <2>2, <2>4 DEF WholeTun, BoundOnce, Trusted
    <3> QED
      BY <3>2, <3>3, <3>4 DEF TunInv
  <2> QED
    BY <2>3, <2>4
<1> QED
  BY <1>3, <1>4 DEF Unbind


LEMMA BindKeeps == ASSUME TunInv, Bind PROVE TunInv'
<1>1. /\ tunJob.step = "bind" /\ Reloading /\ tun.manager # "none" /\ tun.stage # "none" /\ BindNet("record", NotBound)
      /\ tun' \in (IF tunJob'.step = "record" THEN {} ELSE {tun}) \cup
                  (IF adapter.state = "enabled" THEN {[tun EXCEPT !.stage = "bound"]} ELSE {})
      /\ UNCHANGED <<tunCore, adapter, watch, blame, proof, sessions>>
  BY ReloadingSteps DEF TunInv, Owned, Reloaded, Bind, Binding
<1>2. /\ TunTyped /\ tun \in Memories /\ tunFaults \in 0 .. MaxTunFaults /\ {"record", "swapBack", "undone"} \subseteq TunSteps
      /\ NotBound \in TunSteps
  BY SomeSteps DEF TunInv, TunTyped, ReloadStages, Binding, NotBound
<1>3. /\ tunJob' \in TunJobs /\ net' \in Nets /\ tunFaults' \in 0 .. MaxTunFaults
      /\ tunJob'.kind = tunJob.kind /\ tunJob'.session = tunJob.session
      /\ tunJob'.direct = tunJob.direct /\ tunJob'.before = tunJob.before
      /\ \/ /\ adapter.state = "enabled" /\ net' = [session |-> tunJob.session, index |-> adapter.index]
            /\ tunJob'.step = "record" /\ tunJob'.index = adapter.index /\ tunFaults' = tunFaults
         \/ /\ tunJob'.step = NotBound /\ tunJob'.index = tunJob.index
            /\ ((adapter.state # "enabled" /\ tunFaults' = tunFaults) \/ tunFaults' = tunFaults + 1)
  BY <1>1, <1>2, BindNetType
<1>4. /\ tun' \in Memories /\ tun'.manager = tun.manager /\ tun'.enabled = tun.enabled /\ tun'.plan = tun.plan
      /\ tun'.session = tun.session /\ tun'.index = tun.index /\ tun'.direct = tun.direct /\ tun'.fault = tun.fault
      /\ tun'.stage = "bound" \/ (tunJob'.step # "record" /\ tun'.stage = tun.stage)
  <2>1. CASE tun' = tun /\ tunJob'.step # "record"
    BY <1>2, <2>1
  <2>2. CASE tun' = [tun EXCEPT !.stage = "bound"]
    BY <1>2, <2>2 DEF Memories
  <2> QED
    BY <1>1, <2>1, <2>2
<1>5. TunTyped' /\ WatchIsFair'
  BY <1>1, <1>3, <1>4, WatchRests DEF TunInv, TunTyped
<1>6. NotBound = IF tunJob.kind = "restore" THEN "undone" ELSE "swapBack"
  BY DEF NotBound
<1>7. StepsFit' /\ Owned' /\ Prepared' /\ Reloaded'
  BY <1>1, <1>3, <1>4, <1>6 DEF TunInv, StepsFit, Owned, Prepared, Reloaded, SaysRunning,
     Reloading, PrepareStages, Binding, GoingBack, TunAlive
<1>8. tunFaults <= tunFaults' /\ (tunFaults' = 0 => tunFaults = 0) /\ (tunFaults' <= 1 => tunFaults <= 1)
  BY <1>2, <1>3
<1>9. tunFaults = 0 => adapter.state = "enabled" /\ tunJob.kind # "restore"
  BY <1>1 DEF TunInv, WholeTun
<1>10. tunFaults' <= 1 /\ tunJob.kind = "restore" => tunJob'.step = "record"
  BY <1>2, <1>3, <1>8 DEF TunInv, BoundOnce
<1>11. tunJob'.step = "record" =>
         /\ adapter.state = "enabled" /\ tunJob'.index = adapter.index
         /\ net' = [session |-> tunJob.session, index |-> tunJob'.index] /\ tun'.stage = "bound"
  BY <1>3, <1>4, <1>6
<1>12. tunFaults' = 0 => tunJob'.step = "record"
  BY <1>2, <1>3, <1>8, <1>9
<1>13. WholeTun'
  BY <1>1, <1>3, <1>4, <1>8, <1>11, <1>12 DEF TunInv, WholeTun, Prepared, Reloaded, Reloading,
     Binding, GoingBack
<1>14. BoundOnce'
  BY <1>1, <1>3, <1>4, <1>6, <1>8, <1>10, <1>11 DEF TunInv, BoundOnce, SaysRunning, Reloading,
     Binding, GoingBack, TunAlive
<1>15. Trusted'
  BY <1>1, <1>3, <1>4, <1>6, <1>8 DEF TunInv, Trusted, Proved
<1> QED
  BY <1>5, <1>7, <1>13, <1>14, <1>15 DEF TunInv

LEMMA SwapBackKeeps == ASSUME TunInv, SwapBack PROVE TunInv'
<1>1. /\ tunJob.step = "swapBack" /\ Reloading /\ tun.manager # "none" /\ tun.stage # "none"
      /\ UNCHANGED <<tun, net, watch, blame, proof, sessions>>
  BY ReloadingSteps DEF TunInv, Owned, Reloaded, SwapBack, Binding
<1>2. /\ tunJob \in TunJobs /\ tunFaults \in 0 .. MaxTunFaults /\ MaxTunFaults \in Nat /\ "unbindBack" \in TunSteps
      /\ tunFaults # 0 /\ tunJob.kind # "restore"
  BY <1>1, TunAssumption, SomeSteps DEF TunInv, TunTyped, StepsFit, WholeTun, ReloadStages,
     Binding, GoingBack
<1>3. NewAdapter => adapter' \in Adapters /\ adapter'.state = "enabled" /\ adapter'.index # 0
  BY TunAssumption DEF NewAdapter, Adapters, Numbers
<1>4. CASE tunCore' = "running" /\ NewAdapter /\ TunAt("unbindBack") /\ UNCHANGED tunFaults
  <2>1. /\ tunJob' \in TunJobs /\ tunJob'.kind = tunJob.kind /\ tunJob'.session = tunJob.session /\ tunJob'.index = tunJob.index
        /\ tunJob'.direct = tunJob.direct /\ tunJob'.before = tunJob.before /\ tunJob'.step = "unbindBack"
    BY <1>2, <1>4, TunAtType
  <2>2. TunTyped' /\ WatchIsFair'
    BY <1>1, <1>3, <1>4, <2>1, WatchRests DEF TunInv, TunTyped
  <2>3. StepsFit' /\ Owned' /\ Prepared' /\ Reloaded'
    BY <1>1, <1>2, <1>3, <1>4, <2>1 DEF TunInv, StepsFit, Owned, Prepared, Reloaded, SaysRunning,
       Reloading, PrepareStages, Binding, GoingBack, TunAlive
  <2>4. WholeTun' /\ BoundOnce' /\ Trusted'
    BY <1>1, <1>2, <1>3, <1>4, <2>1
    DEF TunInv, WholeTun, BoundOnce, Trusted, Proved, SaysRunning, Reloading, Binding, GoingBack, TunAlive
  <2> QED
    BY <2>2, <2>3, <2>4 DEF TunInv
<1>5. CASE TunBreaks /\ tunCore' = "failed" /\ adapter' = NoAdapter /\ TunAnswers("failed")
  <2>1. tunFaults' \in 0 .. MaxTunFaults /\ ~(tunFaults' <= 1)
    BY <1>2, <1>5 DEF TunBreaks
  <2>2. tunJob' \in TunJobs /\ tunJob'.kind = "none" /\ tunJob'.step = "idle" /\ adapter' \in Adapters /\ adapter'.state = "missing"
    BY <1>5, TunAnswersType, Zeros DEF NoAdapter
  <2>3. TunTyped' /\ WatchIsFair'
    BY <1>1, <1>5, <2>1, <2>2, WatchRests DEF TunInv, TunTyped
  <2>4. StepsFit' /\ Owned' /\ Prepared' /\ Reloaded'
    BY <1>1, <1>5, <2>2 DEF TunInv, StepsFit, Owned, Prepared, Reloaded, SaysRunning, Reloading,
       PrepareStages, Binding, GoingBack, TunAlive
  <2>5. WholeTun' /\ BoundOnce' /\ Trusted'
    BY <2>1 DEF WholeTun, BoundOnce, Trusted
  <2> QED
    BY <2>3, <2>4, <2>5 DEF TunInv
<1> QED
  BY <1>4, <1>5 DEF SwapBack

LEMMA BindBackKeeps == ASSUME TunInv, BindBack PROVE TunInv'
<1>1. /\ tunJob.step = "bindBack" /\ Reloading /\ tun.manager # "none" /\ tun.stage # "none" /\ BindNet("boundBack", "boundBack")
      /\ tun' = IF adapter.state = "enabled" THEN [tun EXCEPT !.stage = "bound"] ELSE tun
      /\ UNCHANGED <<tunCore, adapter, watch, blame, proof, sessions>>
  BY ReloadingSteps DEF TunInv, Owned, Reloaded, BindBack, Binding
<1>2. /\ TunTyped /\ tun \in Memories /\ tunFaults \in 0 .. MaxTunFaults /\ "boundBack" \in TunSteps
      /\ tunFaults # 0 /\ tunJob.kind # "restore"
      /\ tunFaults <= 1 => tunCore = "running" /\ adapter.state = "enabled"
  BY <1>1, SomeSteps DEF TunInv, TunTyped, StepsFit, WholeTun, BoundOnce, ReloadStages, Binding,
     GoingBack
<1>3. /\ tunJob' \in TunJobs /\ net' \in Nets /\ tunFaults' \in 0 .. MaxTunFaults
      /\ tunJob'.kind = tunJob.kind /\ tunJob'.session = tunJob.session
      /\ tunJob'.direct = tunJob.direct /\ tunJob'.before = tunJob.before /\ tunJob'.step = "boundBack"
      /\ \/ adapter.state = "enabled" /\ net' = [session |-> tunJob.session, index |-> adapter.index] /\ tunFaults' = tunFaults
         \/ adapter.state # "enabled" /\ tunFaults' = tunFaults
         \/ tunFaults' = tunFaults + 1
  BY <1>1, <1>2, BindNetType
<1>4. /\ tun' \in Memories /\ tun'.manager = tun.manager /\ tun'.enabled = tun.enabled /\ tun'.plan = tun.plan
      /\ tun'.session = tun.session /\ tun'.index = tun.index /\ tun'.direct = tun.direct /\ tun'.fault = tun.fault
      /\ tun'.stage = IF adapter.state = "enabled" THEN "bound" ELSE tun.stage
  BY <1>1, <1>2 DEF Memories
<1>5. TunTyped' /\ WatchIsFair'
  BY <1>1, <1>3, <1>4, WatchRests DEF TunInv, TunTyped
<1>6. StepsFit' /\ Owned' /\ Prepared' /\ Reloaded'
  BY <1>1, <1>2, <1>3, <1>4 DEF TunInv, StepsFit, Owned, Prepared, Reloaded, SaysRunning,
     Reloading, PrepareStages, Binding, GoingBack, TunAlive
<1>7. tunFaults' # 0 /\ (tunFaults' <= 1 => tunFaults <= 1 /\ net' = [session |-> tunJob.session, index |-> adapter.index]
                                           /\ tunCore = "running" /\ adapter.state = "enabled" /\ tun'.stage = "bound")
  BY <1>2, <1>3, <1>4
<1>8. WholeTun' /\ BoundOnce' /\ Trusted'
  BY <1>1, <1>2, <1>3, <1>4, <1>7
  DEF TunInv, WholeTun, BoundOnce, Trusted, Proved, SaysRunning, Reloading, Binding, GoingBack, TunAlive
<1> QED
  BY <1>5, <1>6, <1>8 DEF TunInv

LEMMA BoundBackKeeps == ASSUME TunInv, BoundBack PROVE TunInv'
<1>1. /\ tunJob.step = "boundBack" /\ Reloading /\ tun.manager # "none" /\ TunAnswers("failed") /\ tunJob.session = tun.plan
      /\ UNCHANGED <<tun, tunCore, adapter, net, watch, blame, proof, sessions, tunFaults>>
  BY ReloadingSteps DEF TunInv, Owned, Reloaded, BoundBack, Binding
<1>2. tunJob' \in TunJobs /\ tunJob'.kind = "none" /\ tunJob'.step = "idle"
  BY <1>1, TunAnswersType
<1>3. /\ tunFaults # 0
      /\ tunFaults <= 1 => tun.stage = "bound" /\ net = [session |-> tunJob.session, index |-> adapter.index]
      /\ tun.session # 0 => tun.session = tun.plan
  BY <1>1 DEF TunInv, WholeTun, BoundOnce, Prepared, GoingBack
<1>4. TunTyped' /\ WatchIsFair'
  BY <1>1, <1>2, WatchRests DEF TunInv, TunTyped
<1>5. StepsFit'
  BY <1>1, <1>2, <1>3 DEF TunInv, StepsFit, PrepareStages, Binding, GoingBack
<1>6. Owned'
  BY <1>1, <1>2, <1>3 DEF TunInv, StepsFit, Owned, Prepared, Reloaded, TunAlive, Reloading,
     PrepareStages, Binding
<1>7. Prepared'
  BY <1>1, <1>2, <1>3 DEF TunInv, StepsFit, Owned, Prepared, Reloaded, SaysRunning, Reloading,
     PrepareStages, Binding
<1>8. Reloaded'
  BY <1>1, <1>2, <1>3 DEF TunInv, StepsFit, Prepared, Reloaded, SaysRunning, Reloading,
     PrepareStages, Binding
<1>9. WholeTun'
  BY <1>1, <1>2, <1>3 DEF TunInv, StepsFit, Owned, Prepared, Reloaded, WholeTun, SaysRunning,
     Reloading, PrepareStages, Binding, GoingBack
<1>10. BoundOnce'
  BY <1>1, <1>2, <1>3 DEF TunInv, StepsFit, Owned, Prepared, Reloaded, WholeTun, BoundOnce,
     TunAlive, SaysRunning, Reloading, PrepareStages, Binding, GoingBack
<1>11. Trusted'
  BY <1>1, <1>2, <1>3 DEF TunInv, StepsFit, Reloaded, Prepared, WholeTun, BoundOnce, Trusted,
     Proved, SaysRunning, Reloading, PrepareStages, Binding, GoingBack
<1> QED
  BY <1>4, <1>5, <1>6, <1>7, <1>8, <1>9, <1>10, <1>11 DEF TunInv


LEMMA RecordReloadKeeps == ASSUME TunInv, RecordReload PROVE TunInv'
<1>1. /\ tunJob.step = "record" /\ Reloading /\ tun.enabled /\ tun.stage # "none" /\ tunJob.session = tun.plan
      /\ tun' = [tun EXCEPT !.direct = tunJob.direct, !.index = tunJob.index]
      /\ UNCHANGED <<tunCore, adapter, net, watch, blame, proof, sessions>>
  BY ReloadingSteps DEF TunInv, Reloaded, RecordReload
<1>2. /\ tun \in Memories /\ tunJob \in TunJobs /\ tunJob.index \in Numbers /\ tunJob.direct \in BOOLEAN
      /\ tunFaults \in 0 .. MaxTunFaults /\ MaxTunFaults \in Nat /\ {"probe", "undone"} \subseteq TunSteps
  BY TunAssumption, SomeSteps DEF TunInv, TunTyped, TunJobs, ReloadStages
<1>3. /\ tun' \in Memories /\ tun'.manager = tun.manager /\ tun'.enabled = tun.enabled /\ tun'.plan = tun.plan
                           /\ tun'.stage = tun.stage /\ tun'.session = tun.session /\ tun'.index = tunJob.index
                           /\ tun'.direct = tunJob.direct /\ tun'.fault = tun.fault
  BY <1>1, <1>2 DEF Memories
<1>4. /\ tunJob.kind = "reload" => tun.direct = tunJob.before
      /\ tunJob.kind \in {"undo", "restore"} => tunJob.direct = tunJob.before
  BY <1>1 DEF TunInv, Reloaded
<1>5. CASE TunAt(IF tunJob.kind = "reload" THEN "probe" ELSE "undone") /\ UNCHANGED tunFaults
  <2>1. /\ tunJob' \in TunJobs /\ tunJob'.kind = tunJob.kind /\ tunJob'.session = tunJob.session /\ tunJob'.index = tunJob.index
        /\ tunJob'.direct = tunJob.direct /\ tunJob'.before = tunJob.before
        /\ tunJob'.step = IF tunJob.kind = "reload" THEN "probe" ELSE "undone"
    BY <1>2, <1>5, TunAtType
  <2>2. TunTyped' /\ WatchIsFair'
    BY <1>1, <1>3, <1>5, <2>1, WatchRests DEF TunInv, TunTyped
  <2>3. StepsFit' /\ Owned' /\ Prepared' /\ Reloaded'
    BY <1>1, <1>3, <1>4, <1>5, <2>1
    DEF TunInv, StepsFit, Owned, Prepared, Reloaded, SaysRunning, Reloading, PrepareStages, Binding, GoingBack, TunAlive
  <2>4. WholeTun' /\ BoundOnce'
    BY <1>1, <1>3, <1>4, <1>5, <2>1
    DEF TunInv, WholeTun, BoundOnce, SaysRunning, Reloading, Binding, GoingBack, TunAlive
  <2>5. Trusted'
    BY <1>1, <1>3, <1>4, <1>5, <2>1 DEF TunInv, Trusted, Proved, Reloading
  <2> QED
    BY <2>2, <2>3, <2>4, <2>5 DEF TunInv
<1>6. CASE tunJob.kind # "restore" /\ TunBreaks /\ UndoReload("restore")
  <2>1. /\ tunJob' \in TunJobs /\ tunJob'.kind = "restore" /\ tunJob'.step = "swap" /\ tunJob'.direct = tunJob.before
        /\ tunJob'.before = tunJob.before /\ tunJob'.session = tunJob.session /\ tunJob'.index = tunJob.index
    BY <1>2, <1>6, TunUndoes
  <2>2. /\ tunFaults' = tunFaults + 1 /\ tunFaults' \in 0 .. MaxTunFaults /\ tunFaults' # 0
        /\ tunFaults' <= 1 => tunFaults = 0 /\ tunFaults' = 1
    BY <1>2, <1>6 DEF TunBreaks
  <2>3. TunTyped' /\ WatchIsFair'
    BY <1>1, <1>3, <2>1, <2>2, WatchRests DEF TunInv, TunTyped
  <2>4. StepsFit' /\ Owned' /\ Prepared' /\ Reloaded'
    BY <1>1, <1>3, <2>1
    DEF TunInv, StepsFit, Owned, Prepared, Reloaded, SaysRunning, Reloading, PrepareStages, Binding, GoingBack, TunAlive
  <2>5. WholeTun'
    BY <2>2 DEF WholeTun
  <2>6. tunFaults = 0 => /\ tunCore = "running" /\ adapter.state = "enabled" /\ tun.stage \in {"bound", "committed"}
                         /\ tun.manager # "none"
    BY <1>1 DEF TunInv, WholeTun
  <2>7. Trusted'
    BY <1>1, <1>3, <1>4, <2>1, <2>2 DEF TunInv, Trusted, Proved, Reloading
  <2>8. tunFaults = 0 => tun.stage = "bound"
    BY <1>1 DEF TunInv, WholeTun
  <2>9. BoundOnce'
    BY <1>1, <1>3, <2>1, <2>2, <2>6, <2>8 DEF BoundOnce, SaysRunning, Reloading, TunAlive
  <2> QED
    BY <2>3, <2>4, <2>5, <2>7, <2>9 DEF TunInv
<1> QED
  BY <1>5, <1>6 DEF RecordReload

LEMMA ProbeReloadKeeps == ASSUME TunInv, ProbeReload PROVE TunInv'
<1>1. /\ tunJob.step = "probe" /\ tunJob.kind = "reload" /\ tun.enabled /\ tun.stage # "none" /\ tunJob.session = tun.plan /\ tun.plan # 0
      /\ UNCHANGED <<tunCore, adapter, net, watch, blame, sessions, tunFaults>>
  BY DEF TunInv, StepsFit, Prepared, Reloaded, Reloading, ProbeReload
<1>2. /\ tun \in Memories /\ tunJob \in TunJobs /\ tun.direct \in BOOLEAN /\ tun.plan \in Sessions
  BY DEF TunInv, TunTyped, Memories
<1>3. ASSUME tun' = [tun EXCEPT !.stage = "committed", !.session = tun.plan], proof' \in BOOLEAN, tun.direct \/ proof',
             TunAnswers("ok"), tunCore = "running"
      PROVE  TunInv'
  <2>1. /\ tun' \in Memories /\ tun'.manager = tun.manager /\ tun'.enabled = tun.enabled /\ tun'.plan = tun.plan
                             /\ tun'.stage = "committed" /\ tun'.session = tun.plan /\ tun'.index = tun.index
                             /\ tun'.direct = tun.direct /\ tun'.fault = tun.fault
    BY <1>2, <1>3 DEF Memories
  <2>2. tunJob' \in TunJobs /\ tunJob'.kind = "none" /\ tunJob'.step = "idle"
    BY <1>3, TunAnswersType
  <2>3. TunTyped' /\ WatchIsFair'
    BY <1>1, <1>3, <2>1, <2>2, WatchRests DEF TunInv, TunTyped
  <2>4. StepsFit' /\ Owned' /\ Prepared' /\ Reloaded'
    BY <1>1, <1>3, <2>1, <2>2
    DEF TunInv, StepsFit, Owned, Prepared, Reloaded, SaysRunning, Reloading, PrepareStages, Binding, GoingBack, TunAlive
  <2>5. tunFaults = 0 => tun.session = tun.plan
    BY <1>1 DEF TunInv, WholeTun, Prepared, Reloading
  <2>6. WholeTun'
    BY <1>1, <1>3, <2>1, <2>2, <2>5 DEF TunInv, WholeTun, Reloading, Binding, GoingBack
  <2>7. tunFaults <= 1 /\ tun.manager # "none" => net = [session |-> tun.plan, index |-> tun.index]
    BY <1>1, <1>3 DEF TunInv, BoundOnce, SaysRunning
  <2>8. tunFaults <= 1 /\ tun.manager = "none" => tun.index = 0
    BY <1>1, <1>3 DEF TunInv, BoundOnce, SaysRunning, TunAlive
  <2>9. BoundOnce' /\ Trusted'
    BY <1>1, <1>3, <2>1, <2>2, <2>7, <2>8 DEF BoundOnce, Trusted, Proved, SaysRunning, Reloading,
       Binding, TunAlive
  <2> QED
    BY <2>3, <2>4, <2>6, <2>9 DEF TunInv
<1>4. CASE UndoReload("undo") /\ UNCHANGED <<tun, proof>>
  <2>1. /\ tunJob' \in TunJobs /\ tunJob'.kind = "undo" /\ tunJob'.step = "swap" /\ tunJob'.direct = tunJob.before
        /\ tunJob'.before = tunJob.before /\ tunJob'.session = tunJob.session /\ tunJob'.index = tunJob.index
    BY <1>2, <1>4, TunUndoes
  <2>2. TunTyped' /\ WatchIsFair'
    BY <1>1, <1>4, <2>1, WatchRests DEF TunInv, TunTyped
  <2>3. StepsFit' /\ Owned' /\ Prepared' /\ Reloaded'
    BY <1>1, <1>4, <2>1
    DEF TunInv, StepsFit, Owned, Prepared, Reloaded, SaysRunning, Reloading, PrepareStages, Binding, GoingBack, TunAlive
  <2>4. WholeTun' /\ BoundOnce' /\ Trusted'
    BY <1>1, <1>4, <2>1
    DEF TunInv, WholeTun, BoundOnce, Trusted, Proved, SaysRunning, Reloading, Binding, GoingBack, TunAlive
  <2> QED
    BY <2>2, <2>3, <2>4 DEF TunInv
<1>5. CASE \E world \in Worlds, udpRequired \in BOOLEAN :
             /\ DataPlaneVerified(world, tun.direct, udpRequired) /\ proof' = Proves(world)
             /\ tun' = [tun EXCEPT !.stage = "committed", !.session = tun.plan]
             /\ TunAnswers("ok")
  BY <1>2, <1>3, <1>5, VerifiedProves
<1> QED
  BY <1>4, <1>5 DEF ProbeReload

LEMMA ReloadUndoneKeeps == ASSUME TunInv, ReloadUndone PROVE TunInv'
<1>1. /\ tunJob.step = "undone" /\ tunJob.kind \in {"undo", "restore"} /\ TunAnswers("failed") /\ tunJob.session = tun.plan
      /\ UNCHANGED <<tun, tunCore, adapter, net, watch, blame, proof, sessions, tunFaults>>
  BY DEF TunInv, StepsFit, Reloaded, Reloading, ReloadUndone
<1>2. tunJob' \in TunJobs /\ tunJob'.kind = "none" /\ tunJob'.step = "idle" /\ tunJob'.answer = "failed"
  BY <1>1, TunAnswersType
<1>3. tun.session # 0 => tun.session = tun.plan
  BY DEF TunInv, Prepared
<1>4. TunTyped' /\ WatchIsFair'
  BY <1>1, <1>2, WatchRests DEF TunInv, TunTyped
<1>5. StepsFit'
  BY <1>1, <1>2, <1>3 DEF TunInv, StepsFit, PrepareStages, Binding, GoingBack
<1>6. Owned'
  BY <1>1, <1>2, <1>3 DEF TunInv, StepsFit, Owned, Prepared, Reloaded, TunAlive, Reloading,
     PrepareStages, Binding
<1>7. Prepared'
  BY <1>1, <1>2, <1>3 DEF TunInv, StepsFit, Owned, Prepared, Reloaded, SaysRunning, Reloading,
     PrepareStages, Binding
<1>8. Reloaded'
  BY <1>1, <1>2, <1>3 DEF TunInv, StepsFit, Prepared, Reloaded, SaysRunning, Reloading,
     PrepareStages, Binding
<1>9. WholeTun'
  BY <1>1, <1>2, <1>3 DEF TunInv, StepsFit, Owned, Prepared, Reloaded, WholeTun, SaysRunning,
     Reloading, PrepareStages, Binding, GoingBack
<1>10. BoundOnce'
  BY <1>1, <1>2, <1>3 DEF TunInv, StepsFit, Owned, Prepared, Reloaded, WholeTun, BoundOnce,
     TunAlive, SaysRunning, Reloading, PrepareStages, Binding, GoingBack
<1>11. Trusted'
  BY <1>1, <1>2, <1>3 DEF TunInv, StepsFit, Reloaded, Prepared, WholeTun, BoundOnce, Trusted,
     Proved, SaysRunning, Reloading, PrepareStages, Binding, GoingBack
<1> QED
  BY <1>4, <1>5, <1>6, <1>7, <1>8, <1>9, <1>10, <1>11 DEF TunInv

LEMMA VerifyRuntimeKeeps == ASSUME TunInv, VerifyRuntime PROVE TunInv'
<1>1. /\ tunJob.step = "idle" /\ tunJob.kind = "none" /\ TunAlive /\ tun.enabled /\ tun.plan # 0 /\ tun.session = tun.plan
      /\ UNCHANGED <<tunCore, adapter, net, watch, blame, sessions, tunFaults>>
  BY DEF TunInv, StepsFit, Prepared, VerifyRuntime
<1>2. tun \in Memories /\ tun.direct \in BOOLEAN /\ tun.plan \in Sessions
  BY DEF TunInv, TunTyped, Memories
<1>3. ASSUME tun' = [tun EXCEPT !.stage = "committed", !.session = tun.plan], proof' \in BOOLEAN, tun.direct \/ proof',
             tunJob' = [TunIdle EXCEPT !.answer = "ok"], tunCore = "running"
      PROVE  TunInv'
  <2>1. /\ tun' \in Memories /\ tun'.manager = tun.manager /\ tun'.enabled = tun.enabled /\ tun'.plan = tun.plan
                             /\ tun'.stage = "committed" /\ tun'.session = tun.plan /\ tun'.index = tun.index
                             /\ tun'.direct = tun.direct /\ tun'.fault = tun.fault
    BY <1>2, <1>3 DEF Memories
  <2>2. tunJob' \in TunJobs /\ tunJob'.kind = "none" /\ tunJob'.step = "idle"
    BY <1>3, TunAnswersType DEF TunAnswers
  <2>3. TunTyped' /\ WatchIsFair'
    BY <1>1, <1>3, <2>1, <2>2, WatchRests DEF TunInv, TunTyped
  <2>4. StepsFit' /\ Owned' /\ Prepared' /\ Reloaded'
    BY <1>1, <1>3, <2>1, <2>2
    DEF TunInv, StepsFit, Owned, Prepared, Reloaded, SaysRunning, Reloading, PrepareStages, Binding, GoingBack, TunAlive
  <2>5. WholeTun' /\ BoundOnce' /\ Trusted'
    BY <1>1, <1>3, <2>1, <2>2
    DEF TunInv, WholeTun, BoundOnce, Trusted, Proved, SaysRunning, Reloading, Binding, GoingBack, TunAlive
  <2> QED
    BY <2>3, <2>4, <2>5 DEF TunInv
<1>4. CASE tunJob' = [TunIdle EXCEPT !.answer = "failed"] /\ UNCHANGED <<tun, proof>>
  <2>1. tunJob' \in TunJobs /\ tunJob'.kind = "none" /\ tunJob'.step = "idle" /\ tunJob'.answer = "failed"
    BY <1>4, TunAnswersType DEF TunAnswers
  <2>2. TunTyped' /\ WatchIsFair'
    BY <1>1, <1>4, <2>1, WatchRests DEF TunInv, TunTyped
  <2>3. StepsFit' /\ Owned' /\ Prepared' /\ Reloaded'
    BY <1>1, <1>4, <2>1
    DEF TunInv, StepsFit, Owned, Prepared, Reloaded, SaysRunning, Reloading, PrepareStages, Binding, GoingBack, TunAlive
  <2>4. WholeTun' /\ BoundOnce' /\ Trusted'
    BY <1>1, <1>4, <2>1
    DEF TunInv, WholeTun, BoundOnce, Trusted, Proved, SaysRunning, Reloading, Binding, GoingBack, TunAlive
  <2> QED
    BY <2>2, <2>3, <2>4 DEF TunInv
<1>5. PICK world \in Worlds, udpRequired \in BOOLEAN :
         IF DataPlaneVerified(world, tun.direct, udpRequired)
         THEN /\ tun' = [tun EXCEPT !.stage = "committed", !.session = tun.plan] /\ proof' = Proves(world)
              /\ tunJob' = [TunIdle EXCEPT !.answer = "ok"]
         ELSE tunJob' = [TunIdle EXCEPT !.answer = "failed"] /\ UNCHANGED <<tun, proof>>
  BY DEF VerifyRuntime
<1>6. CASE DataPlaneVerified(world, tun.direct, udpRequired)
  BY <1>2, <1>3, <1>5, <1>6, VerifiedProves
<1> QED
  BY <1>4, <1>5, <1>6

LEMMA RecoverAtStartKeeps == ASSUME TunInv, RecoverAtStart PROVE TunInv'
<1>1. /\ tunJob.step = "recover" /\ tunJob.kind = "boot" /\ UNCHANGED <<tun, tunCore, adapter, watch, blame, proof, sessions>>
      /\ tunCore = "stopped" /\ tun.manager = "none" /\ ~tun.enabled /\ tun.stage = "none" /\ tun.session = 0
  BY DEF TunInv, StepsFit, Prepared, RecoverAtStart
<1>2. tunFaults \in 0 .. MaxTunFaults /\ MaxTunFaults \in Nat
  BY TunAssumption DEF TunInv, TunTyped
<1>3. CASE net' = NoNet /\ tunJob' = TunIdle /\ UNCHANGED tunFaults
  <2>1. tunJob' \in TunJobs /\ tunJob'.kind = "none" /\ tunJob'.step = "idle" /\ net' \in Nets /\ net'.session = 0
    BY <1>3, TunIdleType, Zeros DEF NoNet
  <2>2. TunTyped' /\ WatchIsFair'
    BY <1>1, <1>3, <2>1, WatchRests DEF TunInv, TunTyped
  <2>3. StepsFit' /\ Owned' /\ Prepared' /\ Reloaded'
    BY <1>1, <1>3, <2>1
    DEF TunInv, StepsFit, Owned, Prepared, Reloaded, SaysRunning, Reloading, PrepareStages, Binding, GoingBack, TunAlive
  <2>4. WholeTun' /\ BoundOnce' /\ Trusted'
    BY <1>1, <1>3, <2>1
    DEF TunInv, WholeTun, BoundOnce, Trusted, Proved, SaysRunning, Reloading, Binding, GoingBack, TunAlive
  <2> QED
    BY <2>2, <2>3, <2>4 DEF TunInv
<1>4. CASE TunBreaks /\ UNCHANGED <<net, tunJob>>
  <2>1. tunFaults' = tunFaults + 1 /\ tunFaults' \in 0 .. MaxTunFaults /\ tunFaults' # 0 /\ (tunFaults' <= 1 => tunFaults <= 1)
    BY <1>2, <1>4 DEF TunBreaks
  <2>2. TunTyped' /\ WatchIsFair'
    BY <1>1, <1>4, <2>1, WatchRests DEF TunInv, TunTyped
  <2>3. StepsFit' /\ Owned' /\ Prepared' /\ Reloaded'
    BY <1>1, <1>4 DEF TunInv, StepsFit, Owned, Prepared, Reloaded, SaysRunning, Reloading,
       PrepareStages, Binding, GoingBack, TunAlive
  <2>4. WholeTun' /\ BoundOnce' /\ Trusted'
    BY <1>1, <1>4, <2>1
    DEF TunInv, WholeTun, BoundOnce, Trusted, Proved, SaysRunning, Reloading, Binding, GoingBack, TunAlive
  <2> QED
    BY <2>2, <2>3, <2>4 DEF TunInv
<1> QED
  BY <1>3, <1>4 DEF RecoverAtStart

-----------------------------------------------------------------------------
(* Every step, and what the invariant says *)

LEMMA TunInitInv == TunInit => TunInv
<1> SUFFICES ASSUME TunInit PROVE TunInv
  OBVIOUS
<1>1. /\ tun.manager = "none" /\ tun.enabled = FALSE /\ tun.plan = 0 /\ tun.stage = "none"
      /\ tun.session = 0 /\ tun.index = 0 /\ tun.direct = FALSE /\ tun.fault = NoFaultId /\ tun \in Memories
  BY Zeros DEF TunInit, Memories, NoFaultId, Threshold
<1>2. /\ tunJob \in TunJobs /\ tunJob.kind = "none" /\ tunJob.step = "idle" /\ tunCore = "stopped" /\ proof = FALSE
      /\ adapter \in Adapters /\ adapter.state = "missing" /\ net \in Nets /\ net.session = 0
  BY TunIdleType, Zeros DEF TunInit, NoAdapter, NoNet
<1>3. sessions = 0 /\ sessions \in Sessions /\ tunFaults = 0 /\ tunFaults \in 0 .. MaxTunFaults
  BY TunAssumption, Zeros DEF TunInit
<1>4. TunTyped
  BY <1>1, <1>2, <1>3 DEF TunTyped
<1>5. WatchIsFair
  <2>1. watch \in Watches /\ watch.at = "wait" /\ watch.count = 0
    BY NobodyIsBlamed DEF TunInit
  <2>2. blame \in Blames
    BY Zeros DEF TunInit, Blames, Threshold
  <2>3. tun.fault.by # "watch"
    BY <1>1 DEF NoFaultId
  <2> QED
    BY <2>1, <2>2, <2>3 DEF WatchIsFair, FaultHasEvidence, Threshold
<1>6. StepsFit /\ Owned /\ Prepared /\ Reloaded
  BY <1>1, <1>2 DEF StepsFit, Owned, Prepared, Reloaded, SaysRunning, Reloading, PrepareStages,
     Binding, GoingBack, TunAlive
<1>7. WholeTun /\ BoundOnce /\ Trusted
  BY <1>1, <1>2, <1>3 DEF WholeTun, BoundOnce, Trusted, Proved, SaysRunning, Reloading, Binding,
     GoingBack, TunAlive
<1> QED
  BY <1>4, <1>5, <1>6, <1>7 DEF TunInv

LEMMA TunNextInv == TunInv /\ [TunNext]_tunVars => TunInv'
<1> SUFFICES ASSUME TunInv, [TunNext]_tunVars PROVE TunInv'
  OBVIOUS
<1>1. CASE UNCHANGED tunVars
  <2>1. /\ UNCHANGED <<tunJob, tunCore, adapter, net, proof, sessions, tunFaults>> /\ UNCHANGED <<watch, blame>> /\ tun' = tun
    BY <1>1 DEF tunVars
  <2>2. tun' \in Memories
    BY <2>1 DEF TunInv, TunTyped
  <2> QED
    BY <2>1, <2>2, SessionRests, WatchRests DEF TunInv
<1>2. CASE PrepareSteps
  BY <1>2, BeginPrepareKeeps, StopOldCoreKeeps, CleanOldKeeps, CompileWithoutKeeps, PlanKeeps,
     PreparationFailsKeeps, CompilePinnedKeeps, StartForCaptureKeeps, ActivateKeeps,
     VerifyAndCommitKeeps, CommitProxyKeeps, CommitFailsKeeps, RollbackKeeps DEF PrepareSteps
<1>3. CASE ReloadSteps
  BY <1>3, BeginReloadKeeps, SwapCoreKeeps, UnbindKeeps, BindKeeps, SwapBackKeeps, BindBackKeeps,
     BoundBackKeeps, RecordReloadKeeps, ProbeReloadKeeps, ReloadUndoneKeeps, VerifyRuntimeKeeps
     DEF ReloadSteps
<1>4. CASE WatchSteps
  BY <1>4, LookingKeeps, PublishKeeps DEF WatchSteps
<1>5. CASE TunCoreDies \/ TunDeathNoticed \/ AdapterChanges
  BY <1>5, CoreDiesKeeps, DeathNoticedKeeps, AdapterKeeps
<1>6. CASE ServiceCrashes \/ ShutDown \/ RecoverAtStart
  BY <1>6, EndsKeep, RecoverAtStartKeeps
<1> QED
  BY <1>1, <1>2, <1>3, <1>4, <1>5, <1>6 DEF TunNext

LEMMA TunSafe == TunInv => TunIsSafe /\ TunTypeOK
<1> SUFFICES ASSUME TunInv PROVE TunIsSafe /\ TunTypeOK
  OBVIOUS
<1>1. NetIsOwned /\ NoSessionNoNet /\ FaultHasEvidence
  BY DEF TunInv, Owned, WatchIsFair, NetIsOwned, NoSessionNoNet
<1>2. tunJob.step = "idle" => tunJob.kind = "none" /\ TunAlive
  BY DEF TunInv, StepsFit, TunAlive
<1>3. EnabledIsBound
  <2> SUFFICES ASSUME tunJob.step = "idle", tunFaults <= 1, Committed, ObservedHealthy(Expectation)
               PROVE  net = [session |-> tun.session, index |-> adapter.index]
    BY DEF EnabledIsBound
  <2>1. /\ tun.enabled /\ tun.session # 0 /\ SaysRunning /\ tun.stage = "committed"
        /\ adapter.state = "enabled" /\ adapter.index = tun.index
    BY DEF Committed, ObservedHealthy, Expectation
  <2>2. tun.index # 0 /\ net \in Nets
    BY <2>1 DEF TunInv, TunTyped, Prepared
  <2>3. net.session = tun.session /\ net.index = adapter.index
    BY <2>1, <2>2 DEF TunInv, BoundOnce
  <2> QED
    BY <2>2, <2>3 DEF Nets
<1>4. ReloadIsWhole
  <2> SUFFICES ASSUME tunJob.step = "idle", tunFaults = 0, tun.enabled
               PROVE  /\ net = [session |-> tun.session, index |-> adapter.index] /\ ObservedHealthy(Expectation)
                      /\ tunJob.answer = "ok" => Committed
    BY DEF ReloadIsWhole
  <2>1. /\ tunCore = "running" /\ adapter.state = "enabled" /\ tun.session # 0 /\ adapter.index = tun.index
        /\ net = [session |-> tun.session, index |-> tun.index]
        /\ tunJob.answer = "ok" => tun.stage = "committed"
    BY DEF TunInv, WholeTun
  <2> QED
    BY <2>1 DEF ObservedHealthy, Expectation, Committed, SaysRunning
<1>5. VerifiedIsCaptured
  <2> SUFFICES ASSUME tunJob.step = "idle", tunFaults <= 1, tun.stage = "committed", ~tun.direct PROVE proof
    BY DEF VerifiedIsCaptured
  <2> QED
    BY <1>2 DEF TunInv, Trusted, Proved
<1>6. TunTypeOK
  BY DEF TunInv, TunTyped, TunTypeOK, Memories, TunJobs, TunKinds, Adapters, Nets
<1> QED
  BY <1>1, <1>3, <1>4, <1>5, <1>6 DEF TunIsSafe
=============================================================================
