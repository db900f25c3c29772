--------------------------- MODULE NetworkJournal ---------------------------
(***************************************************************************)
(* The network manager of the Service (internal/network) and its users:    *)
(* routes, the NRPT rule and the firewall rule that TUN mode needs are     *)
(* installed one by one over a journal on disk, undone from it in reverse, *)
(* and recovered from it when the Service starts again.  One step of the   *)
(* model is one command or one write of the journal; the process may die   *)
(* between any two of them, a write may fail, and a command may fail with  *)
(* or without having had its effect.                                       *)
(***************************************************************************)
EXTENDS Naturals, Sequences, SequencesExt, FiniteSets

CONSTANTS
    PlanOperations,   \* the kinds of resource of a plan, in the order they are applied
    Routes,       \* the kinds that are routes
    AdapterBound, \* the routes that are bound to the TUN adapter
    NoJournal, NoManager, \* no file, no networkManager
    Firewall,     \* the kind whose orphans are removed without a journal
    MaxSession,   \* bound: activations
    MaxAdapter,   \* bound: adapters created by cores
    MaxNetworkFaults     \* bound: failing commands, failing writes and crashes

Kinds == {PlanOperations[i] : i \in DOMAIN PlanOperations}

ASSUME PlanAssumption ==
    /\ PlanOperations \in Seq(Kinds) /\ PlanOperations # <<>> /\ IsInjective(PlanOperations)
    /\ AdapterBound \subseteq Routes /\ Routes \subseteq Kinds /\ Firewall \in Kinds \ Routes
    /\ MaxSession \in Nat /\ MaxAdapter \in Nat /\ MaxNetworkFaults \in Nat

\* An identity is a session, or the instance of the adapter for a split route.
Identities == 1 .. (IF MaxSession > MaxAdapter THEN MaxSession ELSE MaxAdapter)
Resources == [kind : Kinds, id : Identities]

\* Entries of the journal: "own" is CreatedByNavo.
Entries == [kind : Kinds, id : Identities, own : BOOLEAN]
RecoveryManager == [session |-> 0, adapter |-> 0, active |-> FALSE]
Journal == [actions : Seq(Entries)]
Manager == [session : 0 .. MaxSession, adapter : 0 .. MaxAdapter, active : BOOLEAN]

ASSUME AbsenceAssumption == NoJournal \notin Journal /\ NoManager \notin Manager

\* What a call of the manager was made for decides what follows its recovery.
Calls == {"recover", "prepare", "deactivate", "rebind", "activate", "failing", "shutdown"}

VARIABLES
    place,    \* Navo's resources in the system
    twin,     \* kinds for which another program keeps exactly the wanted resource
    conflict, \* kinds for which another program keeps a different resource
    adapter,  \* the adapter instance in the system, 0 when missing
    disk,     \* the journal file
    manager,  \* networkManager of the Service: session (0: recovery only), adapter, active
    value,    \* the journal of the activation or recovery under way, in memory
    pc, call, index, failed, \* progress of the call that holds the manager's mutex
    alive,    \* the Service process
    sessions, adapters, faults \* counters of the bounds

system == <<place, twin, conflict, adapter>>
progress == <<pc, call, index, failed>>
counters == <<sessions, adapters, faults>>
networkVars == <<system, disk, manager, value, progress, alive, counters>>

NetworkInit ==
    /\ place = {} /\ twin \in SUBSET Routes /\ conflict = {} /\ adapter = 0
    /\ disk = NoJournal /\ manager = NoManager /\ value = <<>>
    /\ pc = "idle" /\ call = "recover" /\ index = 0 /\ failed = FALSE
    /\ alive = FALSE
    /\ sessions = 0 /\ adapters = 0 /\ faults = 0

-----------------------------------------------------------------------------
(* Helpers *)

\* The identity under which this activation installs and recognises a resource.
IdOf(kind) == IF kind \in AdapterBound THEN manager.adapter ELSE manager.session

Resource(kind) == [kind |-> kind, id |-> IdOf(kind)]

\* What the inspection script of an operation answers.  The firewall script
\* looks a rule up by its name, which holds the session: it sees no other rule.
Inspection(kind) ==
    LET exact == Resource(kind) \in place \/ kind \in twin
        others == IF kind = Firewall THEN {}
                  ELSE {r \in place : r.kind = kind} \ {Resource(kind)}
    IN CASE exact /\ others = {} /\ kind \notin conflict -> "EXACT"
         [] ~exact /\ others = {} /\ kind \notin conflict -> "MISSING"
         [] OTHER -> "error"

\* The undo script of a route refuses when the prefix is there with another
\* identity only; those of rules look the rule up by its own tag.
UndoRefused(entry) ==
    LET resource == [kind |-> entry.kind, id |-> entry.id]
    IN /\ entry.kind \in Routes \ twin
       /\ resource \notin place
       /\ entry.kind \in conflict \/ \E r \in place : r.kind = entry.kind

\* The script takes whatever bears the identity, whoever installed it.
TakeAway(resource) == place' = place \ {resource} /\ twin' = twin \ {resource.kind}

Created(actions) == {[kind |-> actions[i].kind, id |-> actions[i].id] :
                         i \in {j \in DOMAIN actions : actions[j].own}}
Recorded == IF disk = NoJournal THEN {} ELSE Created(disk.actions)

\* The file is replaced as a whole, or not at all.
WriteJournal(actions) == disk' = [actions |-> actions]

Fault == faults < MaxNetworkFaults /\ faults' = faults + 1
NoFault == UNCHANGED faults

GoOn(step, i, bad) == pc' = step /\ index' = i /\ failed' = bad /\ UNCHANGED call

\* The call returns and gives the mutex back; "value" was its local variable.
EndCall == pc' = "idle" /\ index' = 0 /\ failed' = FALSE /\ value' = <<>> /\ UNCHANGED call

-----------------------------------------------------------------------------
(* Recovery: recoverNetworkState, recoverLocked, rollbackLocked *)

\* What a call does once nothing is left to undo, or once the recovery failed.
Recovered(ok) ==
    CASE call = "activate" /\ ok ->
            GoOn("adapter", 0, FALSE) /\ value' = <<>> /\ UNCHANGED <<manager, alive>>
      [] call = "rebind" /\ ok ->
            /\ manager' = [manager EXCEPT !.active = FALSE]
            /\ GoOn("adapter", 0, FALSE) /\ value' = <<>> /\ UNCHANGED alive
      [] call = "recover" /\ ok -> EndCall /\ manager' = NoManager /\ alive' = TRUE
      [] call = "recover" /\ ~ok -> EndCall /\ manager' = NoManager /\ alive' = FALSE
      [] call = "shutdown" -> EndCall /\ manager' = NoManager /\ alive' = FALSE
      [] call \in {"prepare", "deactivate"} /\ ok -> EndCall /\ manager' = NoManager /\ UNCHANGED alive
      [] OTHER -> EndCall /\ UNCHANGED <<manager, alive>>

\* readJournal: without a file only orphaned firewall rules are looked for.
ReadJournal ==
    /\ pc = "read"
    /\ \/ /\ disk = NoJournal
          /\ GoOn("orphans", 0, FALSE) /\ UNCHANGED <<value, manager, alive>> /\ NoFault
       \/ /\ disk # NoJournal
          /\ value' = disk.actions
          /\ GoOn("undo", Len(disk.actions), FALSE)
          /\ UNCHANGED <<manager, alive>> /\ NoFault
       \/ Fault /\ Recovered(FALSE)
    /\ UNCHANGED <<system, disk, sessions, adapters>>

\* Mutant: the entry before a failed one is skipped.
KeepTwoEntries(i) == GoOn("undo", i - 2, TRUE)

\* A failed undo keeps its entry in the journal and the rollback goes on.
KeepEntry(i) == GoOn("undo", i - 1, TRUE)

\* One undo, from the last entry to the first.  A failure keeps the entry and
\* goes on with the next; a command may fail after it has had its effect.
Undo ==
    /\ pc = "undo" /\ index > 0
    /\ LET entry == value[index]
           resource == [kind |-> entry.kind, id |-> entry.id]
       IN \/ /\ ~entry.own
             /\ GoOn("forget", index, failed) /\ UNCHANGED <<place, twin>> /\ NoFault
          \/ /\ entry.own /\ ~UndoRefused(entry)
             /\ TakeAway(resource)
             /\ GoOn("forget", index, failed) /\ NoFault
          \/ /\ entry.own /\ UndoRefused(entry)
             /\ KeepEntry(index) /\ UNCHANGED <<place, twin>> /\ NoFault
          \/ /\ entry.own /\ Fault
             /\ TakeAway(resource) \/ UNCHANGED <<place, twin>>
             /\ KeepEntry(index)
    /\ UNCHANGED <<conflict, adapter, disk, manager, value, alive, sessions, adapters>>

\* The entry leaves the journal; the last one leaves with the file.
ForgetEntry ==
    /\ pc = "forget"
    /\ value' = RemoveAt(value, index)
    /\ \/ /\ Len(value) > 1
          /\ WriteJournal(value')
          /\ GoOn("undo", index - 1, failed) /\ NoFault
       \/ /\ Len(value) = 1
          /\ GoOn("undo", index - 1, failed) /\ UNCHANGED disk /\ NoFault
       \/ /\ Len(value) > 1 /\ Fault
          /\ GoOn("undo", 0, TRUE) /\ UNCHANGED disk
    /\ UNCHANGED <<system, manager, alive, sessions, adapters>>

\* The end of rollbackLocked: the journal is removed when every undo succeeded.
\* After a failed activation the caller gets the error either way; a recovery
\* goes on to the orphans.
EndRollback ==
    /\ pc = "undo" /\ index = 0
    /\ \/ /\ failed
          /\ UNCHANGED disk /\ NoFault
          /\ IF call = "failing" THEN EndCall /\ UNCHANGED <<manager, alive>> ELSE Recovered(FALSE)
       \/ /\ ~failed
          /\ disk' = NoJournal /\ NoFault
          /\ IF call = "failing" THEN EndCall ELSE GoOn("orphans", 0, FALSE) /\ UNCHANGED value
          /\ UNCHANGED <<manager, alive>>
       \/ /\ ~failed /\ Fault
          /\ UNCHANGED disk
          /\ IF call = "failing" THEN EndCall /\ UNCHANGED <<manager, alive>> ELSE Recovered(FALSE)
    /\ UNCHANGED <<system, sessions, adapters>>

\* cleanupOrphanedFirewallRules: every rule that bears Navo's name goes.
CleanOrphans ==
    /\ pc = "orphans"
    /\ \/ /\ place' = {r \in place : r.kind # Firewall}
          /\ NoFault /\ Recovered(TRUE)
       \/ /\ Fault /\ UNCHANGED place /\ Recovered(FALSE)
    /\ UNCHANGED <<twin, conflict, adapter, disk, sessions, adapters>>

-----------------------------------------------------------------------------
(* Activation: activateLocked after its recovery *)

\* Mutant: the operation that failed is left out of the rollback.
FailActivationWithoutLast(actions) ==
    /\ value' = actions
    /\ pc' = "undo" /\ index' = (IF actions = <<>> THEN 0 ELSE Len(actions) - 1)
    /\ failed' = FALSE /\ call' = "failing"

\* activationFailure: undo what the journal in memory lists.
FailActivation(actions) ==
    /\ value' = actions
    /\ pc' = "undo" /\ index' = Len(actions) /\ failed' = FALSE /\ call' = "failing"

\* WaitForAdapterReady, and the empty journal of the new session.
AdapterReady ==
    /\ pc = "adapter"
    /\ \/ /\ adapter # 0
          /\ manager' = [manager EXCEPT !.adapter = adapter]
          /\ WriteJournal(<<>>) /\ value' = <<>>
          /\ GoOn("inspect", 1, FALSE) /\ NoFault
       \/ adapter = 0 /\ EndCall /\ UNCHANGED <<disk, manager>> /\ NoFault
       \/ adapter # 0 /\ Fault /\ EndCall /\ UNCHANGED <<disk, manager>>
    /\ UNCHANGED <<system, alive, sessions, adapters>>

NextOperation(i) ==
    IF i < Len(PlanOperations) THEN GoOn("inspect", i + 1, FALSE) ELSE GoOn("verify", 0, FALSE)

\* Mutant: a resource that was there already is written down as Navo's.
NotedAsOwn(kind, found) == [kind |-> kind, id |-> IdOf(kind), own |-> TRUE]

\* The entry of an operation: Navo creates only what is missing.
Noted(kind, found) == [kind |-> kind, id |-> IdOf(kind), own |-> found = "MISSING"]

\* The operation is inspected and written down before anything is applied; what
\* is there already is written down as not Navo's.
Inspect ==
    /\ pc = "inspect"
    /\ LET kind == PlanOperations[index]
           found == Inspection(kind)
           noted == Append(value, Noted(kind, found))
       IN \/ /\ found # "error"
             /\ value' = noted /\ WriteJournal(noted)
             /\ IF found = "EXACT" THEN NextOperation(index) ELSE GoOn("apply", index, FALSE)
             /\ NoFault
          \/ /\ found # "error" /\ Fault
             /\ FailActivation(noted) /\ UNCHANGED disk
          \/ /\ found = "error"
             /\ FailActivation(value) /\ UNCHANGED disk /\ NoFault
    /\ UNCHANGED <<system, manager, alive, sessions, adapters>>

\* The resource is installed and the entry marked applied.  Recovery does not
\* read that mark, so the write matters only when it fails.
Apply ==
    /\ pc = "apply"
    /\ LET kind == PlanOperations[index]
           possible == kind \in AdapterBound => adapter = manager.adapter
           installed == place \cup {Resource(kind)}
       IN \/ /\ possible
             /\ place' = installed /\ NextOperation(index) /\ UNCHANGED value /\ NoFault
          \/ /\ possible /\ Fault
             /\ place' \in {place, installed} /\ FailActivation(value)
          \/ /\ ~possible
             /\ FailActivation(value) /\ UNCHANGED place /\ NoFault
    /\ UNCHANGED <<twin, conflict, adapter, disk, manager, alive, sessions, adapters>>

\* VerifyControlPlane, after which the manager calls itself active.
Verify ==
    /\ pc = "verify"
    /\ \/ manager' = [manager EXCEPT !.active = TRUE] /\ EndCall /\ NoFault
       \/ FailActivation(value) /\ UNCHANGED manager /\ Fault
    /\ UNCHANGED <<system, disk, alive, sessions, adapters>>

-----------------------------------------------------------------------------
(* The calls of the Service.  captureMu and the mutex of the manager let one   *)
(* of them run at a time.                                                      *)

Begin(why) == pc' = "read" /\ call' = why /\ index' = 0 /\ failed' = FALSE /\ value' = <<>>

Unbound == {r \in place : r.kind \notin AdapterBound}

\* Run: recovery comes before the first core.
Start ==
    /\ ~alive /\ pc = "idle"
    /\ manager' = RecoveryManager /\ Begin("recover")
    /\ UNCHANGED <<system, disk, alive, counters>>

ServiceIdle == alive /\ pc = "idle"

\* prepareCaptureLocked: the core stops before the routes are undone; its adapter
\* goes with it, or stays disabled until it is destroyed (AdapterGone).
Prepare ==
    /\ ServiceIdle
    /\ manager' = IF manager = NoManager THEN RecoveryManager ELSE manager
    /\ \/ adapter' = 0 /\ place' = Unbound
       \/ UNCHANGED <<adapter, place>>
    /\ Begin("prepare")
    /\ UNCHANGED <<twin, conflict, disk, alive, counters>>

\* prepareTUNLocked, which follows a Prepare that succeeded: preflight, plan and
\* core start may each fail and leave their manager behind.
PrepareTUN ==
    /\ ServiceIdle /\ manager = NoManager /\ adapter = 0 /\ sessions < MaxSession
    /\ sessions' = sessions + 1 /\ UNCHANGED faults
    /\ \/ /\ manager' \in {RecoveryManager, [RecoveryManager EXCEPT !.session = sessions']}
          /\ UNCHANGED <<progress, value, adapter, adapters>>
       \/ /\ adapters < MaxAdapter
          /\ manager' = [RecoveryManager EXCEPT !.session = sessions']
          /\ adapters' = adapters + 1 /\ adapter' = adapters'
          /\ Begin("activate")
    /\ UNCHANGED <<place, twin, conflict, disk, alive>>

\* rollbackCaptureLocked: the routes are undone before the core stops.
Deactivate ==
    /\ ServiceIdle /\ manager # NoManager
    /\ Begin("deactivate")
    /\ UNCHANGED <<system, disk, manager, alive, counters>>

\* A swap of the core under an active TUN: the adapter comes back as another one.
Rebind ==
    /\ ServiceIdle /\ manager # NoManager /\ manager.session # 0 /\ adapters < MaxAdapter
    /\ adapters' = adapters + 1 /\ adapter' \in {0, adapters'} /\ place' = Unbound
    /\ Begin("rebind")
    /\ UNCHANGED <<twin, conflict, disk, manager, alive, sessions, faults>>

Shutdown ==
    /\ ServiceIdle
    /\ \/ manager # NoManager /\ Begin("shutdown") /\ UNCHANGED <<manager, alive>>
       \/ /\ manager = NoManager
          /\ alive' = FALSE /\ UNCHANGED <<progress, value, manager>>
    /\ UNCHANGED <<system, disk, counters>>

-----------------------------------------------------------------------------
(* The environment *)

\* The Service dies; its adapter may outlive it until the core ends too.
ServiceCrashes ==
    /\ alive \/ pc # "idle"
    /\ Fault
    /\ alive' = FALSE /\ manager' = NoManager /\ EndCall
    /\ UNCHANGED <<system, disk, sessions, adapters>>

\* The core ends and Windows drops the routes of its adapter.
AdapterGone ==
    /\ adapter # 0
    /\ adapter' = 0 /\ place' = Unbound
    /\ UNCHANGED <<twin, conflict, disk, manager, value, progress, alive, counters>>

\* Other programs add a resource that stands in the way, and take theirs back.
OtherProgram ==
    /\ \E kind \in Kinds \ {Firewall} :
          \/ conflict' = conflict \cup {kind} /\ UNCHANGED twin
          \/ conflict' = conflict \ {kind} /\ UNCHANGED twin
          \/ twin' = twin \ {kind} /\ UNCHANGED conflict
    /\ UNCHANGED <<place, adapter, disk, manager, value, progress, alive, counters>>

Step == ReadJournal \/ Undo \/ ForgetEntry \/ EndRollback \/ CleanOrphans
        \/ AdapterReady \/ Inspect \/ Apply \/ Verify

Request == Start \/ Prepare \/ PrepareTUN \/ Deactivate \/ Rebind \/ Shutdown

NetworkNext == Step \/ Request \/ ServiceCrashes \/ AdapterGone \/ OtherProgram

NetworkSpec == NetworkInit /\ [][NetworkNext]_networkVars

-----------------------------------------------------------------------------
(* Properties *)

NetworkTypeOK ==
    /\ place \subseteq Resources /\ twin \subseteq Routes /\ conflict \subseteq Kinds
    /\ adapter \in 0 .. MaxAdapter
    /\ disk = NoJournal \/ disk \in Journal
    /\ manager = NoManager \/ manager \in Manager
    /\ value \in Seq(Entries)
    /\ pc \in {"idle", "read", "undo", "forget", "orphans", "adapter", "inspect", "apply", "verify"}
    /\ call \in Calls /\ index \in Nat /\ failed \in BOOLEAN /\ alive \in BOOLEAN
    /\ sessions \in 0 .. MaxSession /\ adapters \in 0 .. MaxAdapter /\ faults \in 0 .. MaxNetworkFaults

\* What another program had installed and an activation found ready is left to
\* it: no step of the manager removes it (manager.go:121-134, 343).
OthersKept == [][Step => twin' = twin]_networkVars

\* A deactivation or a recovery that reports success has left neither a resource
\* of Navo's nor a journal (manager.go:238-270).
CleanIsClean ==
    [][manager # NoManager /\ manager' = NoManager /\ alive' => place' = {} /\ disk' = NoJournal]_networkVars

NetworkIsClean == OthersKept /\ CleanIsClean

\* The journal on disk and the resources in the system are a ledger: whatever Navo
\* has put into the system is recorded on disk as Navo's, before it is installed,
\* between any two commands and after a crash at any of them (manager.go:118-160,
\* 315-374).
Ledger == INSTANCE ResourceLedger WITH recorded <- Recorded, installed <- place
LedgerRefined == Ledger!LedgerSpec
=============================================================================
