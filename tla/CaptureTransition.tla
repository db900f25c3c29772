------------------------- MODULE CaptureTransition -------------------------
(***************************************************************************)
(* The Agent's capture transaction, internal/agent/capture_transition.go:  *)
(* switching the machine between off, system proxy and TUN, with the       *)
(* journal on disk, the recovery at startup and the self-heal.             *)
(*                                                                         *)
(* One transaction runs at a time (TransactionGate is what the coordinator *)
(* promises); what competes with it holds no transaction: the health       *)
(* monitor, readiness checks, the dashboard, the core and crashes.         *)
(*                                                                         *)
(* Abstractions.  A call of Service capture.prepare is two steps, begun    *)
(* and answered; the Service itself is CoreSupervisor's subject.  Every    *)
(* error path of a step (an expired context, a full disk, a refused call)  *)
(* is one alternative of it.  Phases, readiness evidence and adapters are  *)
(* left out of the snapshot: no decision of a transaction reads them.      *)
(* Refusing TUN without elevation is EnterRefused.  The warm lease is the  *)
(* Service's and leaves capture off.                                       *)
(***************************************************************************)
EXTENDS Integers, FiniteSets

CONSTANTS
  Rounds,      \* selfheal.MaxRepairRounds
  Asked,       \* bound of the model: what users ask for, a subset of Requests
  MaxWaiting,  \* bound of the model: user requests that wait at once
  MaxReads,    \* bound of the model: readers outside a transaction
  Races        \* the interferences of this instance, a subset of Interferences

Interferences == {"crash", "break", "readiness", "dashboard", "supersession"}

ASSUME RoundsAssumption  == Rounds \in Nat \ {0}
ASSUME WaitingAssumption == MaxWaiting \in Nat \ {0}
ASSUME ReadsAssumption   == MaxReads \in Nat
ASSUME RacesAssumption   == Races \subseteq Interferences

VARIABLES
  life,      \* the launcher process
  snap,      \* Agent.captureState
  journal,   \* the transition journal on disk
  proxy,     \* Windows' system proxy points at Navo
  svc,       \* what the Service has in place
  tunFault,  \* the Service holds a TUN fault
  startup,   \* the recovery at startup
  requests,  \* user requests that wait in the coordinator
  run,       \* the transaction in progress and where it is
  heals,     \* self-heal attempts that have not asked for a transaction yet
  check,     \* snapshots held by readiness checks outside a transaction
  dash,      \* the dashboard's refresh of the capture fault
  reads,     \* readers so far
  released   \* history: the last word the user was given is off

machine == <<life, proxy, svc, tunFault>>
inputs  == <<startup, requests, heals>>
readers == <<check, dash, reads>>
vars    == <<machine, snap, journal, inputs, run, readers, released>>

-----------------------------------------------------------------------------
(* Types *)

Captures == {"system_proxy", "tun"}
Modes    == {"off"} \cup Captures

RunningState(mode)  == CASE mode = "tun"          -> "running_tun"
                         [] mode = "system_proxy" -> "running_system_proxy"
                         [] OTHER                 -> "stopped"

StartingState(mode) == CASE mode = "tun"          -> "starting_tun"
                         [] mode = "system_proxy" -> "starting_system_proxy"
                         [] OTHER                 -> "stopping"

States == {RunningState(m) : m \in Modes} \cup {StartingState(m) : m \in Modes}
            \cup {"recovering", "faulted"}

Snapshot(state, desired, committed, fault) ==
  [state |-> state, desired |-> desired, committed |-> committed, fault |-> fault]

Snapshots == [state : States, desired : Modes, committed : Modes,
              fault : {"none", "agent", "service"}]

InitialSnapshot == Snapshot("stopped", "off", "off", "none")

NoJournal == [from |-> "off", to |-> "none", committed |-> FALSE]
Journals  == [from : Modes, to : Modes, committed : BOOLEAN] \cup {NoJournal}

(* "dirty": in the middle of a call, or left behind by a failed one;       *)
(* "broken": the core or the adapter of an active capture is gone.         *)
ServiceStates == Modes \cup {"dirty", "broken"}

Requests == Modes \cup {"restart"}

ASSUME AskedAssumption == Asked \subseteq Requests

Ops      == Requests \cup {"idle", "startup", "heal", "other"}
Stages   == {"only", "stop", "start", "rollback"}
Places   == {"enter", "reenter", "begun", "prepare", "preparing", "proxy", "check",
             "commit", "clear", "publish", "failing", "release", "prepareOff",
             "preparingOff", "unjournal", "settle", "verify", "none"}

(* op: who owns the transaction; stage: which transition of it runs; at:   *)
(* where that transition is; mode: the mode a repair or a restart is for;  *)
(* target and from: of the running transition; committed: the flag of its  *)
(* journal; why and clean: of the running release; round: of the repair.   *)
Runs == [op : Ops, stage : Stages, at : Places, mode : Modes, target : Modes,
         from : Modes, committed : BOOLEAN,
         why : {"none", "failure", "recovery", "closed"}, clean : BOOLEAN,
         round : 0 .. Rounds + 1]

Idle == [op |-> "idle", stage |-> "only", at |-> "none", mode |-> "off",
         target |-> "off", from |-> "off", committed |-> FALSE, why |-> "none",
         clean |-> TRUE, round |-> 0]

Free == run = Idle
Up   == life = "up"

TypeOK ==
  /\ life \in {"up", "down"}
  /\ snap \in Snapshots
  /\ journal \in Journals
  /\ proxy \in BOOLEAN
  /\ svc \in ServiceStates
  /\ tunFault \in BOOLEAN
  /\ startup \in {"due", "queued", "running", "done"}
  /\ requests \subseteq Requests
  /\ run \in Runs
  /\ heals \subseteq Captures
  /\ check \subseteq Snapshots
  /\ dash \in {"idle", "fetched", "read"}
  /\ reads \in 0 .. MaxReads
  /\ released \in BOOLEAN

Init ==
  /\ life = "up"
  /\ snap = InitialSnapshot
  /\ journal = NoJournal
  /\ proxy = FALSE
  /\ svc = "off"
  /\ tunFault = FALSE
  /\ startup = "due"
  /\ requests = {}
  /\ run = Idle
  /\ heals = {}
  /\ check = {}
  /\ dash = "idle"
  /\ reads = 0
  /\ released = FALSE

-----------------------------------------------------------------------------
(* How a transition ends.  The continuation is the code of the owner that  *)
(* follows its call of transitionCaptureModeLocked; snapNow is the         *)
(* snapshot it reads.                                                      *)

Finish == run' = Idle

Transit(stage, target) ==
  run' = [Idle EXCEPT !.op = run.op, !.mode = run.mode, !.round = run.round,
                      !.stage = stage, !.target = target, !.at = "enter"]

FailClosed ==
  run' = [Idle EXCEPT !.op = run.op, !.mode = run.mode, !.round = run.round,
                      !.at = "release", !.why = "closed"]

(* executeCaptureRepair, which first turns capture off unless it is.       *)
Repair(snapNow, op, mode, round) ==
  LET stage == IF snapNow.committed = "off" THEN "start" ELSE "stop" IN
  run' = [Idle EXCEPT !.op = op, !.mode = mode, !.round = round, !.stage = stage,
                      !.target = IF stage = "stop" THEN "off" ELSE mode,
                      !.at = "enter"]

(* Mutants: the bound on rounds is forgotten; the round is not counted.    *)
NextRoundUnbounded(snapNow) == Repair(snapNow, "heal", run.mode, run.round + 1)
NextRoundUncounted(snapNow) == Repair(snapNow, "heal", run.mode, run.round)

(* The round is over without success: the next one, a failover candidate   *)
(* (one more attempt to activate, after the last round) or fail closed.    *)
NextRound(snapNow) ==
  \/ run.round < Rounds /\ Repair(snapNow, "heal", run.mode, run.round + 1)
  \/ /\ run.round = Rounds
     /\ run' = [Idle EXCEPT !.op = "heal", !.mode = run.mode, !.round = Rounds + 1,
                            !.stage = "start", !.target = run.mode, !.at = "enter"]
  \/ run.round >= Rounds /\ FailClosed

FailedActivation(snapNow, mode) ==
  /\ snapNow.state = "faulted"
  /\ snapNow.desired = mode
  /\ snapNow.committed = "off"

(* transitionCaptureModeWithOrigin after the transition: a failed          *)
(* activation may be handed to self-heal once the transaction is finished. *)
AfterSwitch(ok, snapNow) ==
  /\ Finish
  /\ released' = (released \/ (ok /\ run.target = "off" /\ requests \cap Captures = {}))
  /\ \/ UNCHANGED heals
     \/ /\ ~ok /\ run.target # "off" /\ FailedActivation(snapNow, run.target)
        /\ heals' = heals \cup {run.target}

AfterRestart(ok) ==
  /\ IF ok /\ run.stage = "stop" THEN Transit("start", run.mode) ELSE Finish
  /\ UNCHANGED <<heals, released>>

AfterRepair(ok, snapNow) ==
  /\ CASE run.stage = "rollback"     -> NextRound(snapNow)
       [] run.stage = "stop" /\ ok   -> Transit("start", run.mode)
       [] run.stage = "start" /\ ok  -> run' = [run EXCEPT !.at = "verify"]
       [] OTHER                      -> Transit("rollback", "off")
  /\ UNCHANGED <<heals, released>>

Return(ok, snapNow) ==
  /\ \/ run.op \in Modes /\ AfterSwitch(ok, snapNow)
     \/ run.op = "restart" /\ AfterRestart(ok)
     \/ run.op = "heal" /\ AfterRepair(ok, snapNow)
  /\ UNCHANGED <<startup, requests>>

Goto(place) == run' = [run EXCEPT !.at = place]

-----------------------------------------------------------------------------
(* transitionCaptureModeLockedWithOptions *)

(* The context is done, TUN is not allowed or the journal cannot be        *)
(* written: nothing has been touched.                                      *)
EnterRefused ==
  /\ run.at \in {"enter", "reenter"}
  /\ Return(FALSE, snap)
  /\ UNCHANGED <<machine, snap, journal, readers>>

(* Mutant: a faulted snapshot is not recovered first.                      *)
UnsettledRecovering == snap.state = "recovering"

Unsettled == snap.state \in {"recovering", "faulted"}

(* recoverCaptureLocked up to its cleanup. *)
Recover(next) ==
  /\ snap' = Snapshot("recovering",
                IF journal # NoJournal /\ ~journal.committed THEN journal.to ELSE "off",
                "off", "none")
  /\ run' = [next EXCEPT !.at = "release", !.why = "recovery", !.clean = TRUE]

EnterRecovers ==
  /\ run.at = "enter" /\ Unsettled
  /\ Recover(run)
  /\ UNCHANGED <<machine, journal, inputs, readers, released>>

Settled(mode) ==
  snap = Snapshot(RunningState(mode), mode, mode, "none")

EnterIdempotent ==
  /\ run.at = "reenter" \/ (run.at = "enter" /\ ~Unsettled)
  /\ Settled(run.target)
  /\ Return(TRUE, snap)
  /\ UNCHANGED <<machine, snap, journal, readers>>

(* Mutant: the journal is not written.                                     *)
EnterUnjournaled ==
  /\ run.at = "reenter" \/ (run.at = "enter" /\ ~Unsettled)
  /\ ~Settled(run.target)
  /\ run' = [run EXCEPT !.from = snap.committed, !.committed = FALSE, !.at = "begun"]
  /\ UNCHANGED <<machine, snap, journal, inputs, readers, released>>

EnterJournals ==
  /\ run.at = "reenter" \/ (run.at = "enter" /\ ~Unsettled)
  /\ ~Settled(run.target)
  /\ journal' = [from |-> snap.committed, to |-> run.target, committed |-> FALSE]
  /\ run' = [run EXCEPT !.from = snap.committed, !.committed = FALSE, !.at = "begun"]
  /\ UNCHANGED <<machine, snap, inputs, readers, released>>

Begun ==
  /\ run.at = "begun"
  /\ snap' = Snapshot(StartingState(run.target), run.target, run.from, "none")
  /\ Goto("prepare")
  /\ UNCHANGED <<machine, journal, inputs, readers, released>>

(* A step could not be recorded, or the Service refused the call. *)
PrepareRefused ==
  /\ run.at = "prepare"
  /\ Goto("failing")
  /\ UNCHANGED <<machine, snap, journal, inputs, readers, released>>

Prepare ==
  /\ run.at = "prepare"
  /\ svc' = "dirty"
  /\ Goto("preparing")
  /\ UNCHANGED <<life, proxy, tunFault, snap, journal, inputs, readers, released>>

Prepared ==
  /\ run.at = "preparing"
  /\ svc' = run.target
  /\ tunFault' = FALSE
  /\ Goto("proxy")
  /\ UNCHANGED <<life, proxy, snap, journal, inputs, readers, released>>

(* The Service has rolled back, or has failed to. *)
PrepareFailed ==
  /\ run.at = "preparing"
  /\ svc' \in {"off", "dirty"}
  /\ tunFault' = (run.target = "tun")
  /\ Goto("failing")
  /\ UNCHANGED <<life, proxy, snap, journal, inputs, readers, released>>

ApplyProxy ==
  /\ run.at = "proxy"
  /\ proxy' = (run.target = "system_proxy")
  /\ Goto(IF run.target = "off" THEN "commit" ELSE "check")
  /\ UNCHANGED <<life, svc, tunFault, snap, journal, inputs, readers, released>>

(* Enable failed or its ownership check did; or Disable failed.            *)
ApplyProxyFailed ==
  /\ run.at = "proxy"
  /\ proxy' \in {FALSE, proxy \/ run.target = "system_proxy"}
  /\ Goto("failing")
  /\ UNCHANGED <<life, svc, tunFault, snap, journal, inputs, readers, released>>

(* The probe is real traffic: it passes only through what is in place. *)
Check ==
  /\ run.at = "check"
  /\ \/ svc = run.target /\ Goto("commit")
     \/ Goto("failing")
  /\ UNCHANGED <<machine, snap, journal, inputs, readers, released>>

Commit ==
  /\ run.at = "commit"
  /\ \/ /\ journal' = [journal EXCEPT !.committed = TRUE]
        /\ run' = [run EXCEPT !.committed = TRUE, !.at = "clear"]
     \/ /\ run' = [run EXCEPT !.committed = TRUE, !.at = "failing"]
        /\ UNCHANGED journal
  /\ UNCHANGED <<machine, snap, inputs, readers, released>>

Clear ==
  /\ run.at = "clear"
  /\ \/ journal' = NoJournal /\ Goto("publish")
     \/ UNCHANGED journal /\ Goto("failing")
  /\ UNCHANGED <<machine, snap, inputs, readers, released>>

Publish ==
  /\ run.at = "publish"
  /\ snap' = Snapshot(RunningState(run.target), run.target, run.target, "none")
  /\ Return(TRUE, snap')
  /\ UNCHANGED <<machine, journal, readers>>

(* captureFailure up to its cleanup; the error of Save is ignored. *)
Failing ==
  /\ run.at = "failing"
  /\ snap' = [snap EXCEPT !.state = "recovering"]
  /\ journal' \in {journal, [from |-> run.from, to |-> run.target,
                             committed |-> run.committed]}
  /\ run' = [run EXCEPT !.at = "release", !.why = "failure", !.clean = TRUE]
  /\ UNCHANGED <<machine, inputs, readers, released>>

-----------------------------------------------------------------------------
(* The cleanup captureFailure, recoverCaptureLocked and failClosedRecovery *)
(* share: take the proxy back, turn the Service off, and clear the journal *)
(* if both were done.                                                      *)

ReleaseProxy ==
  /\ run.at = "release"
  /\ \/ proxy' = FALSE /\ Goto("prepareOff")
     \/ /\ proxy' \in {FALSE, proxy}
        /\ run' = [run EXCEPT !.clean = FALSE, !.at = "prepareOff"]
  /\ UNCHANGED <<life, svc, tunFault, snap, journal, inputs, readers, released>>

PrepareOff ==
  /\ run.at = "prepareOff"
  /\ \/ svc' = "dirty" /\ Goto("preparingOff")
     \/ /\ run' = [run EXCEPT !.clean = FALSE, !.at = "settle"]
        /\ UNCHANGED svc
  /\ UNCHANGED <<life, proxy, tunFault, snap, journal, inputs, readers, released>>

PreparedOff ==
  /\ run.at = "preparingOff"
  /\ tunFault' = FALSE
  /\ \/ svc' = "off" /\ Goto(IF run.clean THEN "unjournal" ELSE "settle")
     \/ /\ svc' \in {"off", "dirty"}
        /\ run' = [run EXCEPT !.clean = FALSE, !.at = "settle"]
  /\ UNCHANGED <<life, proxy, snap, journal, inputs, readers, released>>

Unjournal ==
  /\ run.at = "unjournal"
  /\ \/ journal' = NoJournal /\ Goto("settle")
     \/ /\ run' = [run EXCEPT !.clean = FALSE, !.at = "settle"]
        /\ UNCHANGED journal
  /\ UNCHANGED <<machine, snap, inputs, readers, released>>

SettleFailure ==
  /\ run.at = "settle" /\ run.why = "failure"
  /\ snap' = Snapshot("faulted", run.target, IF run.clean THEN "off" ELSE run.from, "agent")
  /\ Return(FALSE, snap')
  /\ UNCHANGED <<machine, journal, readers>>

(* Mutant: a recovery that failed is published as one that succeeded.      *)
SettleRecoveryBlindly ==
  /\ run.at = "settle" /\ run.why = "recovery"
  /\ snap' = InitialSnapshot
  /\ IF run.op = "startup"
     THEN Finish /\ startup' = "done" /\ UNCHANGED <<requests, heals, released>>
     ELSE /\ run' = [run EXCEPT !.at = "reenter", !.why = "none"]
          /\ UNCHANGED <<inputs, released>>
  /\ UNCHANGED <<machine, journal, readers>>

(* A recovery ends a startup; a transition it preceded goes on, or fails.  *)
SettleRecovery ==
  /\ run.at = "settle" /\ run.why = "recovery"
  /\ snap' = IF run.clean THEN InitialSnapshot
             ELSE Snapshot("faulted", IF journal = NoJournal THEN "off" ELSE journal.to,
                           "off", "agent")
  /\ IF run.op = "startup"
     THEN /\ Finish
          /\ startup' = "done"
          /\ UNCHANGED <<requests, heals, released>>
     ELSE IF run.clean
     THEN /\ run' = [run EXCEPT !.at = "reenter", !.why = "none"]
          /\ UNCHANGED <<inputs, released>>
     ELSE Return(FALSE, snap')
  /\ UNCHANGED <<machine, journal, readers>>

SettleClosed ==
  /\ run.at = "settle" /\ run.why = "closed"
  /\ snap' = Snapshot("faulted", run.mode, "off", "agent")
  /\ Finish
  /\ UNCHANGED <<machine, journal, inputs, readers, released>>

(* verifyCaptureReadiness inside the repair, which ends in success, or in  *)
(* the rollback of its round.                                              *)
Verify ==
  /\ run.at = "verify"
  /\ \/ snap.committed # "off" /\ svc = run.mode /\ Finish
     \/ Transit("rollback", "off")
  /\ UNCHANGED <<machine, snap, journal, inputs, readers, released>>

TransactionStep ==
  \/ EnterRefused \/ EnterRecovers \/ EnterIdempotent \/ EnterJournals \/ Begun
  \/ PrepareRefused \/ Prepare \/ Prepared \/ PrepareFailed
  \/ ApplyProxy \/ ApplyProxyFailed \/ Check \/ Commit \/ Clear \/ Publish \/ Failing
  \/ ReleaseProxy \/ PrepareOff \/ PreparedOff \/ Unjournal
  \/ SettleFailure \/ SettleRecovery \/ SettleClosed \/ Verify

-----------------------------------------------------------------------------
(* Admission: the requests of users, the recovery at startup, self-heal    *)
(* and the transactions of other parts.  A user's request goes first.      *)

Submit(request) ==
  /\ Up
  /\ request \notin requests /\ Cardinality(requests) < MaxWaiting
  /\ requests' = requests \cup {request}
  /\ released' = (released /\ request \notin Captures)
  /\ IF startup = "queued" /\ ~Free
     THEN "supersession" \in Races /\ startup' = "done"
     ELSE UNCHANGED startup
  /\ UNCHANGED <<machine, snap, journal, run, heals, readers>>

(* setCaptureModeContext and handleConnectionRestart. *)
Admit(request) ==
  /\ Free
  /\ request \in requests
  /\ requests' = requests \ {request}
  /\ IF request \in Modes
     THEN run' = [Idle EXCEPT !.op = request, !.target = request, !.at = "enter"]
     ELSE IF snap.committed = "off" THEN Finish
     ELSE run' = [Idle EXCEPT !.op = "restart", !.mode = snap.committed,
                              !.stage = "stop", !.at = "enter"]
  /\ UNCHANGED <<machine, snap, journal, startup, heals, readers, released>>

StartupQueued ==
  /\ Up
  /\ startup = "due" /\ ~(Free /\ requests = {})
  /\ startup' = "queued"
  /\ UNCHANGED <<machine, snap, journal, requests, run, heals, readers, released>>

(* recoverCaptureOnStartup. *)
StartupRecovery ==
  /\ Up
  /\ startup \in {"due", "queued"}
  /\ Free /\ requests = {}
  /\ startup' = "running"
  /\ Recover([Idle EXCEPT !.op = "startup"])
  /\ UNCHANGED <<machine, journal, requests, heals, readers, released>>

(* A transaction of the core, routing or source domain while capture is    *)
(* off: it leaves capture alone.                                           *)
OtherTransaction ==
  /\ Up
  /\ \/ /\ Free /\ requests = {} /\ startup # "queued"
        /\ snap.committed = "off"
        /\ run' = [Idle EXCEPT !.op = "other"]
     \/ run.op = "other" /\ Finish
  /\ UNCHANGED <<machine, snap, journal, inputs, readers, released>>

(* monitorCaptureHealth after its third failed observation in a row.       *)
MonitorGivesUp ==
  /\ Up /\ startup = "done"
  /\ snap.committed \in Captures \ heals
  /\ heals' = heals \cup {snap.committed}
  /\ UNCHANGED <<machine, snap, journal, startup, requests, run, readers, released>>

(* Mutant: the snapshot is not read again inside the transaction.          *)
StillWantedAsAsked(mode) == mode \in Captures

StillWanted(mode) == snap.committed = mode \/ FailedActivation(snap, mode)

(* recoverUnhealthyCapture.  TryBegin does not wait; the snapshot is read  *)
(* again inside the transaction.                                           *)
HealBusy(mode) ==
  /\ Up
  /\ mode \in heals
  /\ ~(Free /\ requests = {} /\ startup # "queued")
  /\ heals' = heals \ {mode}
  /\ UNCHANGED <<machine, snap, journal, startup, requests, run, readers, released>>

HealBegin(mode) ==
  /\ Up
  /\ mode \in heals
  /\ Free /\ requests = {} /\ startup # "queued"
  /\ heals' = heals \ {mode}
  /\ IF StillWanted(mode)
     THEN \/ Repair(snap, "heal", mode, 1)
          \/ run' = [Idle EXCEPT !.op = "heal", !.mode = mode, !.at = "release",
                                 !.why = "closed"]
     ELSE Finish
  /\ UNCHANGED <<machine, snap, journal, startup, requests, readers, released>>

-----------------------------------------------------------------------------
(* What happens beside the transactions. *)

(* verifyCaptureReadiness for the monitor or the user: the snapshot is     *)
(* read, minutes may pass, and it is written back with new evidence.       *)
CheckReads ==
  /\ Up /\ "readiness" \in Races
  /\ check = {} /\ snap.committed # "off"
  /\ check' = {snap}
  /\ reads < MaxReads /\ reads' = reads + 1
  /\ UNCHANGED <<machine, snap, journal, inputs, run, dash, released>>

CheckWrites ==
  /\ \E held \in check : snap' = held
  /\ check' = {}
  /\ UNCHANGED <<machine, journal, inputs, run, dash, reads, released>>

(* refreshCaptureFault with the tun.status the dashboard fetched before.   *)
DashboardFetches ==
  /\ Up /\ "dashboard" \in Races
  /\ dash = "idle" /\ tunFault
  /\ dash' = "fetched"
  /\ reads < MaxReads /\ reads' = reads + 1
  /\ UNCHANGED <<machine, snap, journal, inputs, run, check, released>>

DashboardReads ==
  /\ dash = "fetched"
  /\ dash' = IF "tun" \in {snap.desired, snap.committed} /\ snap.fault # "service"
             THEN "read" ELSE "idle"
  /\ UNCHANGED <<machine, snap, journal, inputs, run, check, reads, released>>

DashboardWrites ==
  /\ dash = "read"
  /\ snap' = Snapshot("faulted", "tun", "off", "service")
  /\ dash' = "idle"
  /\ UNCHANGED <<machine, journal, inputs, run, check, reads, released>>

(* The core dies or the adapter goes; the Service may report a TUN fault.  *)
Breaks ==
  /\ Up /\ "break" \in Races
  /\ svc \in Captures
  /\ svc' = "broken"
  /\ tunFault' \in {tunFault, svc = "tun"}
  /\ UNCHANGED <<life, proxy, snap, journal, inputs, run, readers, released>>

(* The launcher dies: the proxy setting and the journal stay, and so does  *)
(* what TUN left behind.                                                   *)
Crash ==
  /\ Up /\ "crash" \in Races
  /\ life' = "down"
  /\ svc' = IF svc = "off" THEN "off" ELSE "dirty"
  /\ tunFault' = FALSE
  /\ snap' = InitialSnapshot
  /\ run' = Idle
  /\ requests' = {} /\ heals' = {}
  /\ startup' = "due"
  /\ check' = {} /\ dash' = "idle"
  /\ UNCHANGED <<proxy, journal, reads, released>>

(* Service.Run recovers the network journal before it is ready, and the    *)
(* launcher creates the Agent only then.                                   *)
Boot ==
  /\ life = "down"
  /\ life' = "up"
  /\ svc' = "off"
  /\ UNCHANGED <<proxy, tunFault, snap, journal, inputs, run, readers, released>>

Next ==
  \/ TransactionStep
  \/ \E request \in Asked : Submit(request) \/ Admit(request)
  \/ StartupQueued \/ StartupRecovery \/ OtherTransaction
  \/ MonitorGivesUp
  \/ \E mode \in Captures : HealBusy(mode) \/ HealBegin(mode)
  \/ CheckReads \/ CheckWrites
  \/ DashboardFetches \/ DashboardReads \/ DashboardWrites
  \/ Breaks \/ Crash \/ Boot

Spec == Init /\ [][Next]_vars

-----------------------------------------------------------------------------
(* Safety *)

(* The resources are those of the mode; a core may have died since.        *)
Matches(mode) ==
  /\ proxy = (mode = "system_proxy")
  /\ svc = mode \/ (mode # "off" /\ svc = "broken")

(* Nothing is pending from before the launcher was started. *)
Reconciled == startup = "done" \/ (startup # "running" /\ snap.committed # "off")

(* The snapshot is "the authoritative capture lifecycle": between          *)
(* transactions it is faulted, or it names one mode, the proxy and the     *)
(* Service are in that mode, and no journal is left.                       *)
SnapshotIsTrue ==
  Up /\ Free /\ Reconciled /\ snap.state # "faulted"
    => \E mode \in Modes : Settled(mode) /\ Matches(mode) /\ journal = NoJournal

(* A transition starts from what the snapshot says is there: the leftovers *)
(* of a failed one are gone before the next begins.                        *)
StartsClean ==
  run.at = "begun" /\ startup = "done" => Settled(run.from) /\ Matches(run.from)

(* "Written before mutation": the proxy is only ever pointed at Navo, and  *)
(* the Service only ever captures, under an open journal that says so.     *)
MutationJournaled ==
  [][/\ proxy' /\ ~proxy => journal.to = "system_proxy" /\ ~journal.committed
     /\ svc' \in Captures /\ svc' # svc => journal.to = svc' /\ ~journal.committed]_vars

(* Once the user was told that capture is off, and has not asked for it    *)
(* again, it stays off: no repair, retry or recovery brings it back.       *)
OffHolds ==
  [][released /\ released' => (proxy' => proxy) /\ (svc' \in Captures => svc' = svc)]_vars

(* The journal is "cleared only after commit or successful safe rollback": *)
(* whatever interferes with the snapshot, a proxy left on beside an active *)
(* TUN still has its journal between transactions.                         *)
LeftoversJournaled == Free /\ proxy /\ svc = "tun" => journal # NoJournal

(* The journal covers every mutation, and what a mutation left behind.     *)
JournalCovers == MutationJournaled /\ []LeftoversJournaled

(* "A stale or incorrectly scoped Service fault must never rewrite an      *)
(* OFF/System Proxy transaction into a retryable TUN failure."             *)
FaultStaysWithTun ==
  [][snap'.fault = "service" /\ snap.fault # "service"
       => "tun" \in {snap.desired, snap.committed}]_vars

(* "Make the first proxy/TUN click start from a reconciled off state."     *)
FirstClickReconciled ==
  run.at = "begun" /\ run.op \in Captures => startup \in {"running", "done"}

-----------------------------------------------------------------------------
(* Liveness.  A transaction is a goroutine whose calls all have deadlines, *)
(* so its steps are fair; so are the admission of what waits, which Finish *)
(* does, and the monitor's ticker while a capture stays broken.            *)

Broken == svc = "broken" /\ proxy

MonitorNotices == Broken /\ MonitorGivesUp

Fairness ==
  /\ WF_vars(TransactionStep)
  /\ WF_vars(OtherTransaction /\ ~Free)
  /\ \A request \in Requests : WF_vars(Admit(request))
  /\ WF_vars(StartupRecovery)
  /\ WF_vars(MonitorNotices)
  /\ \A mode \in Captures : WF_vars(HealBegin(mode))

FairSpec == Spec /\ Fairness

(* Every transaction ends: the repair with its rounds, its rollbacks and   *)
(* the recoveries in them included.                                        *)
TransactionEnds == ~Free ~> Free

(* A proxy that points at a dead core is not left alone: it is repaired or *)
(* taken back, or the fault is shown, or the user asks for something else, *)
(* or the launcher is gone.                                                *)
BrokenIsNoticed ==
  Broken /\ Up /\ startup = "done"
    ~> ~Broken \/ snap.state = "faulted" \/ requests # {} \/ ~Up

CaptureSettles == TransactionEnds /\ BrokenIsNoticed
============================================================================
