------------------------ MODULE CaptureTransitionProofs ------------------------
(* Theorems about CaptureTransition, for every number of repair rounds and *)
(* of waiting requests; those that speak of the snapshot hold as long as   *)
(* nothing writes it outside of a transaction.                             *)
EXTENDS CaptureTransition, TLAPS

-----------------------------------------------------------------------------
(* The machine and the journal at each place of a transaction.             *)

Open(committed) == journal = [from |-> run.from, to |-> run.target, committed |-> committed]

ServiceMatches == svc = run.target \/ (run.target # "off" /\ svc = "broken")

(* What is in place is as far as the transition has come, and the journal  *)
(* that covers it is open; a cleanup that went well so far has taken the   *)
(* proxy back, then the Service, then the journal.                         *)
MachineFollows ==
  /\ run.at \in {"begun", "prepare", "preparing", "proxy", "check", "commit"} => Open(FALSE)
  /\ run.at = "proxy" => ServiceMatches
  /\ run.at \in {"check", "commit", "clear", "publish"} => Matches(run.target)
  /\ run.at = "clear" => Open(TRUE)
  /\ run.at = "publish" => journal = NoJournal
  /\ run.at \in {"prepareOff", "preparingOff", "unjournal", "settle"} /\ run.clean => ~proxy
  /\ run.at \in {"unjournal", "settle"} /\ run.clean => svc = "off"
  /\ run.at = "unjournal" => run.clean
  /\ run.at = "settle" /\ run.clean => journal = NoJournal

(* Between transactions too. *)
LeftoversCovered == proxy /\ svc = "tun" => journal # NoJournal

(* Nothing of a launcher outlives it but the proxy and the journal. *)
DownIsIdle ==
  ~Up => /\ run = Idle /\ requests = {} /\ heals = {} /\ check = {} /\ dash = "idle"
         /\ snap = InitialSnapshot /\ startup = "due"

MInv == TypeOK /\ MachineFollows /\ LeftoversCovered

-----------------------------------------------------------------------------
(* The snapshot at each place of a transaction.                            *)

True(mode) == Settled(mode) /\ Matches(mode) /\ journal = NoJournal

(* The snapshot admits that it is wrong, or is true, or is still that of   *)
(* a launcher that has not looked at what it found, nor asked a self-heal  *)
(* for what the journal of its predecessor says.                           *)
SnapshotKnows ==
  \/ snap.state = "faulted"
  \/ \E mode \in Modes : True(mode)
  \/ startup \in {"due", "queued"} /\ snap = InitialSnapshot /\ journal.to \notin heals

Cleanup == {"release", "prepareOff", "preparingOff", "unjournal", "settle"}

SnapshotFollows ==
  /\ run.at \in {"none", "enter", "verify"} => SnapshotKnows
  /\ run.at = "reenter" => True("off")
  /\ run.at = "begun" /\ startup = "done" => Settled(run.from) /\ Matches(run.from)

(* The recovery at startup is a cleanup, and lasts as long as it; a        *)
(* transaction of another domain never begins a transition.                *)
StartupFollows ==
  /\ startup = "running" => run.op = "startup"
  /\ run.op = "startup" => run.at \in Cleanup /\ run.why = "recovery"
  /\ run.op = "other" => run.at = "none"

NobodyElseWrites == check = {} /\ dash = "idle"

(* Once the user was told off, no transition in progress, request,         *)
(* recovery or self-heal aims at a capture.                                *)
OffStays ==
  released => /\ requests \cap Captures = {}
              /\ snap.committed = "off"
              /\ run.target = "off" /\ run.from = "off" /\ run.why # "closed"
              /\ run.op \notin Captures \cup {"restart", "heal"}
              /\ snap.desired \notin heals /\ journal.to \notin heals

SInv == SnapshotFollows /\ StartupFollows /\ NobodyElseWrites

(* The interferences that write the snapshot, or end the recovery at       *)
(* startup, outside of a transaction are absent.                           *)
OnlyTransactionsWrite == Races \cap {"readiness", "dashboard", "supersession"} = {}

-----------------------------------------------------------------------------
(* Where the pieces of the code leave the running transaction.             *)

LEMMA IdleType == Idle \in Runs /\ Idle.at = "none" /\ Idle.op = "idle" /\ Idle.target = "off"
BY RoundsAssumption DEF Idle, Runs, Ops, Requests, Stages, Places, Modes, Captures

LEMMA OwnerType ==
  ASSUME NEW op \in Ops
  PROVE  [Idle EXCEPT !.op = op] \in Runs /\ [Idle EXCEPT !.op = op].at = "none"
<1>1. 0 \in 0 .. Rounds + 1
  BY RoundsAssumption
<1>. QED
  BY <1>1 DEF Idle, Runs, Stages, Places, Modes

LEMMA SnapshotType ==
  ASSUME NEW mode \in Modes
  PROVE  /\ RunningState(mode) \in States /\ StartingState(mode) \in States
         /\ InitialSnapshot \in Snapshots
BY DEF States, RunningState, StartingState, InitialSnapshot, Snapshot, Snapshots, Modes, Captures

(* A repair begins a transition. *)
LEMMA RepairBegins ==
  ASSUME NEW op \in {"heal"}, NEW mode \in Modes, NEW round \in 0 .. Rounds + 1, NEW s, Repair(s, op, mode, round)
  PROVE  run' \in Runs /\ run'.at = "enter" /\ run'.op = op
BY RoundsAssumption DEF Repair, Idle, Runs, Ops, Requests, Stages, Places, Modes, Captures

(* A user's request begins one.                                            *)
LEMMA AdmissionBegins ==
  ASSUME NEW mode \in Modes,
         \/ run' = [Idle EXCEPT !.op = mode, !.target = mode, !.at = "enter"]
         \/ run' = [Idle EXCEPT !.op = "restart", !.mode = mode, !.stage = "stop", !.at = "enter"]
  PROVE  run' \in Runs /\ run'.at = "enter" /\ run'.op \in Requests
<1>1. 0 \in 0 .. Rounds + 1
  BY RoundsAssumption
<1>2. CASE run' = [Idle EXCEPT !.op = mode, !.target = mode, !.at = "enter"]
  BY <1>1, <1>2 DEF Idle, Runs, Ops, Requests, Stages, Places, Modes, Captures
<1>3. CASE run' = [Idle EXCEPT !.op = "restart", !.mode = mode, !.stage = "stop", !.at = "enter"]
  BY <1>1, <1>3 DEF Idle, Runs, Ops, Requests, Stages, Places, Modes, Captures
<1>. QED
  BY <1>2, <1>3

(* A transition that follows another one keeps the owner.                  *)
LEMMA TransitBegins ==
  ASSUME run \in Runs, NEW stage \in Stages, NEW target \in Modes, Transit(stage, target)
  PROVE  run' \in Runs /\ run'.at = "enter" /\ run'.op = run.op
<1>1. run.op \in Ops /\ run.mode \in Modes /\ run.round \in 0 .. Rounds + 1
  BY DEF Runs
<1>2. run' = [op |-> run.op, stage |-> stage, at |-> "enter", mode |-> run.mode, target |-> target, from |-> "off",
              committed |-> FALSE, why |-> "none", clean |-> TRUE, round |-> run.round]
  BY DEF Transit, Idle
<1>3. "enter" \in Places /\ "off" \in Modes
  BY DEF Places, Modes
<1>. QED
  BY <1>1, <1>2, <1>3 DEF Runs

(* After a transition its owner has finished, begins another one, looks    *)
(* whether the repair helped, or gives up and takes everything back.       *)
LEMMA ReturnLeads ==
  ASSUME TypeOK, NEW ok \in BOOLEAN, NEW s, Return(ok, s)
  PROVE  /\ run' \in Runs
         /\ \/ run' = Idle
            \/ run'.at \in {"enter", "verify", "release"} /\ run'.op = run.op
         /\ heals' \subseteq Captures /\ released' \in BOOLEAN
         /\ startup' = startup /\ requests' = requests
         /\ run.op \in Requests \cup {"heal"}
<1>1. run \in Runs /\ heals \subseteq Captures /\ released \in BOOLEAN /\ Rounds \in Nat
  BY RoundsAssumption DEF TypeOK
<1>2. startup' = startup /\ requests' = requests /\ run.op \in Requests \cup {"heal"}
  BY DEF Return, Requests
<1>3. CASE run.op \in Modes /\ AfterSwitch(ok, s)
  <2>1. run' = Idle
    BY <1>3 DEF AfterSwitch, Finish
  <2>2. released' \in BOOLEAN
    BY <1>1, <1>3, Zenon DEF AfterSwitch
  <2>3. heals' \subseteq Captures
    BY <1>1, <1>3 DEF AfterSwitch, Runs, Modes
  <2>. QED
    BY <1>2, <2>1, <2>2, <2>3, IdleType
<1>5. FailClosed => run' \in Runs /\ run'.at = "release" /\ run'.op = run.op
  BY <1>1 DEF FailClosed, Idle, Runs, Stages, Places, Modes, Captures
<1>6. CASE run.op = "restart" /\ AfterRestart(ok)
  <2>1. heals' = heals /\ released' = released
    BY <1>6 DEF AfterRestart
  <2>2. CASE ok /\ run.stage = "stop"
    <3>1. Transit("start", run.mode)
      BY <1>6, <2>2 DEF AfterRestart
    <3>. QED
      BY <1>1, <1>2, <2>1, <3>1, TransitBegins DEF Stages, Runs
  <2>3. CASE ~(ok /\ run.stage = "stop")
    BY <1>1, <1>2, <1>6, <2>1, <2>3, IdleType DEF AfterRestart, Finish
  <2>. QED
    BY <2>2, <2>3
<1>7. CASE run.op = "heal" /\ AfterRepair(ok, s)
  <2>1. heals' = heals /\ released' = released
    BY <1>7 DEF AfterRepair
  <2>2. run.mode \in Modes /\ run.round \in 0 .. Rounds + 1
    BY <1>1 DEF Runs
  <2>3. ASSUME NextRound(s)
        PROVE  run' \in Runs /\ run'.at \in {"enter", "release"} /\ run'.op = run.op
    <3>1. CASE run.round < Rounds /\ Repair(s, "heal", run.mode, run.round + 1)
      <4>1. run.round + 1 \in 0 .. Rounds + 1
        BY <1>1, <2>2, <3>1
      <4>. QED
        BY <1>7, <2>2, <3>1, <4>1, RepairBegins
    <3>2. CASE run' = [Idle EXCEPT !.op = "heal", !.mode = run.mode, !.round = Rounds + 1,
                            !.stage = "start", !.target = run.mode, !.at = "enter"]
      <4>1. Rounds + 1 \in 0 .. Rounds + 1
        BY <1>1
      <4>. QED
        BY <1>7, <2>2, <3>2, <4>1 DEF Idle, Runs, Ops, Stages, Places, Modes, Captures
    <3>3. CASE FailClosed
      BY <1>5, <3>3
    <3>. QED
      BY <2>3, <3>1, <3>2, <3>3 DEF NextRound
  <2>4. CASE run.stage = "rollback"
    BY <1>2, <1>7, <2>1, <2>3, <2>4, <1>1 DEF AfterRepair
  <2>5. CASE run.stage = "stop" /\ ok
    <3>1. Transit("start", run.mode)
      BY <1>7, <2>5 DEF AfterRepair
    <3>. QED
      BY <1>1, <1>2, <2>1, <2>2, <3>1, TransitBegins DEF Stages
  <2>6. CASE run.stage = "start" /\ ok
    <3>1. run' = [run EXCEPT !.at = "verify"]
      BY <1>7, <2>6 DEF AfterRepair
    <3>. QED
      BY <1>1, <1>2, <2>1, <3>1 DEF Runs, Places
  <2>7. CASE run.stage # "rollback" /\ ~(run.stage = "stop" /\ ok) /\ ~(run.stage = "start" /\ ok)
    <3>1. Transit("rollback", "off")
      BY <1>7, <2>7, Zenon DEF AfterRepair
    <3>. QED
      BY <1>1, <1>2, <2>1, <3>1, TransitBegins DEF Stages, Modes
  <2>. QED
    BY <2>4, <2>5, <2>6, <2>7
<1>. QED
  BY <1>3, <1>6, <1>7 DEF Return

LEMMA GotoLeads ==
  ASSUME run \in Runs, NEW place \in Places, Goto(place)
  PROVE  /\ run' \in Runs /\ run'.at = place
         /\ run'.target = run.target /\ run'.from = run.from /\ run'.clean = run.clean
         /\ run'.op = run.op /\ run'.why = run.why
BY DEF Goto, Runs

(* A recovery begins to take everything back. *)
LEMMA RecoverLeads ==
  ASSUME TypeOK, NEW next \in Runs, Recover(next)
  PROVE  /\ run' \in Runs /\ run'.at = "release" /\ run'.op = next.op
         /\ snap' \in Snapshots /\ snap'.state = "recovering"
<1>1. run' = [next EXCEPT !.at = "release", !.why = "recovery", !.clean = TRUE]
  BY DEF Recover
<1>2. run' \in Runs /\ run'.at = "release" /\ run'.op = next.op
  BY <1>1 DEF Runs, Places
<1>3. (IF journal # NoJournal /\ ~journal.committed THEN journal.to ELSE "off") \in Modes
  BY DEF TypeOK, Journals, NoJournal, Modes
<1>4. snap' \in Snapshots /\ snap'.state = "recovering"
  BY <1>3 DEF Recover, Snapshot, Snapshots, States, Modes
<1>. QED
  BY <1>2, <1>4

(* At these places nothing is claimed of the machine. *)
LEMMA NothingClaimed ==
  ASSUME run'.at \in {"none", "enter", "reenter", "verify", "failing", "release"}
  PROVE  MachineFollows'
BY DEF MachineFollows

(* The machine and the journal are left alone by a step that leaves the    *)
(* transaction where it is.                                                *)
LEMMA NothingMoves ==
  ASSUME MachineFollows, LeftoversCovered, UNCHANGED <<run, proxy, svc, journal>>
  PROVE  MachineFollows' /\ LeftoversCovered'
BY DEF MachineFollows, LeftoversCovered, Open, ServiceMatches, Matches

-----------------------------------------------------------------------------
(* MInv is inductive, whatever interferes.                                 *)

LEMMA EnterKeepsMInv ==
  ASSUME MInv, EnterRefused \/ EnterRecovers \/ EnterIdempotent \/ EnterJournals
  PROVE  MInv'
<1>1. TypeOK /\ MachineFollows /\ LeftoversCovered /\ run \in Runs
  BY DEF MInv, TypeOK
<1>2. ASSUME NEW ok \in BOOLEAN, Return(ok, snap), UNCHANGED <<machine, snap, journal, readers>>
      PROVE  MInv'
  <2>1. run' \in Runs /\ run'.at \in {"none", "enter", "verify", "release"}
    BY <1>1, <1>2, ReturnLeads, IdleType
  <2>2. TypeOK'
    BY <1>1, <1>2, <2>1, ReturnLeads DEF TypeOK, machine, readers
  <2>3. MachineFollows' /\ LeftoversCovered'
    BY <1>1, <1>2, <2>1, NothingClaimed DEF LeftoversCovered, machine
  <2>. QED
    BY <2>2, <2>3 DEF MInv
<1>3. CASE EnterRecovers
  <2>1. /\ run' \in Runs /\ run'.at = "release" /\ snap' \in Snapshots
        /\ UNCHANGED <<machine, journal, inputs, readers, released>>
    BY <1>1, <1>3, RecoverLeads DEF EnterRecovers
  <2>2. TypeOK'
    BY <1>1, <2>1 DEF TypeOK, machine, inputs, readers
  <2>3. MachineFollows' /\ LeftoversCovered'
    BY <1>1, <2>1, NothingClaimed DEF LeftoversCovered, machine
  <2>. QED
    BY <2>2, <2>3 DEF MInv
<1>4. CASE EnterJournals
  <2>1. /\ journal' = [from |-> snap.committed, to |-> run.target, committed |-> FALSE]
        /\ run' = [run EXCEPT !.from = snap.committed, !.committed = FALSE, !.at = "begun"]
        /\ UNCHANGED <<machine, snap, inputs, readers, released>>
    BY <1>4 DEF EnterJournals
  <2>2. snap.committed \in Modes /\ run.target \in Modes
    BY <1>1 DEF TypeOK, Snapshots, Runs
  <2>3. /\ run' \in Runs /\ run'.at = "begun" /\ run'.target = run.target
        /\ run'.from = snap.committed
    BY <1>1, <2>1, <2>2 DEF Runs, Places
  <2>4. journal' \in Journals /\ journal' # NoJournal
    BY <2>1, <2>2 DEF Journals, NoJournal, Modes, Captures
  <2>5. TypeOK'
    BY <1>1, <2>1, <2>3, <2>4 DEF TypeOK, machine, inputs, readers
  <2>6. MachineFollows' /\ LeftoversCovered'
    BY <2>1, <2>3, <2>4 DEF MachineFollows, LeftoversCovered, Open
  <2>. QED
    BY <2>5, <2>6 DEF MInv
<1>. QED
  BY <1>2, <1>3, <1>4 DEF EnterRefused, EnterIdempotent

LEMMA ForwardKeepsMInv ==
  ASSUME MInv,
         \/ Begun \/ PrepareRefused \/ Prepare \/ Prepared \/ PrepareFailed
         \/ ApplyProxy \/ ApplyProxyFailed \/ Check \/ Commit \/ Clear
  PROVE  MInv'
<1>. USE DEF machine, inputs, readers
<1>1. TypeOK /\ MachineFollows /\ LeftoversCovered /\ run \in Runs /\ run.target \in Modes
      /\ run.from \in Modes
  BY DEF MInv, TypeOK, Runs
<1>2. CASE Begun
  <2>1. run' \in Runs /\ run'.at = "prepare" /\ run'.target = run.target /\ run'.from = run.from
    BY <1>1, <1>2, GotoLeads DEF Begun, Places
  <2>2. snap' \in Snapshots
    BY <1>1, <1>2, SnapshotType DEF Begun, Snapshot, Snapshots
  <2>3. TypeOK'
    BY <1>1, <1>2, <2>1, <2>2 DEF Begun, TypeOK
  <2>4. MachineFollows' /\ LeftoversCovered'
    BY <1>1, <1>2, <2>1 DEF Begun, MachineFollows, LeftoversCovered, Open
  <2>. QED
    BY <2>3, <2>4 DEF MInv
<1>3. CASE PrepareRefused
  <2>1. run' \in Runs /\ run'.at = "failing"
    BY <1>1, <1>3, GotoLeads DEF PrepareRefused, Places
  <2>2. TypeOK'
    BY <1>1, <1>3, <2>1 DEF PrepareRefused, TypeOK
  <2>3. MachineFollows' /\ LeftoversCovered'
    BY <1>1, <1>3, <2>1, NothingClaimed DEF PrepareRefused, LeftoversCovered
  <2>. QED
    BY <2>2, <2>3 DEF MInv
<1>4. CASE Prepare
  <2>1. run' \in Runs /\ run'.at = "preparing" /\ run'.target = run.target /\ run'.from = run.from
    BY <1>1, <1>4, GotoLeads DEF Prepare, Places
  <2>2. TypeOK'
    BY <1>1, <1>4, <2>1 DEF Prepare, TypeOK, ServiceStates
  <2>3. MachineFollows' /\ LeftoversCovered'
    BY <1>1, <1>4, <2>1 DEF Prepare, MachineFollows, LeftoversCovered, Open
  <2>. QED
    BY <2>2, <2>3 DEF MInv
<1>5. CASE Prepared
  <2>1. run' \in Runs /\ run'.at = "proxy" /\ run'.target = run.target /\ run'.from = run.from
    BY <1>1, <1>5, GotoLeads DEF Prepared, Places
  <2>2. TypeOK'
    BY <1>1, <1>5, <2>1 DEF Prepared, TypeOK, ServiceStates
  <2>3. journal' # NoJournal
    BY <1>1, <1>5 DEF Prepared, MachineFollows, Open, NoJournal, Modes, Captures
  <2>4. MachineFollows' /\ LeftoversCovered'
    BY <1>1, <1>5, <2>1, <2>3 DEF Prepared, MachineFollows, LeftoversCovered, Open, ServiceMatches
  <2>. QED
    BY <2>2, <2>4 DEF MInv
<1>6. CASE PrepareFailed
  <2>1. run' \in Runs /\ run'.at = "failing"
    BY <1>1, <1>6, GotoLeads DEF PrepareFailed, Places
  <2>2. TypeOK'
    BY <1>1, <1>6, <2>1 DEF PrepareFailed, TypeOK, ServiceStates, Modes
  <2>3. MachineFollows' /\ LeftoversCovered'
    BY <1>6, <2>1, NothingClaimed DEF PrepareFailed, LeftoversCovered
  <2>. QED
    BY <2>2, <2>3 DEF MInv
<1>7. CASE ApplyProxy
  <2>1. /\ run' \in Runs /\ run'.at \in {"commit", "check"}
        /\ run'.target = run.target /\ run'.from = run.from
    BY <1>1, <1>7, GotoLeads DEF ApplyProxy, Places
  <2>2. TypeOK'
    BY <1>1, <1>7, <2>1 DEF ApplyProxy, TypeOK
  <2>3. Matches(run.target)' /\ journal' # NoJournal
    BY <1>1, <1>7, <2>1 DEF ApplyProxy, MachineFollows, ServiceMatches, Matches, Open, NoJournal, Modes, Captures
  <2>4. MachineFollows' /\ LeftoversCovered'
    BY <1>1, <1>7, <2>1, <2>3 DEF ApplyProxy, MachineFollows, LeftoversCovered, Open
  <2>. QED
    BY <2>2, <2>4 DEF MInv
<1>8. CASE ApplyProxyFailed
  <2>1. run' \in Runs /\ run'.at = "failing"
    BY <1>1, <1>8, GotoLeads DEF ApplyProxyFailed, Places
  <2>2. TypeOK'
    BY <1>1, <1>8, <2>1 DEF ApplyProxyFailed, TypeOK
  <2>3. journal' # NoJournal
    BY <1>1, <1>8 DEF ApplyProxyFailed, MachineFollows, Open, NoJournal, Modes, Captures
  <2>4. MachineFollows' /\ LeftoversCovered'
    BY <2>1, <2>3, NothingClaimed DEF LeftoversCovered
  <2>. QED
    BY <2>2, <2>4 DEF MInv
<1>9. CASE Check
  <2>1. /\ run' \in Runs /\ run'.at \in {"commit", "failing"}
        /\ run'.target = run.target /\ run'.from = run.from
    BY <1>1, <1>9, GotoLeads DEF Check, Places
  <2>2. TypeOK'
    BY <1>1, <1>9, <2>1 DEF Check, TypeOK
  <2>3. MachineFollows' /\ LeftoversCovered'
    BY <1>1, <1>9, <2>1 DEF Check, MachineFollows, LeftoversCovered, Open, Matches
  <2>. QED
    BY <2>2, <2>3 DEF MInv
<1>10. CASE Commit
  <2>1. Open(FALSE) /\ Matches(run.target)
    BY <1>1, <1>10 DEF Commit, MachineFollows
  <2>2. /\ run' \in Runs /\ run'.target = run.target /\ run'.from = run.from
        /\ \/ run'.at = "clear" /\ journal' = [journal EXCEPT !.committed = TRUE]
           \/ run'.at = "failing" /\ journal' = journal
    BY <1>1, <1>10 DEF Commit, Runs, Places
  <2>3. journal' \in Journals /\ journal' # NoJournal
    <3>1. \E b \in BOOLEAN : journal' = [from |-> run.from, to |-> run.target, committed |-> b]
      BY <2>1, <2>2 DEF Open
    <3>. QED
      BY <1>1, <3>1 DEF Journals, NoJournal, Modes, Captures
  <2>4. run'.at = "clear" => Open(TRUE)'
    BY <2>1, <2>2 DEF Open
  <2>5. TypeOK'
    BY <1>1, <1>10, <2>2, <2>3 DEF Commit, TypeOK
  <2>6. MachineFollows' /\ LeftoversCovered'
    BY <1>1, <1>10, <2>1, <2>2, <2>3, <2>4 DEF Commit, MachineFollows, LeftoversCovered, Matches
  <2>. QED
    BY <2>5, <2>6 DEF MInv
<1>11. CASE Clear
  <2>1. Open(TRUE) /\ Matches(run.target)
    BY <1>1, <1>11 DEF Clear, MachineFollows
  <2>2. /\ run' \in Runs /\ run'.target = run.target
        /\ \/ run'.at = "publish" /\ journal' = NoJournal
           \/ run'.at = "failing" /\ journal' = journal
    BY <1>1, <1>11, GotoLeads DEF Clear, Places
  <2>3. TypeOK'
    BY <1>1, <1>11, <2>2 DEF Clear, TypeOK, Journals
  <2>4. MachineFollows' /\ LeftoversCovered'
    BY <1>1, <1>11, <2>1, <2>2 DEF Clear, MachineFollows, LeftoversCovered, Matches
  <2>. QED
    BY <2>3, <2>4 DEF MInv
<1>. QED
  BY <1>2, <1>3, <1>4, <1>5, <1>6, <1>7, <1>8, <1>9, <1>10, <1>11

LEMMA BackwardKeepsMInv ==
  ASSUME MInv,
         \/ Publish \/ Failing \/ ReleaseProxy \/ PrepareOff \/ PreparedOff \/ Unjournal
         \/ SettleFailure \/ SettleRecovery \/ SettleClosed \/ Verify
  PROVE  MInv'
<1>. USE DEF machine, inputs, readers
<1>1. TypeOK /\ MachineFollows /\ LeftoversCovered /\ run \in Runs /\ run.target \in Modes
      /\ run.from \in Modes /\ run.mode \in Modes /\ snap \in Snapshots
  BY DEF MInv, TypeOK, Runs
<1>2. ASSUME NEW ok \in BOOLEAN, NEW s \in Snapshots, Return(ok, s), snap' = s,
             UNCHANGED <<machine, journal, readers>>
      PROVE  MInv'
  <2>1. run' \in Runs /\ run'.at \in {"none", "enter", "verify", "release"}
    BY <1>1, <1>2, ReturnLeads, IdleType
  <2>2. TypeOK'
    BY <1>1, <1>2, <2>1, ReturnLeads DEF TypeOK
  <2>3. MachineFollows' /\ LeftoversCovered'
    BY <1>1, <1>2, <2>1, NothingClaimed DEF LeftoversCovered
  <2>. QED
    BY <2>2, <2>3 DEF MInv
<1>3. CASE Publish
  <2>1. Snapshot(RunningState(run.target), run.target, run.target, "none") \in Snapshots
    BY <1>1, SnapshotType DEF Snapshot, Snapshots
  <2>. QED
    BY <1>2, <1>3, <2>1 DEF Publish
<1>4. CASE Failing
  <2>1. run' \in Runs /\ run'.at = "release"
    BY <1>1, <1>4 DEF Failing, Runs, Places
  <2>2. snap' \in Snapshots
    BY <1>1, <1>4 DEF Failing, Snapshots, States
  <2>3. [from |-> run.from, to |-> run.target, committed |-> run.committed] \in Journals \ {NoJournal}
    BY <1>1 DEF Journals, NoJournal, Modes, Captures, Runs
  <2>4. journal' \in Journals /\ (journal # NoJournal => journal' # NoJournal)
    BY <1>1, <1>4, <2>3 DEF Failing, TypeOK
  <2>5. TypeOK'
    BY <1>1, <1>4, <2>1, <2>2, <2>4 DEF Failing, TypeOK
  <2>6. MachineFollows' /\ LeftoversCovered'
    BY <1>1, <1>4, <2>1, <2>4, NothingClaimed DEF Failing, LeftoversCovered
  <2>. QED
    BY <2>5, <2>6 DEF MInv
<1>5. CASE ReleaseProxy
  <2>1. /\ run' \in Runs /\ run'.at = "prepareOff"
        /\ run'.clean = FALSE \/ proxy' = FALSE
        /\ proxy' = FALSE \/ proxy' = proxy
    BY <1>1, <1>5, GotoLeads DEF ReleaseProxy, Places, Runs
  <2>2. svc' = svc /\ journal' = journal
    BY <1>5 DEF ReleaseProxy
  <2>3. TypeOK'
    BY <1>1, <1>5, <2>1 DEF ReleaseProxy, TypeOK
  <2>4. MachineFollows'
    BY <2>1 DEF MachineFollows
  <2>5. LeftoversCovered'
    BY <1>1, <2>1, <2>2 DEF LeftoversCovered
  <2>. QED
    BY <2>3, <2>4, <2>5 DEF MInv
<1>6. CASE PrepareOff
  <2>1. /\ run' \in Runs
        /\ \/ run'.at = "preparingOff" /\ svc' = "dirty" /\ run'.clean = run.clean
           \/ run'.at = "settle" /\ svc' = svc /\ ~run'.clean
    BY <1>1, <1>6, GotoLeads DEF PrepareOff, Places, Runs
  <2>2. TypeOK'
    BY <1>1, <1>6, <2>1 DEF PrepareOff, TypeOK, ServiceStates
  <2>3. MachineFollows' /\ LeftoversCovered'
    BY <1>1, <1>6, <2>1 DEF PrepareOff, MachineFollows, LeftoversCovered
  <2>. QED
    BY <2>2, <2>3 DEF MInv
<1>7. CASE PreparedOff
  <2>1. /\ run' \in Runs /\ svc' \in {"off", "dirty"}
        /\ \/ run'.at = "unjournal" /\ svc' = "off" /\ run'.clean /\ run.clean
           \/ run'.at = "settle" /\ ~run'.clean
    BY <1>1, <1>7, GotoLeads DEF PreparedOff, Places, Runs
  <2>2. TypeOK'
    BY <1>1, <1>7, <2>1 DEF PreparedOff, TypeOK, ServiceStates, Modes
  <2>3. MachineFollows' /\ LeftoversCovered'
    BY <1>1, <1>7, <2>1 DEF PreparedOff, MachineFollows, LeftoversCovered
  <2>. QED
    BY <2>2, <2>3 DEF MInv
<1>8. CASE Unjournal
  <2>1. /\ run' \in Runs /\ run'.at = "settle"
        /\ \/ journal' = NoJournal /\ run'.clean
           \/ journal' = journal /\ ~run'.clean
    BY <1>1, <1>8, GotoLeads DEF Unjournal, Places, Runs, MachineFollows
  <2>2. TypeOK'
    BY <1>1, <1>8, <2>1 DEF Unjournal, TypeOK, Journals
  <2>3. MachineFollows' /\ LeftoversCovered'
    BY <1>1, <1>8, <2>1 DEF Unjournal, MachineFollows, LeftoversCovered
  <2>. QED
    BY <2>2, <2>3 DEF MInv
<1>9. CASE SettleFailure
  <2>1. Snapshot("faulted", run.target, IF run.clean THEN "off" ELSE run.from, "agent") \in Snapshots
    BY <1>1 DEF Snapshot, Snapshots, States, Modes
  <2>. QED
    BY <1>2, <1>9, <2>1 DEF SettleFailure
<1>10. CASE SettleRecovery
  <2>1. snap' \in Snapshots
    <3>1. (IF journal = NoJournal THEN "off" ELSE journal.to) \in Modes
      BY <1>1 DEF TypeOK, Journals, Modes
    <3>. QED
      BY <1>10, <3>1, SnapshotType DEF SettleRecovery, Snapshot, Snapshots, States, Modes
  <2>2. CASE run.op # "startup" /\ ~run.clean
    BY <1>2, <1>10, <2>1, <2>2 DEF SettleRecovery
  <2>3. CASE run.op = "startup" \/ run.clean
    <3>1. /\ run' \in Runs /\ run'.at \in {"none", "reenter"}
          /\ startup' \in {startup, "done"} /\ requests' = requests /\ heals' = heals
          /\ released' = released
      BY <1>1, <1>10, <2>3, IdleType DEF SettleRecovery, Finish, Runs, Places
    <3>2. TypeOK'
      BY <1>1, <1>10, <2>1, <3>1 DEF SettleRecovery, TypeOK
    <3>3. MachineFollows' /\ LeftoversCovered'
      BY <1>1, <1>10, <3>1, NothingClaimed DEF SettleRecovery, LeftoversCovered
    <3>. QED
      BY <3>2, <3>3 DEF MInv
  <2>. QED
    BY <2>2, <2>3
<1>11. CASE SettleClosed
  <2>1. snap' \in Snapshots /\ run' = Idle
    BY <1>1, <1>11 DEF SettleClosed, Finish, Snapshot, Snapshots, States, Modes
  <2>2. TypeOK'
    BY <1>1, <1>11, <2>1, IdleType DEF SettleClosed, TypeOK
  <2>3. MachineFollows' /\ LeftoversCovered'
    BY <1>1, <1>11, <2>1, IdleType, NothingClaimed DEF SettleClosed, LeftoversCovered
  <2>. QED
    BY <2>2, <2>3 DEF MInv
<1>12. CASE Verify
  <2>1. run' \in Runs /\ run'.at \in {"none", "enter"}
    <3>1. CASE Finish
      BY <3>1, IdleType DEF Finish
    <3>2. CASE Transit("rollback", "off")
      BY <1>1, <3>2, TransitBegins DEF Stages, Modes
    <3>. QED
      BY <1>12, <3>1, <3>2 DEF Verify
  <2>2. TypeOK'
    BY <1>1, <1>12, <2>1 DEF Verify, TypeOK
  <2>3. MachineFollows' /\ LeftoversCovered'
    BY <1>1, <1>12, <2>1, NothingClaimed DEF Verify, LeftoversCovered
  <2>. QED
    BY <2>2, <2>3 DEF MInv
<1>. QED
  BY <1>3, <1>4, <1>5, <1>6, <1>7, <1>8, <1>9, <1>10, <1>11, <1>12

(* Requests, starts of transactions, readers, the core and the launcher.   *)
LEMMA AroundKeepsMInv ==
  ASSUME MInv, DownIsIdle,
         \/ \E request \in Asked : Submit(request) \/ Admit(request)
         \/ StartupQueued \/ StartupRecovery \/ OtherTransaction \/ MonitorGivesUp
         \/ \E mode \in Captures : HealBusy(mode) \/ HealBegin(mode)
         \/ CheckReads \/ CheckWrites
         \/ DashboardFetches \/ DashboardReads \/ DashboardWrites
         \/ Breaks \/ Crash \/ Boot
  PROVE  MInv'
<1>. USE DEF machine, inputs, readers
<1>1. TypeOK /\ MachineFollows /\ LeftoversCovered /\ run \in Runs /\ snap \in Snapshots
  BY DEF MInv, TypeOK
<1>2. ASSUME NEW request \in Requests, Submit(request) PROVE MInv'
  <2>1. TypeOK'
    BY <1>1, <1>2 DEF Submit, TypeOK, Captures
  <2>. QED
    BY <1>1, <1>2, <2>1, NothingMoves DEF Submit, MInv
<1>3. ASSUME NEW request \in Requests, Admit(request) PROVE MInv'
  <2>1. run' \in Runs /\ run'.at \in {"none", "enter"}
    <3>1. CASE request \in Modes
      BY <1>3, <3>1, AdmissionBegins DEF Admit
    <3>2. CASE request \notin Modes /\ snap.committed = "off"
      BY <1>3, <3>2, IdleType DEF Admit, Finish
    <3>3. CASE request \notin Modes /\ snap.committed # "off"
      <4>1. snap.committed \in Modes
        BY <1>1 DEF Snapshots
      <4>. QED
        BY <1>3, <3>3, <4>1, AdmissionBegins DEF Admit
    <3>. QED
      BY <3>1, <3>2, <3>3
  <2>2. TypeOK'
    BY <1>1, <1>3, <2>1 DEF Admit, TypeOK
  <2>3. MachineFollows' /\ LeftoversCovered'
    BY <1>1, <1>3, <2>1, NothingClaimed DEF Admit, LeftoversCovered
  <2>. QED
    BY <2>2, <2>3 DEF MInv
<1>4. CASE StartupQueued \/ MonitorGivesUp \/ \E mode \in Captures : HealBusy(mode)
  <2>1. TypeOK'
    BY <1>1, <1>4 DEF StartupQueued, MonitorGivesUp, HealBusy, TypeOK
  <2>. QED
    BY <1>1, <1>4, <2>1, NothingMoves DEF StartupQueued, MonitorGivesUp, HealBusy, MInv
<1>5. CASE StartupRecovery
  <2>1. [Idle EXCEPT !.op = "startup"] \in Runs
    BY OwnerType DEF Ops
  <2>2. run' \in Runs /\ run'.at = "release" /\ snap' \in Snapshots
    BY <1>1, <1>5, <2>1, RecoverLeads DEF StartupRecovery
  <2>3. TypeOK'
    BY <1>1, <1>5, <2>2 DEF StartupRecovery, TypeOK
  <2>4. MachineFollows' /\ LeftoversCovered'
    BY <1>1, <1>5, <2>2, NothingClaimed DEF StartupRecovery, LeftoversCovered
  <2>. QED
    BY <2>3, <2>4 DEF MInv
<1>6. CASE OtherTransaction
  <2>1. run' \in Runs /\ run'.at = "none"
    <3>1. run' = Idle \/ run' = [Idle EXCEPT !.op = "other"]
      BY <1>6 DEF OtherTransaction, Finish
    <3>. QED
      BY <3>1, OwnerType, IdleType DEF Ops
  <2>2. UNCHANGED <<machine, snap, journal, inputs, readers, released>>
    BY <1>6 DEF OtherTransaction
  <2>3. TypeOK'
    BY <1>1, <2>1, <2>2 DEF TypeOK
  <2>4. MachineFollows' /\ LeftoversCovered'
    BY <1>1, <2>1, <2>2, NothingClaimed DEF LeftoversCovered
  <2>. QED
    BY <2>3, <2>4 DEF MInv
<1>7. ASSUME NEW mode \in Captures, HealBegin(mode) PROVE MInv'
  <2>1. mode \in Modes /\ 1 \in 0 .. Rounds + 1
    BY RoundsAssumption DEF Modes
  <2>2. run' \in Runs /\ run'.at \in {"none", "enter", "release"}
    <3>1. CASE Repair(snap, "heal", mode, 1)
      BY <2>1, <3>1, RepairBegins
    <3>2. CASE run' = [Idle EXCEPT !.op = "heal", !.mode = mode, !.at = "release", !.why = "closed"]
      <4>1. 0 \in 0 .. Rounds + 1
        BY RoundsAssumption
      <4>. QED
        BY <2>1, <3>2, <4>1 DEF Idle, Runs, Ops, Stages, Places, Modes
    <3>3. CASE run' = Idle
      BY <3>3, IdleType
    <3>. QED
      BY <1>7, <3>1, <3>2, <3>3 DEF HealBegin, Finish
  <2>3. TypeOK'
    BY <1>1, <1>7, <2>2 DEF HealBegin, TypeOK
  <2>4. MachineFollows' /\ LeftoversCovered'
    BY <1>1, <1>7, <2>2, NothingClaimed DEF HealBegin, LeftoversCovered
  <2>. QED
    BY <2>3, <2>4 DEF MInv
<1>8. CASE CheckReads \/ CheckWrites \/ DashboardFetches \/ DashboardReads \/ DashboardWrites
  <2>1. snap' \in Snapshots /\ check' \subseteq Snapshots
    BY <1>1, <1>8 DEF CheckReads, CheckWrites, DashboardFetches, DashboardReads, DashboardWrites,
       TypeOK, Snapshot, Snapshots, States, Modes, Captures
  <2>2. reads' \in 0 .. MaxReads /\ dash' \in {"idle", "fetched", "read"}
    BY <1>1, <1>8, ReadsAssumption DEF CheckReads, CheckWrites, DashboardFetches, DashboardReads,
       DashboardWrites, TypeOK
  <2>3. UNCHANGED <<machine, journal, inputs, run, released>>
    BY <1>8 DEF CheckReads, CheckWrites, DashboardFetches, DashboardReads, DashboardWrites
  <2>4. TypeOK'
    BY <1>1, <2>1, <2>2, <2>3 DEF TypeOK
  <2>. QED
    BY <1>1, <2>3, <2>4, NothingMoves DEF MInv
<1>9. CASE Breaks
  <2>1. svc \in Captures /\ svc' = "broken" /\ tunFault' \in BOOLEAN
        /\ UNCHANGED <<life, proxy, snap, journal, inputs, run, readers, released>>
    BY <1>1, <1>9 DEF Breaks, TypeOK
  <2>2. TypeOK'
    BY <1>1, <2>1 DEF TypeOK, ServiceStates
  <2>3. MachineFollows' /\ LeftoversCovered'
    BY <1>1, <2>1 DEF MachineFollows, LeftoversCovered, Open, ServiceMatches, Matches, Captures
  <2>. QED
    BY <2>2, <2>3 DEF MInv
<1>10. CASE Crash
  <2>1. TypeOK'
    BY <1>1, <1>10, IdleType, SnapshotType DEF Crash, TypeOK, ServiceStates, Modes
  <2>2. MachineFollows' /\ LeftoversCovered'
    BY <1>1, <1>10, IdleType, NothingClaimed DEF Crash, LeftoversCovered
  <2>. QED
    BY <2>1, <2>2 DEF MInv
<1>11. CASE Boot
  <2>1. TypeOK'
    BY <1>1, <1>11 DEF Boot, TypeOK, ServiceStates, Modes
  <2>2. run'.at = "none" /\ svc' = "off"
    BY <1>11, IdleType DEF Boot, DownIsIdle, Up
  <2>3. MachineFollows' /\ LeftoversCovered'
    BY <2>2, NothingClaimed DEF LeftoversCovered
  <2>. QED
    BY <2>1, <2>3 DEF MInv
<1>. QED
  BY <1>2, <1>3, <1>4, <1>5, <1>6, <1>7, <1>8, <1>9, <1>10, <1>11, AskedAssumption

LEMMA DownStaysIdle ==
  ASSUME TypeOK, DownIsIdle, Next
  PROVE  DownIsIdle'
<1>. USE DEF machine, inputs, readers, Up
<1>1. CASE TransactionStep
  <2>1. run.at # "none" /\ life' = life
    BY <1>1 DEF TransactionStep, EnterRefused, EnterRecovers, EnterIdempotent, EnterJournals,
       Begun, PrepareRefused, Prepare, Prepared, PrepareFailed, ApplyProxy, ApplyProxyFailed,
       Check, Commit, Clear, Publish, Failing, ReleaseProxy, PrepareOff, PreparedOff, Unjournal,
       SettleFailure, SettleRecovery, SettleClosed, Verify
  <2>. QED
    BY <2>1, IdleType DEF DownIsIdle
<1>2. CASE \E request \in Asked : Submit(request) \/ Admit(request)
  BY <1>2 DEF DownIsIdle, Submit, Admit
<1>3. CASE StartupQueued \/ StartupRecovery \/ OtherTransaction \/ MonitorGivesUp
  BY <1>3 DEF DownIsIdle, StartupQueued, StartupRecovery, OtherTransaction, MonitorGivesUp
<1>4. CASE \E mode \in Captures : HealBusy(mode) \/ HealBegin(mode)
  BY <1>4 DEF DownIsIdle, HealBusy, HealBegin
<1>5. CASE CheckReads \/ CheckWrites \/ DashboardFetches \/ DashboardReads \/ DashboardWrites
  BY <1>5 DEF DownIsIdle, CheckReads, CheckWrites, DashboardFetches, DashboardReads, DashboardWrites
<1>6. CASE Breaks \/ Crash \/ Boot
  BY <1>6 DEF DownIsIdle, Breaks, Crash, Boot
<1>. QED
  BY <1>1, <1>2, <1>3, <1>4, <1>5, <1>6 DEF Next

LEMMA NextKeepsMInv ==
  ASSUME MInv, DownIsIdle, [Next]_vars
  PROVE  MInv' /\ DownIsIdle'
<1>1. CASE Next
  <2>1. DownIsIdle'
    BY <1>1, DownStaysIdle DEF MInv
  <2>2. MInv'
    BY <1>1, EnterKeepsMInv, ForwardKeepsMInv, BackwardKeepsMInv, AroundKeepsMInv
       DEF Next, TransactionStep
  <2>. QED
    BY <2>1, <2>2
<1>2. CASE UNCHANGED vars
  <2>. USE <1>2 DEF vars, machine, inputs, readers
  <2>1. TypeOK'
    BY DEF MInv, TypeOK
  <2>2. MachineFollows' /\ LeftoversCovered'
    BY NothingMoves DEF MInv
  <2>3. DownIsIdle'
    BY DEF DownIsIdle, Up
  <2>. QED
    BY <2>1, <2>2, <2>3 DEF MInv
<1>. QED
  BY <1>1, <1>2

LEMMA InitMInv == Init => MInv /\ DownIsIdle
<1>. SUFFICES ASSUME Init PROVE MInv /\ DownIsIdle
  OBVIOUS
<1>1. TypeOK
  <2>1. snap \in Snapshots
    BY SnapshotType DEF Init, Modes
  <2>2. run \in Runs
    BY IdleType DEF Init
  <2>3. 0 \in 0 .. MaxReads
    BY ReadsAssumption
  <2>. QED
    BY <2>1, <2>2, <2>3 DEF Init, TypeOK, Journals, ServiceStates, Modes
<1>2. MachineFollows
  BY IdleType DEF Init, MachineFollows
<1>3. LeftoversCovered /\ DownIsIdle
  BY DEF Init, LeftoversCovered, DownIsIdle, Up
<1>. QED
  BY <1>1, <1>2, <1>3 DEF MInv

LEMMA MInvHolds == Spec => [](MInv /\ DownIsIdle)
BY InitMInv, NextKeepsMInv, PTL DEF Spec

(* What a step may read is of its type: the launcher, the snapshot, the    *)
(* journal, the Service's state and the transaction in progress.           *)
THEOREM TypeCorrect == Spec => []TypeOK
BY MInvHolds, PTL DEF MInv


-----------------------------------------------------------------------------
(* The journal covers every mutation.                                      *)

(* Only the two calls of a transition that were begun under an open        *)
(* journal point the proxy at Navo or let the Service capture.             *)
LEMMA OnlyTransitionsMutate ==
  ASSUME Next
  PROVE  /\ proxy' /\ ~proxy => ApplyProxy \/ ApplyProxyFailed
         /\ svc' \in Captures /\ svc' # svc => Prepared
<1>. USE DEF machine, Captures
<1>1. CASE TransactionStep
  <2>1. CASE \/ EnterRefused \/ EnterRecovers \/ EnterIdempotent \/ EnterJournals \/ Begun
             \/ PrepareRefused \/ Prepare \/ PrepareFailed \/ Check \/ Commit \/ Clear
             \/ Publish \/ Failing \/ PrepareOff \/ PreparedOff \/ Unjournal
             \/ SettleFailure \/ SettleRecovery \/ SettleClosed \/ Verify
    <3>1. proxy' = proxy /\ (svc' = svc \/ svc' \in {"off", "dirty"})
      BY <2>1 DEF EnterRefused, EnterRecovers, EnterIdempotent, EnterJournals,
         Begun, PrepareRefused, Prepare, PrepareFailed, Check, Commit, Clear, Publish, Failing,
         PrepareOff, PreparedOff, Unjournal, SettleFailure, SettleRecovery, SettleClosed, Verify
    <3>. QED
      BY <3>1
  <2>2. CASE Prepared
    BY <2>2 DEF Prepared
  <2>3. CASE ApplyProxy \/ ApplyProxyFailed
    BY <2>3 DEF ApplyProxy, ApplyProxyFailed
  <2>4. CASE ReleaseProxy
    <3>1. (proxy' = FALSE \/ proxy' = proxy) /\ svc' = svc
      BY <2>4 DEF ReleaseProxy
    <3>. QED
      BY <3>1
  <2>. QED
    BY <1>1, <2>1, <2>2, <2>3, <2>4 DEF TransactionStep
<1>2. CASE \E request \in Asked : Submit(request) \/ Admit(request)
  BY <1>2 DEF Submit, Admit
<1>3. CASE StartupQueued \/ StartupRecovery \/ OtherTransaction \/ MonitorGivesUp
  BY <1>3 DEF StartupQueued, StartupRecovery, OtherTransaction, MonitorGivesUp
<1>4. CASE \E mode \in Captures : HealBusy(mode) \/ HealBegin(mode)
  BY <1>4 DEF HealBusy, HealBegin
<1>5. CASE CheckReads \/ CheckWrites \/ DashboardFetches \/ DashboardReads \/ DashboardWrites
  BY <1>5 DEF CheckReads, CheckWrites, DashboardFetches, DashboardReads, DashboardWrites
<1>6. CASE Breaks \/ Crash \/ Boot
  BY <1>6 DEF Breaks, Crash, Boot
<1>. QED
  BY <1>1, <1>2, <1>3, <1>4, <1>5, <1>6 DEF Next

(* "Written before mutation", whatever interferes with the snapshot: the   *)
(* proxy is only ever pointed at Navo, and the Service only ever captures, *)
(* under an open journal that says so; and what a failed transition left   *)
(* in place keeps its journal.                                             *)
THEOREM MutationsAreCovered == Spec => JournalCovers
<1>1. ASSUME MInv, [Next]_vars
      PROVE  [/\ proxy' /\ ~proxy => journal.to = "system_proxy" /\ ~journal.committed
              /\ svc' \in Captures /\ svc' # svc => journal.to = svc' /\ ~journal.committed]_vars
  <2>1. CASE Next
    <3>1. ASSUME proxy', ~proxy PROVE journal.to = "system_proxy" /\ ~journal.committed
      <4>1. run.at = "proxy" /\ run.target = "system_proxy"
        BY <2>1, <3>1, OnlyTransitionsMutate DEF ApplyProxy, ApplyProxyFailed
      <4>2. Open(FALSE)
        BY <1>1, <4>1 DEF MInv, MachineFollows
      <4>. QED
        BY <4>1, <4>2 DEF Open
    <3>2. ASSUME svc' \in Captures, svc' # svc PROVE journal.to = svc' /\ ~journal.committed
      <4>1. run.at = "preparing" /\ svc' = run.target
        BY <2>1, <3>2, OnlyTransitionsMutate DEF Prepared
      <4>2. Open(FALSE)
        BY <1>1, <4>1 DEF MInv, MachineFollows
      <4>. QED
        BY <4>1, <4>2 DEF Open
    <3>. QED
      BY <3>1, <3>2
  <2>2. CASE UNCHANGED vars
    BY <2>2
  <2>. QED
    BY <1>1, <2>1, <2>2
<1>2. MInv => LeftoversJournaled
  BY DEF MInv, LeftoversCovered, LeftoversJournaled
<1>. QED
  BY <1>1, <1>2, MInvHolds, PTL DEF Spec, JournalCovers, MutationJournaled

-----------------------------------------------------------------------------
(* SInv is inductive where only transactions write the snapshot.           *)

LEMMA OffIsInitial == InitialSnapshot = Snapshot(RunningState("off"), "off", "off", "none")
BY DEF InitialSnapshot, RunningState

(* The owners of a transition are neither of these. *)
Bystanders == {"startup", "other"}

LEMMA TransitionOwners == Bystanders \cap (Requests \cup {"heal", "idle"}) = {}
BY DEF Bystanders, Requests, Modes, Captures

(* Self-heal is asked only for what the snapshot calls a fault.            *)
LEMMA HealsAfterFailure ==
  ASSUME NEW ok \in BOOLEAN, NEW s, Return(ok, s)
  PROVE  heals' = heals \/ (s.state = "faulted" /\ ~ok)
BY DEF Return, AfterSwitch, AfterRestart, AfterRepair, FailedActivation

(* A transition returns to its owner when the snapshot is known for what   *)
(* it is.                                                                  *)
LEMMA ReturnKeepsSInv ==
  ASSUME TypeOK, SInv, NEW ok \in BOOLEAN, NEW s, Return(ok, s),
         SnapshotKnows', UNCHANGED readers
  PROVE  SInv'
<1>1. run.op \in Requests \cup {"heal"} /\ startup' = startup
  BY ReturnLeads
<1>2. run'.at \in {"none", "enter", "verify", "release"} /\ run'.op \notin Bystanders
  BY <1>1, ReturnLeads, IdleType, TransitionOwners
<1>3. startup # "running"
  BY <1>1, TransitionOwners DEF SInv, StartupFollows, Bystanders
<1>4. SnapshotFollows'
  BY <1>2 DEF SnapshotFollows
<1>5. StartupFollows'
  BY <1>1, <1>2, <1>3 DEF StartupFollows, Bystanders
<1>6. NobodyElseWrites'
  BY DEF SInv, NobodyElseWrites, readers
<1>. QED
  BY <1>4, <1>5, <1>6 DEF SInv

(* Within a transition, and within a cleanup, nobody reads the snapshot.   *)
LEMMA TransitKeepsSInv ==
  ASSUME SInv, run.at \notin Cleanup \cup {"none"}, run'.op = run.op, UNCHANGED <<startup, readers>>,
         run'.at \notin {"none", "enter", "verify", "reenter", "begun"}
  PROVE  SInv'
<1>1. SnapshotFollows'
  BY DEF SnapshotFollows
<1>2. StartupFollows'
  BY DEF SInv, StartupFollows
<1>3. NobodyElseWrites'
  BY DEF SInv, NobodyElseWrites, readers
<1>. QED
  BY <1>1, <1>2, <1>3 DEF SInv

LEMMA CleanupKeepsSInv ==
  ASSUME SInv, run.at # "none", run'.at \in Cleanup, run'.op = run.op, run'.why = run.why,
         UNCHANGED <<startup, readers>>
  PROVE  SInv'
<1>1. SnapshotFollows'
  BY DEF SnapshotFollows, Cleanup
<1>2. StartupFollows'
  BY DEF SInv, StartupFollows
<1>3. NobodyElseWrites'
  BY DEF SInv, NobodyElseWrites, readers
<1>. QED
  BY <1>1, <1>2, <1>3 DEF SInv

LEMMA EnterKeepsSInv ==
  ASSUME MInv, SInv, EnterRefused \/ EnterRecovers \/ EnterIdempotent \/ EnterJournals
  PROVE  SInv'
<1>1. TypeOK /\ run \in Runs /\ run.at \in {"enter", "reenter"}
  BY DEF MInv, TypeOK, EnterRefused, EnterRecovers, EnterIdempotent, EnterJournals
<1>2. SnapshotKnows
  BY <1>1 DEF SInv, SnapshotFollows, SnapshotKnows, Modes
<1>3. CASE EnterRefused \/ EnterIdempotent
  <2>1. PICK ok \in BOOLEAN : Return(ok, snap)
    BY <1>3 DEF EnterRefused, EnterIdempotent
  <2>2. UNCHANGED <<machine, snap, journal, readers>>
    BY <1>3 DEF EnterRefused, EnterIdempotent
  <2>3. SnapshotKnows'
    BY <1>1, <1>2, <2>1, <2>2, ReturnLeads, HealsAfterFailure
       DEF SnapshotKnows, True, Settled, Matches, machine
  <2>. QED
    BY <1>1, <2>1, <2>2, <2>3, ReturnKeepsSInv
<1>4. CASE EnterRecovers
  <2>1. run'.at = "release" /\ run'.op = run.op /\ UNCHANGED <<startup, readers>>
    BY <1>1, <1>4, RecoverLeads DEF EnterRecovers, inputs
  <2>. QED
    BY <1>1, <2>1, TransitKeepsSInv DEF Cleanup
<1>5. CASE EnterJournals
  <2>1. /\ run'.at = "begun" /\ run'.op = run.op /\ run'.from = snap.committed
        /\ UNCHANGED <<machine, snap, startup, readers>>
    BY <1>1, <1>5 DEF EnterJournals, Runs, inputs
  <2>2. startup = "done" => Settled(snap.committed) /\ Matches(snap.committed)
    <3>1. ASSUME NEW mode \in Modes, True(mode) PROVE Settled(snap.committed) /\ Matches(snap.committed)
      BY <3>1 DEF True, Settled, Snapshot
    <3>2. run.at = "enter" => snap.state # "faulted"
      BY <1>5 DEF EnterJournals, Unsettled
    <3>3. startup = "done" => \E mode \in Modes : True(mode)
      BY <1>1, <1>2, <3>2 DEF SInv, SnapshotFollows, SnapshotKnows, Modes
    <3>. QED
      BY <3>1, <3>3
  <2>3. SnapshotFollows'
    BY <2>1, <2>2 DEF SnapshotFollows, Settled, Matches, machine
  <2>4. StartupFollows'
    BY <1>1, <2>1 DEF SInv, StartupFollows, Cleanup
  <2>5. NobodyElseWrites'
    BY <2>1 DEF SInv, NobodyElseWrites, readers
  <2>. QED
    BY <2>3, <2>4, <2>5 DEF SInv
<1>. QED
  BY <1>3, <1>4, <1>5

LEMMA ForwardKeepsSInv ==
  ASSUME MInv, SInv,
         \/ Begun \/ PrepareRefused \/ Prepare \/ Prepared \/ PrepareFailed
         \/ ApplyProxy \/ ApplyProxyFailed \/ Check \/ Commit \/ Clear \/ Failing
  PROVE  SInv'
<1>. USE DEF inputs
<1>1. run \in Runs
  BY DEF MInv, TypeOK
<1>2. /\ run.at \notin Cleanup \cup {"none"} /\ UNCHANGED <<startup, readers>>
  BY DEF Begun, PrepareRefused, Prepare, Prepared, PrepareFailed,
     ApplyProxy, ApplyProxyFailed, Check, Commit, Clear, Failing, Cleanup
<1>3. CASE Commit \/ Failing
  <2>1. run'.op = run.op /\ run'.at \in {"clear", "failing", "release"}
    BY <1>1, <1>3 DEF Commit, Failing, Runs
  <2>. QED
    BY <1>2, <2>1, TransitKeepsSInv
<1>4. CASE \/ Begun \/ PrepareRefused \/ Prepare \/ Prepared \/ PrepareFailed
           \/ ApplyProxy \/ ApplyProxyFailed \/ Check \/ Clear
  <2>1. PICK place \in {"prepare", "failing", "preparing", "proxy", "commit", "check", "publish"} :
          Goto(place)
    BY <1>4 DEF Begun, PrepareRefused, Prepare, Prepared, PrepareFailed,
       ApplyProxy, ApplyProxyFailed, Check, Clear
  <2>2. run'.op = run.op /\ run'.at = place
    BY <1>1, <2>1, GotoLeads DEF Places
  <2>. QED
    BY <1>2, <2>2, TransitKeepsSInv
<1>. QED
  BY <1>3, <1>4

LEMMA BackwardKeepsSInv ==
  ASSUME MInv, SInv,
         \/ Publish \/ ReleaseProxy \/ PrepareOff \/ PreparedOff \/ Unjournal
         \/ SettleFailure \/ SettleRecovery \/ SettleClosed \/ Verify
  PROVE  SInv'
<1>. USE DEF inputs, machine
<1>1. TypeOK /\ MachineFollows /\ run \in Runs /\ run.target \in Modes
  BY DEF MInv, TypeOK, Runs
<1>2. CASE Publish
  <2>1. Return(TRUE, snap') /\ UNCHANGED <<machine, journal, readers>>
    BY <1>2 DEF Publish
  <2>2. PICK mode \in Modes : mode = run.target
    BY <1>1
  <2>3. SnapshotKnows'
    <3>1. True(mode)'
      BY <1>1, <1>2, <2>2 DEF Publish, MachineFollows, True, Settled, Matches
    <3>. QED
      BY <3>1 DEF SnapshotKnows
  <2>. QED
    BY <1>1, <2>1, <2>3, ReturnKeepsSInv
<1>3. CASE ReleaseProxy \/ PrepareOff \/ PreparedOff \/ Unjournal
  <2>1. run.at # "none" /\ UNCHANGED <<startup, readers>>
    BY <1>3 DEF ReleaseProxy, PrepareOff, PreparedOff, Unjournal
  <2>2. run'.op = run.op /\ run'.why = run.why /\ run'.at \in Cleanup
    BY <1>1, <1>3 DEF ReleaseProxy, PrepareOff, PreparedOff, Unjournal, Goto, Runs, Cleanup
  <2>. QED
    BY <2>1, <2>2, CleanupKeepsSInv
<1>4. CASE SettleFailure
  <2>1. Return(FALSE, snap') /\ UNCHANGED <<machine, journal, readers>> /\ SnapshotKnows'
    BY <1>4 DEF SettleFailure, SnapshotKnows, Snapshot
  <2>. QED
    BY <1>1, <2>1, ReturnKeepsSInv
<1>5. CASE SettleRecovery
  <2>1. UNCHANGED <<machine, journal, readers>>
    BY <1>5 DEF SettleRecovery
  <2>2. ASSUME run.clean PROVE True("off")'
    <3>1. proxy = FALSE /\ svc = "off" /\ journal = NoJournal
      BY <1>1, <1>5, <2>2 DEF SettleRecovery, MachineFollows, TypeOK
    <3>2. snap' = InitialSnapshot
      BY <1>5, <2>2 DEF SettleRecovery
    <3>. QED
      BY <2>1, <3>1, <3>2, OffIsInitial DEF True, Settled, Matches
  <2>3. SnapshotKnows'
    BY <1>5, <2>2 DEF SettleRecovery, SnapshotKnows, Snapshot, Modes
  <2>4. NobodyElseWrites'
    BY <2>1 DEF SInv, NobodyElseWrites, readers
  <2>5. CASE run.op = "startup"
    <3>1. run' = Idle /\ startup' = "done"
      BY <1>5, <2>5 DEF SettleRecovery, Finish
    <3>2. SnapshotFollows' /\ StartupFollows'
      BY <2>3, <3>1, IdleType DEF SnapshotFollows, StartupFollows
    <3>. QED
      BY <2>4, <3>2 DEF SInv
  <2>6. CASE run.op # "startup" /\ run.clean
    <3>1. run'.at = "reenter" /\ run'.op = run.op /\ startup' = startup
      BY <1>1, <1>5, <2>6 DEF SettleRecovery, Runs
    <3>2. run.at = "settle"
      BY <1>5 DEF SettleRecovery
    <3>3. SnapshotFollows' /\ StartupFollows'
      BY <2>2, <2>6, <3>1, <3>2 DEF SInv, SnapshotFollows, StartupFollows
    <3>. QED
      BY <2>4, <3>3 DEF SInv
  <2>7. CASE run.op # "startup" /\ ~run.clean
    <3>1. Return(FALSE, snap')
      BY <1>5, <2>7 DEF SettleRecovery
    <3>. QED
      BY <1>1, <2>1, <2>3, <3>1, ReturnKeepsSInv
  <2>. QED
    BY <2>5, <2>6, <2>7
<1>6. CASE SettleClosed
  <2>1. run' = Idle /\ startup' = startup /\ UNCHANGED readers /\ SnapshotKnows'
    BY <1>6 DEF SettleClosed, Finish, SnapshotKnows, Snapshot
  <2>2. startup # "running"
    BY <1>6 DEF SInv, StartupFollows, SettleClosed
  <2>. QED
    BY <2>1, <2>2, IdleType DEF SInv, SnapshotFollows, StartupFollows, NobodyElseWrites, readers
<1>7. CASE Verify
  <2>1. run.at = "verify" /\ UNCHANGED <<machine, snap, journal, inputs, readers>>
    BY <1>7 DEF Verify
  <2>2. SnapshotKnows'
    BY <2>1 DEF SInv, SnapshotFollows, SnapshotKnows, True, Settled, Matches
  <2>3. run.op \notin Bystanders /\ startup # "running"
    BY <2>1 DEF SInv, StartupFollows, Cleanup, Bystanders
  <2>4. run'.at \in {"none", "enter"} /\ run'.op \notin Bystanders
    <3>1. CASE Finish
      BY <3>1, IdleType DEF Finish, Bystanders
    <3>2. CASE Transit("rollback", "off")
      BY <1>1, <2>3, <3>2, TransitBegins DEF Stages, Modes
    <3>. QED
      BY <1>7, <3>1, <3>2 DEF Verify
  <2>. QED
    BY <2>1, <2>2, <2>3, <2>4
       DEF SInv, SnapshotFollows, StartupFollows, NobodyElseWrites, readers, Bystanders
<1>. QED
  BY <1>2, <1>3, <1>4, <1>5, <1>6, <1>7

(* The same, for what happens around the transactions: a core that dies    *)
(* leaves the mode what it was, and a launcher that is started again has   *)
(* not looked yet.                                                         *)
LEMMA AroundKeepsSInv ==
  ASSUME MInv, DownIsIdle, SInv, OnlyTransactionsWrite,
         \/ \E request \in Asked : Submit(request) \/ Admit(request)
         \/ StartupQueued \/ StartupRecovery \/ OtherTransaction \/ MonitorGivesUp
         \/ \E mode \in Captures : HealBusy(mode) \/ HealBegin(mode)
         \/ CheckReads \/ CheckWrites
         \/ DashboardFetches \/ DashboardReads \/ DashboardWrites
         \/ Breaks \/ Crash \/ Boot
  PROVE  SInv'
<1>. USE DEF inputs, machine
<1>1. TypeOK /\ run \in Runs /\ SnapshotFollows /\ StartupFollows /\ check = {} /\ dash = "idle"
  BY DEF MInv, TypeOK, SInv, NobodyElseWrites
<1>2. "readiness" \notin Races /\ "dashboard" \notin Races /\ "supersession" \notin Races
  BY DEF OnlyTransactionsWrite
<1>3. ASSUME UNCHANGED <<run, machine, snap, journal, readers>>,
             startup' = startup \/ (startup = "due" /\ startup' = "queued"),
             heals' \subseteq heals \/ startup = "done"
      PROVE  SInv'
  <2>1. SnapshotKnows => SnapshotKnows'
    BY <1>3 DEF SnapshotKnows, True, Settled, Matches
  <2>2. SnapshotFollows'
    BY <1>1, <1>3, <2>1 DEF SnapshotFollows, True, Settled, Matches
  <2>3. StartupFollows' /\ NobodyElseWrites'
    BY <1>1, <1>3 DEF StartupFollows, NobodyElseWrites, readers
  <2>. QED
    BY <2>2, <2>3 DEF SInv
<1>4. ASSUME Free, run'.at \in {"none", "enter", "release"}, run'.op # "startup",
             run'.op = "other" => run'.at = "none", heals' \subseteq heals,
             UNCHANGED <<machine, snap, journal, startup, readers>>
      PROVE  SInv'
  <2>1. SnapshotKnows /\ startup # "running"
    BY <1>1, <1>4, IdleType DEF SnapshotFollows, StartupFollows, Free
  <2>2. SnapshotKnows'
    BY <1>4, <2>1 DEF SnapshotKnows, True, Settled, Matches
  <2>3. SnapshotFollows' /\ StartupFollows' /\ NobodyElseWrites'
    BY <1>1, <1>4, <2>1, <2>2 DEF SnapshotFollows, StartupFollows, NobodyElseWrites, readers
  <2>. QED
    BY <2>3 DEF SInv
<1>5. ASSUME NEW request \in Requests, Submit(request) PROVE SInv'
  BY <1>2, <1>3, <1>5 DEF Submit
<1>6. ASSUME NEW request \in Requests, Admit(request) PROVE SInv'
  <2>1. run'.at \in {"none", "enter"} /\ run'.op \notin Bystanders
    <3>1. CASE request \in Modes
      BY <1>6, <3>1, AdmissionBegins, TransitionOwners DEF Admit
    <3>2. CASE request \notin Modes /\ snap.committed = "off"
      BY <1>6, <3>2, IdleType DEF Admit, Finish, Bystanders
    <3>3. CASE request \notin Modes /\ snap.committed # "off"
      <4>1. snap.committed \in Modes
        BY <1>1 DEF TypeOK, Snapshots
      <4>. QED
        BY <1>6, <3>3, <4>1, AdmissionBegins, TransitionOwners DEF Admit
    <3>. QED
      BY <3>1, <3>2, <3>3
  <2>. QED
    BY <1>4, <1>6, <2>1 DEF Admit, Bystanders
<1>7. CASE StartupQueued \/ MonitorGivesUp \/ \E mode \in Captures : HealBusy(mode)
  BY <1>3, <1>7 DEF StartupQueued, MonitorGivesUp, HealBusy
<1>8. CASE StartupRecovery
  <2>1. [Idle EXCEPT !.op = "startup"] \in Runs /\ [Idle EXCEPT !.op = "startup"].op = "startup"
    BY OwnerType DEF Ops, Idle
  <2>2. run'.at = "release" /\ run'.op = "startup"
    BY <1>1, <1>8, <2>1, RecoverLeads DEF StartupRecovery
  <2>3. run'.why = "recovery"
    BY <1>8, <2>1 DEF StartupRecovery, Recover, Runs
  <2>. QED
    BY <1>1, <1>8, <2>2, <2>3
       DEF StartupRecovery, SInv, SnapshotFollows, StartupFollows, NobodyElseWrites, Cleanup, readers
<1>9. CASE OtherTransaction
  <2>1. UNCHANGED <<machine, snap, journal, startup, readers>>
    BY <1>9 DEF OtherTransaction
  <2>. heals' \subseteq heals
    BY <1>9 DEF OtherTransaction
  <2>2. CASE Free /\ run' = [Idle EXCEPT !.op = "other"]
    <3>1. run'.at = "none" /\ run'.op # "startup"
      BY <2>2 DEF Idle
    <3>. QED
      BY <1>4, <2>1, <2>2, <3>1
  <2>3. CASE run.op = "other" /\ run' = Idle
    <3>1. SnapshotKnows /\ startup # "running"
      BY <1>1, <2>3 DEF SnapshotFollows, StartupFollows
    <3>2. SnapshotKnows'
      BY <1>9, <2>1, <3>1 DEF OtherTransaction, SnapshotKnows, True, Settled, Matches
    <3>. QED
      BY <1>1, <2>1, <2>3, <3>1, <3>2, IdleType
         DEF SInv, SnapshotFollows, StartupFollows, NobodyElseWrites, readers
  <2>. QED
    BY <1>9, <2>2, <2>3 DEF OtherTransaction, Finish
<1>10. ASSUME NEW mode \in Captures, HealBegin(mode) PROVE SInv'
  <2>1. mode \in Modes /\ 1 \in 0 .. Rounds + 1
    BY RoundsAssumption DEF Modes
  <2>2. run'.at \in {"none", "enter", "release"} /\ run'.op \notin Bystanders
    <3>1. CASE Repair(snap, "heal", mode, 1)
      BY <2>1, <3>1, RepairBegins DEF Bystanders
    <3>2. CASE run' = [Idle EXCEPT !.op = "heal", !.mode = mode, !.at = "release", !.why = "closed"]
      BY <3>2 DEF Idle, Bystanders
    <3>3. CASE run' = Idle
      BY <3>3, IdleType DEF Bystanders
    <3>. QED
      BY <1>10, <3>1, <3>2, <3>3 DEF HealBegin, Finish
  <2>. QED
    BY <1>4, <1>10, <2>2 DEF HealBegin, Bystanders
<1>11. ~(CheckReads \/ CheckWrites \/ DashboardFetches \/ DashboardReads \/ DashboardWrites)
  BY <1>1, <1>2 DEF CheckReads, CheckWrites, DashboardFetches, DashboardReads, DashboardWrites
<1>12. CASE Breaks
  <2>1. svc \in Captures /\ svc' = "broken"
        /\ UNCHANGED <<proxy, snap, journal, run, startup, readers>>
    BY <1>12 DEF Breaks
  <2>2. ASSUME NEW mode \in Modes
        PROVE  /\ Matches(mode) => mode # "off" /\ Matches(mode)'
               /\ True(mode) => mode # "off" /\ True(mode)'
               /\ Settled(mode) => Settled(mode)'
    BY <2>1 DEF True, Matches, Settled, Captures
  <2>3. SnapshotKnows => SnapshotKnows'
    BY <1>12, <2>1, <2>2 DEF Breaks, SnapshotKnows
  <2>4. run.from \in Modes /\ "off" \in Modes
    BY <1>1 DEF Runs, Modes
  <2>5. SnapshotFollows'
    BY <1>1, <2>1, <2>2, <2>3, <2>4 DEF SnapshotFollows
  <2>6. StartupFollows' /\ NobodyElseWrites'
    BY <1>1, <2>1 DEF StartupFollows, NobodyElseWrites, readers
  <2>. QED
    BY <2>5, <2>6 DEF SInv
<1>13. CASE Crash
  <2>1. run' = Idle /\ startup' = "due" /\ snap' = InitialSnapshot /\ check' = {} /\ dash' = "idle" /\ heals' = {}
    BY <1>13 DEF Crash
  <2>. QED
    BY <2>1, IdleType DEF SInv, SnapshotFollows, StartupFollows, NobodyElseWrites, SnapshotKnows
<1>14. CASE Boot
  <2>1. run' = Idle /\ startup' = "due" /\ snap' = InitialSnapshot /\ check' = {} /\ dash' = "idle" /\ heals' = {}
    BY <1>14 DEF Boot, DownIsIdle, Up, readers
  <2>. QED
    BY <2>1, IdleType DEF SInv, SnapshotFollows, StartupFollows, NobodyElseWrites, SnapshotKnows
<1>. QED
  BY <1>5, <1>6, <1>7, <1>8, <1>9, <1>10, <1>11, <1>12, <1>13, <1>14, AskedAssumption

LEMMA InitSInv == Init => SInv
<1>. SUFFICES ASSUME Init PROVE SInv
  OBVIOUS
<1>1. SnapshotFollows
  BY IdleType DEF Init, SnapshotFollows, SnapshotKnows
<1>2. StartupFollows /\ NobodyElseWrites
  BY IdleType DEF Init, StartupFollows, NobodyElseWrites
<1>. QED
  BY <1>1, <1>2 DEF SInv

LEMMA NextKeepsSInv ==
  ASSUME OnlyTransactionsWrite, MInv, DownIsIdle, SInv, [Next]_vars
  PROVE  SInv'
<1>1. CASE Next
  BY <1>1, EnterKeepsSInv, ForwardKeepsSInv, BackwardKeepsSInv, AroundKeepsSInv
     DEF Next, TransactionStep
<1>2. CASE UNCHANGED vars
  <2>. USE <1>2 DEF vars, machine, inputs, readers
  <2>1. SnapshotFollows'
    BY DEF SInv, SnapshotFollows, SnapshotKnows, True, Settled, Matches
  <2>2. StartupFollows' /\ NobodyElseWrites'
    BY DEF SInv, StartupFollows, NobodyElseWrites
  <2>. QED
    BY <2>1, <2>2 DEF SInv
<1>. QED
  BY <1>1, <1>2

LEMMA SInvHolds == OnlyTransactionsWrite => (Spec => []SInv)
<1>. SUFFICES ASSUME OnlyTransactionsWrite PROVE Spec => []SInv
  OBVIOUS
<1>1. MInv /\ DownIsIdle /\ SInv /\ [Next]_vars => SInv'
  BY NextKeepsSInv
<1>. QED
  BY <1>1, InitSInv, MInvHolds, PTL DEF Spec

(* Between transactions the snapshot is faulted, or it names one mode, the *)
(* proxy and the Service are in that mode and no journal is left: through  *)
(* every failure, repair and crash, as long as readiness checks and the    *)
(* dashboard do not write the snapshot from outside.                       *)
THEOREM SnapshotNeverLies == OnlyTransactionsWrite => (Spec => []SnapshotIsTrue)
<1>1. SInv => SnapshotIsTrue
  <2>. SUFFICES ASSUME SInv, Free, Reconciled, snap.state # "faulted"
                PROVE  \E mode \in Modes : True(mode)
    BY DEF SnapshotIsTrue, True
  <2>1. SnapshotKnows
    BY IdleType DEF SInv, SnapshotFollows, Free
  <2>2. ~(startup \in {"due", "queued"} /\ snap = InitialSnapshot)
    BY DEF Reconciled, InitialSnapshot, Snapshot
  <2>. QED
    BY <2>1, <2>2 DEF SnapshotKnows
<1>. QED
  BY <1>1, SInvHolds, PTL

(* Under the same assumption a transition starts from what the snapshot    *)
(* says is there: what a failed one left behind is gone before it.         *)
THEOREM TransitionsStartClean == OnlyTransactionsWrite => (Spec => []StartsClean)
<1>1. SInv => StartsClean
  BY DEF SInv, SnapshotFollows, StartsClean
<1>. QED
  BY <1>1, SInvHolds, PTL

-----------------------------------------------------------------------------
(* Off stays off.                                                          *)

LEMMA ReturnKeepsOff ==
  ASSUME TypeOK, OffStays, NEW ok \in BOOLEAN, NEW s, Return(ok, s), snap' = s, journal' = journal,
         released \/ (ok /\ run.target = "off")
           => s.committed = "off" /\ s.desired \notin heals /\ journal.to \notin heals
  PROVE  OffStays'
<1>. SUFFICES ASSUME released'
              PROVE  /\ requests' \cap Captures = {} /\ snap'.committed = "off"
                     /\ run'.target = "off" /\ run'.from = "off" /\ run'.why # "closed"
                     /\ run'.op \notin Captures \cup {"restart", "heal"}
                     /\ snap'.desired \notin heals' /\ journal'.to \notin heals'
  BY Zenon DEF OffStays
<1>1. CASE run.op \in Modes /\ AfterSwitch(ok, s)
  <2>1. run' = Idle /\ requests' = requests
    BY <1>1 DEF AfterSwitch, Finish, Return
  <2>2. released \/ (ok /\ run.target = "off" /\ requests \cap Captures = {})
    BY <1>1 DEF AfterSwitch
  <2>3. heals' = heals
    BY <1>1, <2>2 DEF AfterSwitch, OffStays
  <2>4. requests \cap Captures = {}
    BY <2>2 DEF OffStays
  <2>. QED
    BY <2>1, <2>2, <2>3, <2>4 DEF Idle, Captures
<1>2. CASE run.op \in {"restart", "heal"} /\ released' = released
  BY <1>2 DEF OffStays
<1>. QED
  BY <1>1, <1>2 DEF Return, AfterRestart, AfterRepair

LEMMA EnterKeepsOff ==
  ASSUME MInv, SInv, OffStays, EnterRefused \/ EnterRecovers \/ EnterIdempotent \/ EnterJournals
  PROVE  OffStays'
<1>1. TypeOK /\ run \in Runs /\ heals \subseteq Captures /\ SnapshotFollows
  BY DEF MInv, TypeOK, SInv
<1>2. CASE EnterRefused
  <2>1. Return(FALSE, snap) /\ snap' = snap /\ journal' = journal
    BY <1>2 DEF EnterRefused
  <2>2. released => snap.committed = "off" /\ snap.desired \notin heals /\ journal.to \notin heals
    BY DEF OffStays
  <2>. QED
    BY <1>1, <2>1, <2>2, ReturnKeepsOff
<1>3. CASE EnterRecovers
  <2>1. /\ snap'.committed = "off" /\ snap'.desired \in {journal.to, "off"}
        /\ run' = [run EXCEPT !.at = "release", !.why = "recovery", !.clean = TRUE]
        /\ UNCHANGED <<journal, inputs, released>>
    BY <1>3 DEF EnterRecovers, Recover, Snapshot
  <2>2. /\ run'.target = run.target /\ run'.from = run.from /\ run'.op = run.op
        /\ run'.why = "recovery"
    BY <1>1, <2>1 DEF Runs
  <2>. QED
    BY <1>1, <2>1, <2>2 DEF OffStays, Captures, inputs
<1>4. CASE EnterIdempotent
  <2>1. Return(TRUE, snap) /\ snap' = snap /\ journal' = journal /\ Settled(run.target)
    BY <1>4 DEF EnterIdempotent
  <2>2. run.target = "off" => snap.committed = "off" /\ snap.desired = "off" /\ snap.state = "stopped"
    BY <2>1 DEF Settled, Snapshot, RunningState
  <2>3. SnapshotKnows
    BY <1>1, <1>4 DEF EnterIdempotent, SnapshotFollows, SnapshotKnows, Modes
  <2>4. run.target = "off" => journal.to \notin heals
    BY <1>1, <2>2, <2>3 DEF SnapshotKnows, True, NoJournal, Captures
  <2>5. released \/ run.target = "off"
          => snap.committed = "off" /\ snap.desired \notin heals /\ journal.to \notin heals
    BY <1>1, <2>2, <2>4 DEF OffStays, Captures
  <2>. QED
    BY <1>1, <2>1, <2>5, ReturnKeepsOff
<1>5. CASE EnterJournals
  <2>1. /\ run' = [run EXCEPT !.from = snap.committed, !.committed = FALSE, !.at = "begun"]
        /\ journal'.to = run.target
        /\ UNCHANGED <<snap, inputs, released>>
    BY <1>5 DEF EnterJournals
  <2>2. /\ run'.target = run.target /\ run'.from = snap.committed /\ run'.op = run.op
        /\ run'.why = run.why
    BY <1>1, <2>1 DEF Runs
  <2>. QED
    BY <1>1, <2>1, <2>2 DEF OffStays, Captures, inputs
<1>. QED
  BY <1>2, <1>3, <1>4, <1>5

(* A transition in progress keeps its aim.                                 *)
LEMMA AimKeepsOff ==
  ASSUME MInv, OffStays, UNCHANGED <<inputs, released>>,
         run'.target = run.target, run'.from = run.from, run'.op = run.op,
         run'.why \in {run.why, "failure"},
         snap'.desired \in {snap.desired, run.target}, snap'.committed \in {snap.committed, run.from},
         journal'.to \in {journal.to, run.target, "none"}
  PROVE  OffStays'
<1>1. heals \subseteq Captures
  BY DEF MInv, TypeOK
<1>. QED
  BY <1>1 DEF OffStays, inputs, Captures

LEMMA StepsKeepOff ==
  ASSUME MInv, SInv, OffStays,
         \/ Begun \/ PrepareRefused \/ Prepare \/ Prepared \/ PrepareFailed
         \/ ApplyProxy \/ ApplyProxyFailed \/ Check \/ Commit \/ Clear \/ Publish \/ Failing
         \/ ReleaseProxy \/ PrepareOff \/ PreparedOff \/ Unjournal
         \/ SettleFailure \/ SettleRecovery \/ SettleClosed \/ Verify
  PROVE  OffStays'
<1>1. TypeOK /\ MachineFollows /\ run \in Runs /\ heals \subseteq Captures /\ snap \in Snapshots
      /\ journal \in Journals
  BY DEF MInv, TypeOK
<1>2. CASE \/ PrepareRefused \/ Prepare \/ Prepared \/ PrepareFailed \/ ApplyProxy
           \/ ApplyProxyFailed \/ Check \/ Clear \/ ReleaseProxy \/ PrepareOff \/ PreparedOff
           \/ Unjournal
  <2>1. /\ \/ \E place \in Places : Goto(place)
           \/ run' = [run EXCEPT !.clean = FALSE, !.at = "prepareOff"]
           \/ run' = [run EXCEPT !.clean = FALSE, !.at = "settle"]
        /\ UNCHANGED <<snap, inputs, released>> /\ journal' \in {journal, NoJournal}
    BY <1>2 DEF PrepareRefused, Prepare, Prepared, PrepareFailed, ApplyProxy, ApplyProxyFailed,
       Check, Clear, ReleaseProxy, PrepareOff, PreparedOff, Unjournal, Places
  <2>2. run'.target = run.target /\ run'.from = run.from /\ run'.op = run.op /\ run'.why = run.why
    BY <1>1, <2>1 DEF Goto, Runs
  <2>. QED
    BY <2>1, <2>2, AimKeepsOff DEF NoJournal
<1>3. CASE Begun
  <2>1. run'.target = run.target /\ run'.from = run.from /\ run'.op = run.op /\ run'.why = run.why
    BY <1>1, <1>3, GotoLeads DEF Begun, Places
  <2>2. /\ snap'.desired = run.target /\ snap'.committed = run.from
        /\ UNCHANGED <<journal, inputs, released>>
    BY <1>3 DEF Begun, Snapshot
  <2>. QED
    BY <2>1, <2>2, AimKeepsOff
<1>4. CASE Commit
  <2>1. run'.target = run.target /\ run'.from = run.from /\ run'.op = run.op /\ run'.why = run.why
    BY <1>1, <1>4 DEF Commit, Runs
  <2>2. Open(FALSE)
    BY <1>1, <1>4 DEF Commit, MachineFollows
  <2>3. journal'.to = run.target /\ UNCHANGED <<snap, inputs, released>>
    BY <1>4, <2>2 DEF Commit, Open
  <2>. QED
    BY <2>1, <2>3, AimKeepsOff
<1>5. CASE Failing
  <2>1. run'.target = run.target /\ run'.from = run.from /\ run'.op = run.op /\ run'.why = "failure"
    BY <1>1, <1>5 DEF Failing, Runs
  <2>2. snap'.desired = snap.desired /\ snap'.committed = snap.committed
    BY <1>1, <1>5 DEF Failing, Snapshots
  <2>3. journal'.to \in {journal.to, run.target} /\ UNCHANGED <<inputs, released>>
    BY <1>5 DEF Failing
  <2>. QED
    BY <2>1, <2>2, <2>3, AimKeepsOff
<1>6. CASE Publish
  <2>1. Return(TRUE, snap') /\ journal' = journal /\ journal = NoJournal
        /\ snap'.committed = run.target /\ snap'.desired = run.target
    BY <1>1, <1>6 DEF Publish, MachineFollows, Snapshot
  <2>2. released \/ run.target = "off"
          => snap'.committed = "off" /\ snap'.desired \notin heals /\ journal.to \notin heals
    BY <1>1, <2>1 DEF OffStays, Captures, NoJournal
  <2>. QED
    BY <1>1, <2>1, <2>2, ReturnKeepsOff
<1>7. CASE SettleFailure
  <2>1. Return(FALSE, snap') /\ journal' = journal
        /\ snap'.committed \in {"off", run.from} /\ snap'.desired = run.target
    BY <1>7 DEF SettleFailure, Snapshot
  <2>2. released => snap'.committed = "off" /\ snap'.desired \notin heals /\ journal.to \notin heals
    BY <1>1, <2>1 DEF OffStays, Captures
  <2>. QED
    BY <1>1, <2>1, <2>2, ReturnKeepsOff
<1>8. CASE SettleRecovery
  <2>1. journal' = journal /\ snap'.committed = "off" /\ snap'.desired \in {"off", journal.to}
    BY <1>8 DEF SettleRecovery, Snapshot, InitialSnapshot
  <2>2. released => snap'.committed = "off" /\ snap'.desired \notin heals /\ journal.to \notin heals
    BY <1>1, <2>1 DEF OffStays, Captures
  <2>3. CASE run.op # "startup" /\ ~run.clean
    <3>1. Return(FALSE, snap')
      BY <1>8, <2>3 DEF SettleRecovery
    <3>. QED
      BY <1>1, <2>1, <2>2, <3>1, ReturnKeepsOff
  <2>4. CASE run.op = "startup" \/ run.clean
    <3>1. /\ run' = Idle \/ run' = [run EXCEPT !.at = "reenter", !.why = "none"]
          /\ requests' = requests /\ heals' = heals /\ released' = released
      BY <1>8, <2>4 DEF SettleRecovery, Finish, inputs
    <3>2. released => /\ run'.target = "off" /\ run'.from = "off" /\ run'.why # "closed"
                      /\ run'.op \notin Captures \cup {"restart", "heal"}
      <4>1. CASE run' = Idle
        BY <4>1 DEF Idle, Captures
      <4>2. CASE run' = [run EXCEPT !.at = "reenter", !.why = "none"]
        BY <1>1, <4>2 DEF OffStays, Runs
      <4>. QED
        BY <3>1, <4>1, <4>2
    <3>. QED
      BY <2>1, <2>2, <3>1, <3>2 DEF OffStays
  <2>. QED
    BY <2>3, <2>4
<1>9. CASE SettleClosed
  BY <1>9 DEF SettleClosed, OffStays
<1>10. CASE Verify
  <2>1. UNCHANGED <<snap, journal, inputs, released>>
    BY <1>10 DEF Verify
  <2>2. released => /\ run'.target = "off" /\ run'.from = "off" /\ run'.why # "closed"
                    /\ run'.op \notin Captures \cup {"restart", "heal"}
    BY <1>10 DEF Verify, Finish, Transit, Idle, OffStays, Captures
  <2>. QED
    BY <2>1, <2>2 DEF OffStays, inputs
<1>. QED
  BY <1>2, <1>3, <1>4, <1>5, <1>6, <1>7, <1>8, <1>9, <1>10

LEMMA AroundKeepsOff ==
  ASSUME MInv, SInv, OffStays, OnlyTransactionsWrite,
         \/ \E request \in Asked : Submit(request) \/ Admit(request)
         \/ StartupQueued \/ StartupRecovery \/ OtherTransaction \/ MonitorGivesUp
         \/ \E mode \in Captures : HealBusy(mode) \/ HealBegin(mode)
         \/ CheckReads \/ CheckWrites
         \/ DashboardFetches \/ DashboardReads \/ DashboardWrites
         \/ Breaks \/ Crash \/ Boot
  PROVE  OffStays'
<1>. USE DEF inputs
<1>1. TypeOK /\ run \in Runs /\ check = {} /\ dash = "idle" /\ heals \subseteq Captures
  BY DEF MInv, TypeOK, SInv, NobodyElseWrites
<1>2. "readiness" \notin Races /\ "dashboard" \notin Races /\ "supersession" \notin Races
  BY DEF OnlyTransactionsWrite
(* Who finds nothing to do for a capture begins nothing. *)
<1>3. ASSUME released' => released, released' => requests' \cap Captures = {},
             heals' \subseteq heals, UNCHANGED <<snap, journal>>,
             released => \/ run' = run
                         \/ \E op \in Ops \ (Captures \cup {"restart", "heal"}) :
                              run' = [Idle EXCEPT !.op = op]
                         \/ run' = [Idle EXCEPT !.op = "off", !.target = "off", !.at = "enter"]
      PROVE  OffStays'
  <2>1. released => /\ run'.target = "off" /\ run'.from = "off" /\ run'.why # "closed"
                    /\ run'.op \notin Captures \cup {"restart", "heal"}
    BY <1>3 DEF OffStays, Idle, Captures
  <2>. QED
    BY <1>3, <2>1 DEF OffStays
<1>4. run' = Idle => \E op \in Ops \ (Captures \cup {"restart", "heal"}) : run' = [Idle EXCEPT !.op = op]
  <2>1. Idle = [Idle EXCEPT !.op = "idle"] /\ "idle" \in Ops \ (Captures \cup {"restart", "heal"})
    BY DEF Idle, Ops, Captures
  <2>. QED
    BY <2>1
<1>5. ASSUME NEW request \in Requests, Submit(request) PROVE OffStays'
  <2>1. released' => released /\ request \notin Captures /\ requests' = requests \cup {request}
    BY <1>5 DEF Submit
  <2>2. released' => requests' \cap Captures = {}
    BY <2>1 DEF OffStays
  <2>. QED
    BY <1>3, <1>5, <2>1, <2>2 DEF Submit
<1>6. ASSUME NEW request \in Requests, Admit(request) PROVE OffStays'
  <2>1. released => request \in {"off", "restart"} /\ snap.committed = "off"
    BY <1>6 DEF Admit, OffStays, Requests, Modes
  <2>2. released => \/ run' = Idle
                    \/ run' = [Idle EXCEPT !.op = "off", !.target = "off", !.at = "enter"]
    <3>1. CASE request = "off"
      BY <1>6, <3>1 DEF Admit, Modes
    <3>2. CASE request = "restart" /\ snap.committed = "off"
      BY <1>6, <3>2 DEF Admit, Finish, Modes, Captures
    <3>. QED
      BY <2>1, <3>1, <3>2
  <2>3. released' = released /\ requests' \subseteq requests /\ UNCHANGED <<snap, journal, heals>>
    BY <1>6 DEF Admit
  <2>4. released' => requests' \cap Captures = {}
    BY <2>3 DEF OffStays
  <2>. QED
    BY <1>3, <1>4, <2>2, <2>3, <2>4
<1>7. CASE StartupQueued \/ Breaks \/ Boot \/ \E mode \in Captures : HealBusy(mode)
  <2>1. UNCHANGED <<run, snap, journal, requests, released>> /\ heals' \subseteq heals
    BY <1>7 DEF StartupQueued, Breaks, Boot, HealBusy
  <2>. QED
    BY <1>3, <2>1 DEF OffStays
<1>8. CASE StartupRecovery
  <2>1. /\ snap'.committed = "off" /\ snap'.desired \in {journal.to, "off"}
        /\ run' = [[Idle EXCEPT !.op = "startup"] EXCEPT !.at = "release", !.why = "recovery", !.clean = TRUE]
        /\ UNCHANGED <<journal, requests, heals, released>>
    BY <1>8 DEF StartupRecovery, Recover, Snapshot
  <2>2. run'.target = "off" /\ run'.from = "off" /\ run'.op = "startup" /\ run'.why = "recovery"
    BY <2>1 DEF Idle
  <2>. QED
    BY <1>1, <2>1, <2>2 DEF OffStays, Captures
<1>9. CASE OtherTransaction
  <2>1. run' = Idle \/ run' = [Idle EXCEPT !.op = "other"]
    BY <1>9 DEF OtherTransaction, Finish
  <2>2. "other" \in Ops \ (Captures \cup {"restart", "heal"})
    BY DEF Ops, Captures
  <2>3. UNCHANGED <<snap, journal, requests, heals, released>>
    BY <1>9 DEF OtherTransaction
  <2>. QED
    BY <1>3, <1>4, <2>1, <2>2, <2>3 DEF OffStays
<1>10. CASE MonitorGivesUp
  BY <1>10 DEF MonitorGivesUp, OffStays, Captures
<1>11. ASSUME NEW mode \in Captures, HealBegin(mode) PROVE OffStays'
  <2>1. released => ~StillWanted(mode)
    BY <1>11 DEF HealBegin, OffStays, StillWanted, FailedActivation, Captures
  <2>2. released => run' = Idle
    BY <1>11, <2>1 DEF HealBegin, Finish
  <2>3. released' = released /\ heals' \subseteq heals /\ UNCHANGED <<snap, journal, requests>>
    BY <1>11 DEF HealBegin
  <2>. QED
    BY <1>3, <1>4, <2>2, <2>3 DEF OffStays
<1>12. ~(CheckReads \/ CheckWrites \/ DashboardFetches \/ DashboardReads \/ DashboardWrites)
  BY <1>1, <1>2 DEF CheckReads, CheckWrites, DashboardFetches, DashboardReads, DashboardWrites
<1>13. CASE Crash
  <2>1. run' = Idle /\ requests' = {} /\ heals' = {} /\ snap'.committed = "off"
    BY <1>13 DEF Crash, InitialSnapshot, Snapshot
  <2>. QED
    BY <2>1 DEF OffStays, Idle, Captures
<1>. QED
  BY <1>5, <1>6, <1>7, <1>8, <1>9, <1>10, <1>11, <1>12, <1>13, AskedAssumption

LEMMA NextKeepsOff ==
  ASSUME OnlyTransactionsWrite, MInv, SInv, OffStays, [Next]_vars
  PROVE  OffStays'
<1>1. CASE Next
  BY <1>1, EnterKeepsOff, StepsKeepOff, AroundKeepsOff DEF Next, TransactionStep
<1>2. CASE UNCHANGED vars
  BY <1>2 DEF vars, inputs, OffStays
<1>. QED
  BY <1>1, <1>2

(* Once the user was told that capture is off, and has not asked for it    *)
(* again, no repair, retry, recovery or restart of the launcher brings it  *)
(* back: under the same assumption, and with any number of requests.       *)
THEOREM OffStaysOff == OnlyTransactionsWrite => (Spec => OffHolds)
<1>. SUFFICES ASSUME OnlyTransactionsWrite PROVE Spec => OffHolds
  OBVIOUS
<1>1. Init => OffStays
  BY DEF Init, OffStays
<1>2. MInv /\ SInv /\ OffStays /\ [Next]_vars => OffStays'
  BY NextKeepsOff
<1>3. ASSUME MInv, OffStays, [Next]_vars
      PROVE  [released /\ released' => (proxy' => proxy) /\ (svc' \in Captures => svc' = svc)]_vars
  <2>1. CASE Next
    <3>1. ASSUME released, proxy', ~proxy PROVE FALSE
      <4>1. run.target # "off"
        BY <2>1, <3>1, OnlyTransitionsMutate DEF ApplyProxy, ApplyProxyFailed
      <4>. QED
        BY <1>3, <3>1, <4>1 DEF OffStays
    <3>2. ASSUME released, svc' \in Captures, svc' # svc PROVE FALSE
      <4>1. run.target \in Captures
        BY <2>1, <3>2, OnlyTransitionsMutate DEF Prepared
      <4>. QED
        BY <1>3, <3>2, <4>1 DEF OffStays, Captures
    <3>. QED
      BY <3>1, <3>2
  <2>2. CASE UNCHANGED vars
    BY <2>2
  <2>. QED
    BY <1>3, <2>1, <2>2
<1>. QED
  BY <1>1, <1>2, <1>3, MInvHolds, SInvHolds, PTL DEF Spec, OffHolds
=============================================================================
