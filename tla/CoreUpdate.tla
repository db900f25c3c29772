----------------------------- MODULE CoreUpdate -----------------------------
(***************************************************************************)
(* The update of a core (navo_app/core_update.go) and the session the      *)
(* Agent keeps for it (internal/agent/core_update_session.go).  The user   *)
(* interface replaces three files one after the other between a request    *)
(* that begins and one that commits or rolls back; the Agent holds the     *)
(* connection transaction all that time, across requests, and ends it by   *)
(* itself when the deadline passes.  A request is a call over a pipe: the  *)
(* interface may stop waiting for it, or die, and the Agent goes on.       *)
(***************************************************************************)
EXTENDS Naturals, Sequences, FiniteSets

CONSTANTS
    Nobody,     \* the connection transaction is free
    NoCore,     \* the target core does not run
    MaxUpdates, \* bound: installations started, one version each
    MaxUpdateFaults   \* bound: failing steps and abandoned requests

ASSUME BoundsAssumption == MaxUpdates \in Nat /\ MaxUpdateFaults \in Nat
ASSUME NamesAssumption == Nobody \notin Nat /\ NoCore \notin Nat

Updates == 1 .. MaxUpdates
Versions == 0 .. MaxUpdates
Files == <<"binary", "manifest", "sums">>
FileSet == {Files[i] : i \in DOMAIN Files}

\* The two rollbacks are requests of their own: the second is the deferred one.
Ops == {"begin", "commit", "rollback", "again"}
Rollbacks == {"rollback", "again"}
Reasons == Ops \cup {"expiry", "shutdown"}

\* Where the Agent is with a session; "open" is between two steps, with stepMu free.
Steps == {"none", "admission", "captureOff", "stop", "register", "arm", "open", "start",
          "verify", "failClosed", "recover", "restore", "finish", "clear", "closed"}
Places == {"idle", "replace", "restore"} \cup Ops

VARIABLES
    file,       \* the version of each installed file
    core,       \* the version that runs, or NoCore
    capture,    \* the committed mode of capture: on or off
    isActive,   \* the target is the core the Service uses
    owner,      \* the update that holds the connection transaction
    registered, \* coreUpdateSession, as the number of the update or Nobody
    step, why,  \* per update: what the Agent does, for which request
    session,    \* per update: activeRunning, captureStopped and the timer
    ui, update, index, backup, \* the installation under way in the interface
    inbox, reply,              \* requests the Agent has still to take; the answer on its way
    wanted,     \* capture and core as the user was last told
    updateFaults, late, closing      \* bound; a deadline passed during the work; shutdown

agent == <<owner, registered, step, why, session>>
interface == <<ui, update, index, backup>>
system == <<file, core, capture>>
history == <<wanted, updateFaults, late, closing>>
updateVars == <<system, isActive, agent, interface, inbox, reply, history>>

\* A timer that has fired waits for stepMu like any request.
Timers == {"off", "armed", "fired"}
NoSession == [activeRunning |-> FALSE, captureStopped |-> FALSE, timer |-> "off"]

UpdateInit ==
    /\ file = [f \in FileSet |-> 0] /\ isActive \in BOOLEAN
    /\ capture \in BOOLEAN
    /\ core = IF isActive /\ capture THEN 0 ELSE NoCore
    /\ owner = Nobody /\ registered = Nobody
    /\ step = [u \in Updates |-> "none"] /\ why = [u \in Updates |-> "begin"]
    /\ session = [u \in Updates |-> NoSession]
    /\ ui = "idle" /\ update = 0 /\ index = 0 /\ backup = file
    /\ inbox = {} /\ reply = "none"
    /\ wanted = [capture |-> capture, core |-> core # NoCore]
    /\ updateFaults = 0 /\ late = FALSE /\ closing = FALSE

-----------------------------------------------------------------------------
(* Helpers *)

Fault == updateFaults < MaxUpdateFaults /\ updateFaults' = updateFaults + 1 /\ UNCHANGED <<late, closing>>
NoFault == UNCHANGED <<updateFaults, late, closing>>

Goto(u, place) == step' = [step EXCEPT ![u] = place]

\* An answer nobody waits for is lost with its connection.
AnswerTo(u, op, result) == reply' = IF update = u /\ ui = op THEN result ELSE reply
Answer(u, result) == AnswerTo(u, why[u], result)

\* core.update.start: a core that runs is left alone.
Started == IF core = NoCore THEN file["binary"] ELSE core

Same == UNCHANGED <<isActive, interface, inbox>>

-----------------------------------------------------------------------------
(* handleCoreUpdateBegin *)

\* The check for a session comes before the transaction is asked for.
BeginCheck(u) ==
    /\ <<u, "begin">> \in inbox
    /\ inbox' = inbox \ {<<u, "begin">>}
    /\ IF registered # Nobody
       THEN Goto(u, "closed") /\ Answer(u, "error")
       ELSE Goto(u, "admission") /\ UNCHANGED reply
    /\ UNCHANGED <<system, isActive, interface, owner, registered, why, session, history>>

\* The transaction is granted and the state of the core is read.
BeginAdmit(u) ==
    /\ step[u] = "admission" /\ owner = Nobody
    /\ LET running == isActive /\ core # NoCore
       IN \/ /\ owner' = u /\ NoFault /\ UNCHANGED reply
             /\ session' = [session EXCEPT ![u] =
                    [NoSession EXCEPT !.activeRunning = running]]
             /\ Goto(u, CASE running /\ capture -> "captureOff"
                          [] running /\ ~capture -> "stop"
                          [] OTHER -> "register")
          \/ /\ Fault /\ Goto(u, "closed") /\ Answer(u, "error")
             /\ UNCHANGED <<owner, session>>
    /\ UNCHANGED <<system, registered, why, wanted>> /\ Same

\* The wait for the transaction ends with the context of the request.
BeginExpires(u) ==
    /\ step[u] = "admission" /\ Fault
    /\ Goto(u, "closed") /\ Answer(u, "error")
    /\ UNCHANGED <<system, owner, registered, why, session, wanted>> /\ Same

FailBegin(u) == owner' = Nobody /\ Goto(u, "closed") /\ Answer(u, "error")

\* transitionCaptureModeLocked(off).  It may stop the core; when it fails, what
\* it leaves is what the Agent shows from then on.
CaptureOff(u) ==
    /\ step[u] = "captureOff"
    /\ core' \in {core, NoCore}
    /\ \/ /\ capture' = FALSE /\ Goto(u, "stop")
          /\ session' = [session EXCEPT ![u].captureStopped = TRUE]
          /\ NoFault /\ UNCHANGED <<owner, reply, wanted>>
       \/ /\ capture' \in {FALSE, core' # NoCore} /\ FailBegin(u)
          /\ wanted' = [capture |-> capture', core |-> core' # NoCore]
          /\ Fault /\ UNCHANGED session
    /\ UNCHANGED <<file, registered, why>> /\ Same

\* core.update.stop; after a failure the core is started and capture restored.
BeginStop(u) ==
    /\ step[u] = "stop"
    /\ \/ core' = NoCore /\ Goto(u, "register") /\ NoFault
       \/ core' \in {core, NoCore} /\ Goto(u, "recover") /\ Fault
    /\ UNCHANGED <<file, capture, owner, registered, why, session, reply, wanted>> /\ Same

Register(u) ==
    /\ step[u] = "register"
    /\ registered' = u /\ Goto(u, "arm")
    /\ UNCHANGED <<system, owner, why, session, reply, history>> /\ Same

\* The timer is armed and its goroutine started; the reply names the session.
Arm(u) ==
    /\ step[u] = "arm"
    /\ session' = [session EXCEPT ![u].timer = "armed"]
    /\ Goto(u, "open") /\ Answer(u, "ok")
    /\ UNCHANGED <<system, owner, registered, why, history>> /\ Same

-----------------------------------------------------------------------------
(* Commit, rollback, expiry and shutdown.  All but Begin run under stepMu.    *)

\* The lookup by session, and the check of "finished" under stepMu.
Refuse(u, op) ==
    /\ <<u, op>> \in inbox /\ op # "begin"
    /\ step[u] \in {"clear", "closed"}
    /\ inbox' = inbox \ {<<u, op>>} /\ AnswerTo(u, op, "error")
    /\ UNCHANGED <<system, isActive, interface, agent, history>>

Take(u, op) ==
    /\ <<u, op>> \in inbox /\ step[u] = "open"
    /\ inbox' = inbox \ {<<u, op>>} /\ why' = [why EXCEPT ![u] = op]
    /\ UNCHANGED <<system, isActive, interface, owner, registered, session, reply, history>>

Commit(u) ==
    Take(u, "commit") /\ Goto(u, IF session[u].activeRunning THEN "start" ELSE "finish")

RollbackSession(u) == \E op \in Rollbacks : Take(u, op) /\ Goto(u, "recover")

CommitStart(u) ==
    /\ step[u] = "start"
    /\ \/ core' = Started /\ Goto(u, "verify") /\ NoFault
       \/ core' \in {core, Started} /\ Goto(u, "failClosed") /\ Fault
    /\ UNCHANGED <<file, capture, owner, registered, why, session, reply, wanted>> /\ Same

\* The capture comes back, or the data plane is verified without it.
CommitVerify(u) ==
    /\ step[u] = "verify"
    /\ \/ capture' = (capture \/ session[u].captureStopped) /\ Goto(u, "finish") /\ NoFault
       \/ UNCHANGED capture /\ Goto(u, "failClosed") /\ Fault
    /\ UNCHANGED <<file, core, owner, registered, why, session, reply, wanted>> /\ Same

\* Mutant: a failed commit leaves the new core running.
FailOpen(u) ==
    /\ step[u] = "failClosed" /\ NoFault
    /\ Goto(u, "open") /\ Answer(u, "error")
    /\ UNCHANGED <<system, owner, registered, why, session, wanted>> /\ Same

\* A commit that failed stops the core and leaves the session open.
FailClosed(u) ==
    /\ step[u] = "failClosed"
    /\ \/ core' = NoCore /\ NoFault
       \/ core' \in {core, NoCore} /\ Fault
    /\ Goto(u, "open") /\ Answer(u, "error")
    /\ UNCHANGED <<file, capture, owner, registered, why, session, wanted>> /\ Same

TimerFires(u) ==
    /\ session[u].timer = "armed"
    /\ session' = [session EXCEPT ![u].timer = "fired"]
    /\ UNCHANGED <<system, owner, registered, step, why, reply, history>> /\ Same

\* Mutant: the expiry does not look whether the session is finished.
ExpireUnchecked(u) ==
    /\ session[u].timer = "fired" /\ step[u] \in {"open", "clear", "closed"}
    /\ session' = [session EXCEPT ![u].timer = "off"]
    /\ Goto(u, "recover") /\ why' = [why EXCEPT ![u] = "expiry"]
    /\ UNCHANGED <<system, owner, registered, reply, history>> /\ Same

\* expireCoreUpdateSession, once it has stepMu.  It is late when the interface
\* still works on the files.
Expire(u) ==
    /\ session[u].timer = "fired" /\ step[u] \in {"open", "clear", "closed"}
    /\ session' = [session EXCEPT ![u].timer = "off"]
    /\ IF step[u] = "open"
       THEN /\ Goto(u, "recover") /\ why' = [why EXCEPT ![u] = "expiry"]
            /\ late' = (late \/ (update = u /\ ui # "idle"))
       ELSE UNCHANGED <<step, why, late>>
    /\ UNCHANGED <<system, owner, registered, reply, wanted, updateFaults, closing>> /\ Same

\* abortCoreUpdateForShutdown: only a registered session is found.
Shutdown ==
    /\ ~closing /\ closing' = TRUE
    /\ \/ /\ registered = Nobody \/ (registered # Nobody /\ step[registered] \in {"clear", "closed"})
          /\ UNCHANGED <<step, why>>
       \/ /\ registered # Nobody /\ step[registered] = "open"
          /\ Goto(registered, "recover") /\ why' = [why EXCEPT ![registered] = "shutdown"]
    /\ UNCHANGED <<system, owner, registered, session, reply, wanted, updateFaults, late>> /\ Same

\* recoverCoreUpdateSessionLocked: the core first, and the capture if it started.
Recover(u) ==
    /\ step[u] = "recover"
    /\ LET active == session[u].activeRunning
       IN \/ /\ core' = (IF active THEN Started ELSE core) /\ NoFault
             /\ Goto(u, IF session[u].captureStopped /\ why[u] # "shutdown" THEN "restore" ELSE "finish")
          \/ /\ active /\ core' \in {core, Started} /\ Fault
             /\ Goto(u, "finish")
    /\ UNCHANGED <<file, capture, owner, registered, why, session, reply, wanted>> /\ Same

Restore(u) ==
    /\ step[u] = "restore"
    /\ \/ capture' = TRUE /\ NoFault
       \/ UNCHANGED capture /\ Fault
    /\ Goto(u, "finish")
    /\ UNCHANGED <<file, core, owner, registered, why, session, reply, wanted>> /\ Same

\* The transaction is finished; a begin that waits for it may go on at once.  A
\* begin that failed has no session to finish.
Finish(u) ==
    /\ step[u] = "finish"
    /\ owner' = Nobody
    /\ session' = [session EXCEPT ![u].timer = IF @ = "armed" THEN "off" ELSE @]
    /\ IF why[u] = "begin"
       THEN Goto(u, "closed") /\ Answer(u, "error")
       ELSE Goto(u, "clear") /\ UNCHANGED reply
    /\ UNCHANGED <<system, registered, why, history>> /\ Same

\* The session leaves the Agent, unless another one is registered already.
Clear(u) ==
    /\ step[u] = "clear"
    /\ registered' = IF registered = u THEN Nobody ELSE registered
    /\ Goto(u, "closed") /\ why' = [why EXCEPT ![u] = "begin"]
    /\ session' = [session EXCEPT ![u] = [NoSession EXCEPT !.timer = session[u].timer]]
    /\ \/ Answer(u, "ok")
       \/ why[u] \in Rollbacks /\ updateFaults > 0 /\ Answer(u, "error")
    /\ UNCHANGED <<system, owner, history>> /\ Same

-----------------------------------------------------------------------------
(* The user interface: InstallCoreUpdate *)

SendOp(op) == ui' = op /\ inbox' = inbox \cup {<<update', op>>}

\* The installed binary must have the digest of the manifest; backups are read.
Install ==
    /\ ui = "idle" /\ update < MaxUpdates /\ ~closing
    /\ file["binary"] = file["manifest"]
    /\ update' = update + 1 /\ backup' = file /\ index' = 0
    /\ SendOp("begin")
    /\ UNCHANGED <<system, isActive, agent, reply, history>>

\* An answer to the request the interface waits for.
Replied(op, result) == ui = op /\ reply = result /\ reply' = "none"

Begun ==
    /\ \/ Replied("begin", "ok") /\ ui' = "replace" /\ index' = 1
       \/ Replied("begin", "error") /\ ui' = "idle" /\ UNCHANGED index
    /\ UNCHANGED <<system, isActive, agent, update, backup, inbox, history>>

\* A file of which the system runs the image cannot be replaced.
Replaceable(f) == f # "binary" \/ core = NoCore

StartRestore == ui' = "restore" /\ index' = 1 /\ UNCHANGED inbox

\* commitCoreUpdate: each file is replaced as a whole, or not at all.
Replace ==
    /\ ui = "replace"
    /\ LET f == Files[index]
       IN \/ /\ Replaceable(f) /\ NoFault
             /\ file' = [file EXCEPT ![f] = update]
             /\ UNCHANGED update
             /\ IF index = Len(Files) THEN SendOp("commit") /\ index' = 0
                ELSE index' = index + 1 /\ UNCHANGED <<ui, inbox>>
          \/ /\ ~Replaceable(f) /\ NoFault
             /\ StartRestore /\ UNCHANGED <<file, update>>
          \/ /\ Fault
             /\ StartRestore /\ UNCHANGED <<file, update>>
    /\ UNCHANGED <<core, capture, isActive, agent, backup, reply, wanted>>

Committed ==
    /\ \/ Replied("commit", "ok") /\ ui' = "idle" /\ UNCHANGED <<index, inbox>>
       \/ Replied("commit", "error") /\ StartRestore
    /\ UNCHANGED <<system, isActive, agent, update, backup, history>>

\* Mutant: the last of the backups is not the end of them.
RestoreFilesOverrun ==
    /\ ui = "restore" /\ NoFault
    /\ file' = [file EXCEPT !["sums"] = backup["sums"]]
    /\ index' = index + 1
    /\ UNCHANGED <<ui, update, inbox>>
    /\ UNCHANGED <<core, capture, isActive, agent, backup, reply, wanted>>

\* restoreCoreUpdate goes on after a file it could not restore.
RestoreFiles ==
    /\ ui = "restore"
    /\ LET f == Files[index]
       IN \/ Replaceable(f) /\ file' = [file EXCEPT ![f] = backup[f]] /\ NoFault
          \/ ~Replaceable(f) /\ UNCHANGED file /\ NoFault
          \/ UNCHANGED file /\ Fault
    /\ UNCHANGED update
    /\ IF index = Len(Files) THEN SendOp("rollback") /\ index' = 0
       ELSE index' = index + 1 /\ UNCHANGED <<ui, inbox>>
    /\ UNCHANGED <<core, capture, isActive, agent, backup, reply, wanted>>

\* A rollback that failed is asked for once more when the function returns.
RolledBack ==
    /\ UNCHANGED update
    /\ \/ Replied("rollback", "ok") /\ ui' = "idle" /\ UNCHANGED inbox
       \/ Replied("rollback", "error") /\ SendOp("again")
       \/ \E result \in {"ok", "error"} : Replied("again", result) /\ ui' = "idle" /\ UNCHANGED inbox
    /\ UNCHANGED <<system, isActive, agent, index, backup, history>>

\* The interface stops waiting, or dies.  In the middle of the files, or with a
\* commit under way, that is the end of the guarantee ("late").
Abandon ==
    /\ ui # "idle" /\ reply' = "none" /\ updateFaults < MaxUpdateFaults /\ updateFaults' = updateFaults + 1
    /\ \/ ui' = "idle" /\ late' = (late \/ ui \notin {"begin", "rollback", "again"})
          /\ index' = 0 /\ UNCHANGED inbox
       \/ ui = "commit" /\ StartRestore /\ late' = TRUE
    /\ UNCHANGED <<system, isActive, agent, update, backup, wanted, closing>>

-----------------------------------------------------------------------------
(* Any other transaction: the user switches capture on or off. *)
Switch ==
    /\ owner = Nobody /\ ~closing
    /\ capture' = ~capture
    /\ IF ~isActive THEN UNCHANGED core
       ELSE IF capture' THEN core' = Started ELSE core' \in {core, NoCore}
    /\ wanted' = [capture |-> capture', core |-> core' # NoCore]
    /\ UNCHANGED <<file, isActive, agent, interface, inbox, reply, updateFaults, late, closing>>

AgentStep(u) ==
    \/ BeginCheck(u) \/ BeginAdmit(u) \/ CaptureOff(u) \/ BeginStop(u)
    \/ Register(u) \/ Arm(u) \/ Commit(u) \/ RollbackSession(u) \/ CommitStart(u) \/ CommitVerify(u)
    \/ FailClosed(u) \/ TimerFires(u) \/ Expire(u) \/ Recover(u) \/ Restore(u) \/ Finish(u) \/ Clear(u)
    \/ \E op \in Ops : Refuse(u, op)

InterfaceStep == Install \/ Begun \/ Replace \/ Committed \/ RestoreFiles \/ RolledBack \/ Abandon

UpdateNext == (\E u \in Updates : AgentStep(u) \/ BeginExpires(u)) \/ InterfaceStep \/ Switch \/ Shutdown

\* The Agent finishes what it has begun and its timers fire; nothing is assumed
\* of the interface.
UpdateFairness == \A u \in Updates : WF_updateVars(AgentStep(u))

UpdateSpec == UpdateInit /\ [][UpdateNext]_updateVars /\ UpdateFairness

-----------------------------------------------------------------------------
(* Properties *)

UpdateTypeOK ==
    /\ file \in [FileSet -> Versions] /\ backup \in [FileSet -> Versions]
    /\ core \in Versions \cup {NoCore} /\ capture \in BOOLEAN /\ isActive \in BOOLEAN
    /\ owner \in Updates \cup {Nobody} /\ registered \in Updates \cup {Nobody}
    /\ step \in [Updates -> Steps] /\ why \in [Updates -> Reasons]
    /\ session \in [Updates -> [activeRunning : BOOLEAN, captureStopped : BOOLEAN,
                                timer : Timers]]
    /\ ui \in Places /\ update \in Versions /\ index \in 0 .. Len(Files)
    /\ inbox \subseteq Updates \X Ops /\ reply \in {"none", "ok", "error"}
    /\ wanted \in [capture : BOOLEAN, core : BOOLEAN]
    /\ updateFaults \in 0 .. MaxUpdateFaults /\ late \in BOOLEAN /\ closing \in BOOLEAN

\* Whoever holds the connection transaction between two requests can be reached:
\* its session is registered, and its timer runs (core_update_session.go:105-125,
\* 358-368).
HeldIsReachable ==
    \A u \in Updates :
        /\ step[u] = "open" => owner = u /\ registered = u /\ session[u].timer # "off"
        /\ owner = u => step[u] \notin {"none", "admission", "clear", "closed"}

\* A session that has been finished stays finished: no late commit, rollback or
\* expiry works on the core again (core_update_session.go:143, 224, 375).
FinishedOnce ==
    [][\A u \in Updates : step[u] \in {"clear", "closed"} => step'[u] \in {"clear", "closed"}]_updateVars

Settled ==
    /\ owner = Nobody /\ inbox = {} /\ ui = "idle" /\ ~closing
    /\ \A u \in Updates : step[u] \in {"none", "closed"}

\* One failure, of a step or of the interface waiting for it, leaves the three
\* files of one version, the core running with it when it ran before, and the
\* capture as the user knows it (core_update.go:186-202, core_update_session.go:175-330).
OneFailureIsSurvived ==
    Settled /\ updateFaults <= 1 /\ ~late =>
        /\ file["manifest"] = file["binary"] /\ file["sums"] = file["binary"]
        /\ isActive /\ wanted.core => core = file["binary"]
        /\ capture = wanted.capture

\* The transaction is given back, even if nobody commits or rolls back
\* (core_update_session.go:115-122).
Released == \A u \in Updates : owner = u ~> owner # u

SessionsEnd == FinishedOnce /\ Released
=============================================================================
