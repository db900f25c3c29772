------------------------------- MODULE Lifecycle -------------------------------
(***************************************************************************)
(* The launcher (cmd/navo/main.go, ui_process.go) and what runs inside it: *)
(* the Service (internal/service/service.go: Run, shutdown), the Agent     *)
(* (internal/agent/agent.go: Run, shutdown), the tray, the processes of    *)
(* the window, and one request at a time that changes the capture.  They   *)
(* start in a fixed order and are stopped while they still work, by a      *)
(* signal, by the user or by each other.  What becomes of Windows is       *)
(* whether the system proxy is Navo's and whether TUN routes are installed.*)
(***************************************************************************)
EXTENDS Naturals

CONSTANT LifeQuotas     \* bounds: requests and processes of the window, one of these pairs

VARIABLES
    launcher,   \* where main is
    serviceRun,    \* where Service.Run is
    agentRun,      \* where Agent.Run is
    tray,       \* the icon of the tray
    ended,      \* what has been told to stop
    holder,      \* who has the connection transaction
    request,    \* the request in flight: who asked, for what, how far it is
    windows,    \* what Windows has of Navo
    window,     \* uiProcessManager and its processes
    tardy,       \* history: who took a request after his shutdown
    quota       \* what is left of the bounds

lifeVars == <<launcher, serviceRun, agentRun, tray, ended, holder, request, windows, window, tardy, quota>>

NoRequest == [by |-> "nobody", mode |-> "off", at |-> "none", switch |-> FALSE]
NoWindow == [slot |-> "none", alive |-> 0, visible |-> FALSE, leaving |-> 0, event |-> FALSE]
Clean == [proxy |-> FALSE, network |-> FALSE]

Over == {"exited", "forced", "fatal"}
Finished == {"done", "failed"}
Alive == launcher \notin Over

\* A crash may have left anything; the icon of the tray may be missing.
LifeInit ==
    /\ launcher = "service" /\ serviceRun = "recovering" /\ agentRun = "absent" /\ tray = "absent"
    /\ ended = {} /\ holder = "none" /\ request = NoRequest /\ quota \in LifeQuotas
    /\ windows \in [proxy : BOOLEAN, network : BOOLEAN] /\ tardy = {}
    /\ window = NoWindow

-----------------------------------------------------------------------------
(* The window: one process, found by its window or by the slot of the manager *)

StartWindow ==
    /\ quota.shows > 0 /\ quota' = [quota EXCEPT !.shows = @ - 1]
    /\ window' = [window EXCEPT !.slot = "live", !.alive = @ + 1, !.visible = FALSE]

\* Show: a window that can be focused, or a process that has not ended, is enough.
\* `ok` says whether a process that is needed can be started.
Show(ok) ==
    IF ok /\ ~window.visible /\ window.slot # "live" THEN StartWindow
    ELSE (ok \/ (~window.visible /\ window.slot # "live")) /\ UNCHANGED <<window, quota>>

\* The tray and a second launcher ask for the window at any time.
AskWindow ==
    /\ Alive /\ (tray = "up" \/ agentRun \notin {"absent", "opening"} \cup Finished)
    /\ Show(TRUE)
    /\ UNCHANGED <<launcher, serviceRun, agentRun, tray, ended, holder, request, windows, tardy>>

WindowAppears ==
    /\ Alive /\ window.slot = "live" /\ ~window.visible /\ window' = [window EXCEPT !.visible = TRUE]
    /\ UNCHANGED <<launcher, serviceRun, agentRun, tray, ended, holder, request, windows, tardy, quota>>

ProcessEnded == [window EXCEPT !.alive = @ - 1, !.visible = FALSE, !.leaving = @ + 1, !.slot = "gone"]

WindowCloses ==
    /\ Alive /\ window.slot = "live" /\ window' = ProcessEnded
    /\ UNCHANGED <<launcher, serviceRun, agentRun, tray, ended, holder, request, windows, tardy, quota>>

\* observe: the slot is cleared by the goroutine of the process that is in it,
\* and a full channel of events loses the second one.
Observe ==
    /\ Alive /\ window.leaving > 0
    /\ \E own \in BOOLEAN :
        /\ IF own THEN window.slot = "gone" ELSE window.leaving > (IF window.slot = "gone" THEN 1 ELSE 0)
        /\ window' = [window EXCEPT !.leaving = @ - 1, !.event = TRUE, !.slot = IF own THEN "none" ELSE @]
    /\ UNCHANGED <<launcher, serviceRun, agentRun, tray, ended, holder, request, windows, tardy, quota>>

-----------------------------------------------------------------------------
(* main: start *)

\* waitForServiceStartup: ready, ended early, or too slow.
CreateAgent ==
    /\ launcher = "service"
    /\ \/ serviceRun \in {"ready", "closing", "done"} /\ launcher' = "show" /\ agentRun' = "opening"
       \/ launcher' = "fatal" /\ UNCHANGED agentRun
    /\ UNCHANGED <<serviceRun, tray, ended, holder, request, windows, window, tardy, quota>>

\* A silent start shows nothing; a window that cannot be started is fatal.
FirstWindow ==
    /\ launcher = "show"
    /\ \/ launcher' = "tray" /\ UNCHANGED <<window, quota>>
       \/ Show(TRUE) /\ launcher' = "tray"
       \/ Show(FALSE) /\ launcher' = "fatal"
    /\ UNCHANGED <<serviceRun, agentRun, tray, ended, holder, request, windows, tardy>>

\* Without an icon there is a window, whose end then ends the program.
StartTray ==
    /\ launcher = "tray"
    /\ \/ tray' = "up" /\ launcher' = "wait" /\ UNCHANGED <<window, quota>>
       \/ tray' = "missing" /\ Show(TRUE) /\ launcher' = "wait"
       \/ tray' = "missing" /\ Show(FALSE) /\ launcher' = "fatal"
    /\ UNCHANGED <<serviceRun, agentRun, ended, holder, request, windows, tardy>>

-----------------------------------------------------------------------------
(* main: stop *)

\* RunStandalone of the Service catches an interrupt too.
Interrupt ==
    /\ Alive /\ "signal" \notin ended /\ ended' = ended \cup {"signal", "service"}
    /\ UNCHANGED <<launcher, serviceRun, agentRun, tray, holder, request, windows, window, tardy, quota>>

\* The exit item of the tray, or the request of the window.
RequestExit ==
    /\ Alive /\ tray = "up" /\ ended' = ended \cup {"exit"}
    /\ UNCHANGED <<launcher, serviceRun, agentRun, tray, holder, request, windows, window, tardy, quota>>

WakeUp ==
    /\ launcher = "wait"
    /\ \/ ended \cap {"signal", "exit"} # {}
       \/ tray = "missing" /\ window.event
       \/ agentRun \in Finished \/ serviceRun \in Finished
    /\ launcher' = "close"
    /\ UNCHANGED <<serviceRun, agentRun, tray, ended, holder, request, windows, window, tardy, quota>>

\* tray.Close waits for two seconds only.
CloseTray ==
    /\ launcher = "close" /\ launcher' = "disable" /\ (tray' = "closed" \/ UNCHANGED tray)
    /\ UNCHANGED <<serviceRun, agentRun, ended, holder, request, windows, window, tardy, quota>>

DisableProxy ==
    /\ launcher = "disable" /\ launcher' = "cancel" /\ windows' = [windows EXCEPT !.proxy = FALSE]
    /\ UNCHANGED <<serviceRun, agentRun, tray, ended, holder, request, window, tardy, quota>>

CancelAgent ==
    /\ launcher = "cancel" /\ launcher' = "kill" /\ ended' = ended \cup {"agent", "service"}
    /\ UNCHANGED <<serviceRun, agentRun, tray, holder, request, windows, window, tardy, quota>>

StopWindow ==
    /\ launcher = "kill" /\ launcher' = "join"
    /\ window' = IF window.slot = "live" THEN ProcessEnded ELSE window
    /\ UNCHANGED <<serviceRun, agentRun, tray, ended, holder, request, windows, tardy, quota>>

\* Both have ended, or three seconds are over; the Job Object kills what is left.
Join ==
    /\ launcher = "join" /\ agentRun \in Finished /\ serviceRun \in Finished /\ launcher' = "exited"
    /\ UNCHANGED <<serviceRun, agentRun, tray, ended, holder, request, windows, window, tardy, quota>>

ForceExit ==
    /\ launcher = "join" /\ (agentRun \notin Finished \/ serviceRun \notin Finished) /\ launcher' = "forced"
    /\ UNCHANGED <<serviceRun, agentRun, tray, ended, holder, request, windows, window, tardy, quota>>

\* The program is started again: what it left in Windows is still there.
StartAgain ==
    /\ ~Alive /\ launcher' = "service" /\ serviceRun' = "recovering" /\ agentRun' = "absent" /\ tray' = "absent"
    /\ ended' = {} /\ holder' = "none" /\ request' = NoRequest /\ tardy' = {} /\ window' = NoWindow
    /\ UNCHANGED <<windows, quota>>

-----------------------------------------------------------------------------
(* The Service *)

\* The journal of the network is recovered before anybody can ask for anything.
StartService ==
    /\ Alive /\ serviceRun = "recovering"
    /\ \/ serviceRun' = "ready" /\ windows' = [windows EXCEPT !.network = FALSE]
       \/ serviceRun' = "failed" /\ UNCHANGED windows
    /\ UNCHANGED <<launcher, agentRun, tray, ended, holder, request, window, tardy, quota>>

LeaveService ==
    /\ Alive /\ serviceRun = "ready" /\ "service" \in ended /\ serviceRun' = "closing"
    /\ UNCHANGED <<launcher, agentRun, tray, ended, holder, request, windows, window, tardy, quota>>

\* shutdown waits for the capture mutex, which a request holds while it prepares.
ShutdownService ==
    /\ Alive /\ serviceRun = "closing" /\ request.at # "preparing"
    /\ serviceRun' = "done" /\ windows' = [windows EXCEPT !.network = FALSE]
    /\ UNCHANGED <<launcher, agentRun, tray, ended, holder, request, window, tardy, quota>>

-----------------------------------------------------------------------------
(* The Agent *)

Cancelled == "agent" \in ended

\* The pipe of the window is open before the recovery; without it Run returns.
OpenPipe ==
    /\ Alive /\ agentRun = "opening" /\ agentRun' \in {"recovering", "failed"}
    /\ UNCHANGED <<launcher, serviceRun, tray, ended, holder, request, windows, window, tardy, quota>>

BeginRecovery ==
    /\ Alive /\ agentRun = "recovering"
    /\ \/ holder = "none" /\ holder' = "recovery" /\ UNCHANGED agentRun
       \/ Cancelled /\ holder # "recovery" /\ agentRun' = "watching" /\ UNCHANGED holder
    /\ UNCHANGED <<launcher, serviceRun, tray, ended, request, windows, window, tardy, quota>>

\* A start at login goes on to connect.
EndRecovery ==
    /\ Alive /\ agentRun = "recovering" /\ holder = "recovery" /\ holder' = "none"
    /\ windows' = [windows EXCEPT !.proxy = FALSE] /\ agentRun' \in {"watching", "login"}
    /\ UNCHANGED <<launcher, serviceRun, tray, ended, request, window, tardy, quota>>

LoginConnect ==
    /\ Alive /\ agentRun = "login" /\ request.at = "none"
    /\ agentRun' = "connecting" /\ request' \in {[NoRequest EXCEPT !.by = "login", !.mode = m, !.at = "asked"] : m \in {"proxy", "tun"}}
    /\ UNCHANGED <<launcher, serviceRun, tray, ended, holder, windows, window, tardy, quota>>

LoginDone ==
    /\ Alive /\ agentRun = "connecting" /\ request.by # "login" /\ agentRun' = "watching"
    /\ UNCHANGED <<launcher, serviceRun, tray, ended, holder, request, windows, window, tardy, quota>>

LeaveAgent ==
    /\ Alive /\ agentRun = "watching" /\ Cancelled /\ agentRun' = "closing"
    /\ UNCHANGED <<launcher, serviceRun, tray, ended, holder, request, windows, window, tardy, quota>>

\* Mutant: the proxy is disabled without waiting for the transaction.
BeginShutdownAtOnce ==
    /\ Alive /\ agentRun = "closing" /\ agentRun' = "draining" /\ UNCHANGED holder
    /\ UNCHANGED <<launcher, serviceRun, tray, ended, request, windows, window, tardy, quota>>

BeginShutdown ==
    /\ Alive /\ agentRun = "closing" /\ holder = "none" /\ holder' = "shutdown" /\ agentRun' = "draining"
    /\ UNCHANGED <<launcher, serviceRun, tray, ended, request, windows, window, tardy, quota>>

ShutdownAgent ==
    /\ Alive /\ agentRun = "draining" /\ agentRun' = "done" /\ holder' = (IF holder = "shutdown" THEN "none" ELSE holder)
    /\ windows' = [windows EXCEPT !.proxy = FALSE]
    /\ UNCHANGED <<launcher, serviceRun, tray, ended, request, window, tardy, quota>>

-----------------------------------------------------------------------------
(* A request that changes the capture *)

\* The context of the window and of the login ends with the Agent; the tray has
\* one of its own, and a restoration has the background.
Cut == Cancelled /\ request.by \in {"window", "login"}

\* From the window over the pipe, or from the tray.
AskCapture ==
    /\ Alive /\ request.at = "none" /\ quota.requests > 0 /\ quota' = [quota EXCEPT !.requests = @ - 1]
    /\ \E by \in {"window", "tray"}, m \in {"off", "proxy", "tun"}, switch \in BOOLEAN :
        /\ by = "window" => agentRun \notin {"absent", "opening"} \cup Finished /\ ~Cancelled
        /\ by = "tray" => tray = "up"
        /\ switch => m = "off"
        /\ request' = [by |-> by, mode |-> m, at |-> "asked", switch |-> switch]
    /\ UNCHANGED <<launcher, serviceRun, agentRun, tray, ended, holder, windows, window, tardy>>

Admit ==
    /\ Alive /\ request.at = "asked" /\ holder = "none" /\ holder' = "request" /\ request' = [request EXCEPT !.at = "begun"]
    /\ tardy' = IF agentRun = "done" THEN tardy \cup {"agent"} ELSE tardy
    /\ UNCHANGED <<launcher, serviceRun, agentRun, tray, ended, windows, window, quota>>

\* One that waits gives up with its context, and a shutdown supersedes it.
RefuseRequest ==
    /\ Alive /\ request.at = "asked" /\ holder # "none" /\ (Cut \/ agentRun \in {"closing", "draining"})
    /\ request' = NoRequest
    /\ UNCHANGED <<launcher, serviceRun, agentRun, tray, ended, holder, windows, window, tardy, quota>>

EndRequest == request' = NoRequest /\ holder' = "none"

\* A switch of the core or of the outbound stops the capture and starts it again.
Mode == IF ~request.switch THEN request.mode ELSE IF windows.network THEN "tun" ELSE "proxy"

\* Mutant: a request whose context is over keeps the transaction.
CallKeeping ==
    /\ Alive /\ request.at = "begun"
    /\ IF Cut \/ (request.switch /\ windows = Clean) THEN request' = NoRequest /\ UNCHANGED <<holder, tardy>>
       ELSE /\ request' = [request EXCEPT !.at = "preparing", !.mode = Mode] /\ UNCHANGED holder
            /\ tardy' = IF serviceRun = "done" THEN tardy \cup {"service"} ELSE tardy
    /\ UNCHANGED <<launcher, serviceRun, agentRun, tray, ended, windows, window, quota>>

\* Nothing is touched when the context is over before the first step, and a switch
\* has nothing to start again without a capture; Dispatch does not ask whether the
\* Service still runs.
Call ==
    /\ Alive /\ request.at = "begun"
    /\ IF Cut \/ (request.switch /\ windows = Clean) THEN EndRequest /\ UNCHANGED tardy
       ELSE /\ request' = [request EXCEPT !.at = "preparing", !.mode = Mode] /\ UNCHANGED holder
            /\ tardy' = IF serviceRun = "done" THEN tardy \cup {"service"} ELSE tardy
    /\ UNCHANGED <<launcher, serviceRun, agentRun, tray, ended, windows, window, quota>>

Failing == request' = [request EXCEPT !.at = "recover"]

PrepareCapture ==
    /\ Alive /\ request.at = "preparing"
    /\ \/ /\ windows' = [proxy |-> FALSE, network |-> request.mode = "tun"]
          /\ request' = [request EXCEPT !.at = "prepared"]
       \/ Failing /\ windows' = Clean
    /\ UNCHANGED <<launcher, serviceRun, agentRun, tray, ended, holder, window, tardy, quota>>

EnableCapture ==
    /\ Alive /\ request.at = "prepared"
    /\ IF Cut THEN Failing /\ UNCHANGED windows
       ELSE /\ windows' = [windows EXCEPT !.proxy = request.mode = "proxy"]
            /\ request' = [request EXCEPT !.at = "enabled"]
    /\ UNCHANGED <<launcher, serviceRun, agentRun, tray, ended, holder, window, tardy, quota>>

VerifyCapture ==
    /\ Alive /\ request.at = "enabled"
    /\ \/ ~Cut /\ EndRequest
       \/ Failing /\ UNCHANGED holder
    /\ UNCHANGED <<launcher, serviceRun, agentRun, tray, ended, windows, window, tardy, quota>>

\* captureFailure, in the background; a switch then brings back what was there.
RecoverCapture ==
    /\ Alive /\ request.at = "recover" /\ windows' = Clean
    /\ IF request.switch THEN request' = [request EXCEPT !.by = "restore", !.at = "begun", !.switch = FALSE] /\ UNCHANGED holder
       ELSE EndRequest
    /\ UNCHANGED <<launcher, serviceRun, agentRun, tray, ended, window, tardy, quota>>

-----------------------------------------------------------------------------
Main == CreateAgent \/ FirstWindow \/ StartTray \/ WakeUp \/ CloseTray \/ DisableProxy \/ CancelAgent \/ StopWindow \/ Join
ServiceRuns == StartService \/ LeaveService \/ ShutdownService
AgentRuns ==
    OpenPipe \/ BeginRecovery \/ EndRecovery \/ LoginConnect \/ LoginDone \/ LeaveAgent \/ BeginShutdown \/ ShutdownAgent
RequestRuns == Admit \/ RefuseRequest \/ Call \/ PrepareCapture \/ EnableCapture \/ VerifyCapture \/ RecoverCapture

LifeNext ==
    \/ Main \/ ForceExit \/ StartAgain \/ Interrupt \/ RequestExit
    \/ ServiceRuns \/ AgentRuns \/ AskCapture \/ RequestRuns
    \/ AskWindow \/ WindowAppears \/ WindowCloses \/ Observe

-----------------------------------------------------------------------------
(* Properties *)

LifeTypeOK ==
    /\ launcher \in {"service", "show", "tray", "wait", "close", "disable", "cancel", "kill", "join"} \cup Over
    /\ serviceRun \in {"recovering", "ready", "closing"} \cup Finished
    /\ agentRun \in {"absent", "opening", "recovering", "login", "connecting", "watching", "closing", "draining"} \cup Finished
    /\ tray \in {"absent", "up", "missing", "closed"} /\ ended \subseteq {"signal", "exit", "agent", "service"}
    /\ holder \in {"none", "recovery", "request", "shutdown"}
    /\ windows \in [proxy : BOOLEAN, network : BOOLEAN] /\ tardy \subseteq {"agent", "service"}

\* However often the window is asked for, by whomever, and whenever its process
\* dies, one process at most is running (ui_process.go:41-69, 97-116).
OneWindow == window.alive <= 1

\* An exit that was not forced leaves the user's own proxy setting and no TUN
\* route, whatever was in flight and whatever a crash had left.  The exceptions:
\* a request that the Agent or the Service took after its own shutdown, and an Agent
\* that ended without one because it could not open its pipe
\* (main.go:330-365, agent.go:920-955, service.go:398-449).
ExitIsClean ==
    launcher = "exited" =>
        (windows.proxy => "agent" \in tardy \/ agentRun = "failed") /\ (windows.network => "service" \in tardy)

\* No request reaches Windows before the Service has recovered the network of the
\* last session (main.go:213-219, service.go:300-309).
RecoveredFirst == request.at \notin {"none", "asked", "begun"} => serviceRun \notin {"recovering", "failed"}

\* Once main has stopped everybody, everybody leaves, even if the timer of three
\* seconds never fires: no shutdown waits for another one for ever.
EverybodyLeaves == launcher = "join" ~> launcher \in Over
=============================================================================
