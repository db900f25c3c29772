------------------------------- MODULE MCAgent -------------------------------
(* The operations and the connections of the Agent, each component by itself: *)
(* `part` is chosen in the initial state, and the others rest in theirs.      *)
EXTENDS CoreUpdate, CaptureComposites, PipeConnection, PipeListener

VARIABLE part

AgentParts == {"update", "change", "pipe", "listener"}

agentVars == <<part, updateVars, changeVars, pipeVars, listenerVars>>

\* One initial state of a component is enough where it rests.
RestingOption == CHOOSE o \in Options : TRUE

AgentInit ==
    /\ part \in AgentParts
    /\ UpdateInit /\ (part # "update" => isActive /\ capture)
    /\ ChangeInit /\ (part # "change" => chosen["core"] = RestingOption /\ change.target = RestingOption)
    /\ PipeInit /\ ListenerInit

UpdatePart == part = "update" /\ UpdateNext /\ UNCHANGED <<part, changeVars, pipeVars, listenerVars>>
ChangePart == part = "change" /\ ChangeNext /\ UNCHANGED <<part, updateVars, pipeVars, listenerVars>>
PipePart == part = "pipe" /\ PipeNext /\ UNCHANGED <<part, updateVars, changeVars, listenerVars>>
ListenerPart == part = "listener" /\ ListenerNext /\ UNCHANGED <<part, updateVars, changeVars, pipeVars>>
AgentNext == UpdatePart \/ ChangePart \/ PipePart \/ ListenerPart

\* No fair action is enabled in a component that rests.
AgentSpec ==
    /\ AgentInit /\ [][AgentNext]_agentVars
    /\ UpdateFairness /\ PipeFairness /\ ListenerFairness

AgentTypeOK ==
    CASE part = "update" -> UpdateTypeOK [] part = "change" -> ChangeTypeOK
      [] part = "pipe" -> PipeTypeOK [] part = "listener" -> ListenerTypeOK

\* Handles, goroutines and channels of the pipes: HandlesAreSafe and
\* ListenerLeavesNothing (internal/pipe/pipe_windows.go).
PipesAreSafe == HandlesAreSafe /\ ListenerLeavesNothing

\* An installation keeps the transaction reachable, and one failure leaves one
\* version: HeldIsReachable and OneFailureIsSurvived (core_update_session.go,
\* navo_app/core_update.go).
UpdatesAreSafe == HeldIsReachable /\ OneFailureIsSurvived

\* A session of the core update gives its transaction back, and every Close of a pipe
\* returns: SessionsEnd, CloseReturns and ListenerCloses (core_update_session.go:114-120,
\* 321-401, pipe_windows.go:214-238, 357-380).
AgentReturns == SessionsEnd /\ CloseReturns /\ ListenerCloses
=============================================================================
