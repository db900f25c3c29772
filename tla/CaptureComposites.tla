-------------------------- MODULE CaptureComposites --------------------------
(***************************************************************************)
(* The composite operations of the Agent (internal/agent/                  *)
(* capture_transition.go): the user selects another core or another        *)
(* outbound, changes the sources or changes the routing policy.  Under one *)
(* connection transaction the Agent takes capture down where it must, asks *)
(* the Service for the change, brings capture back and verifies it, and on *)
(* any failure tries to put the previous choice and the capture back.      *)
(* A capture transition is one step here; CaptureTransition details it.    *)
(***************************************************************************)
EXTENDS Naturals, FiniteSets

CONSTANTS
    Options,        \* the cores, outbounds, source lists or policies to choose from
    NoOption,       \* no outbound has been verified yet
    MaxChanges,     \* bound: changes asked for
    MaxChangeFaults \* bound: steps that fail

ASSUME ChangeAssumption ==
    NoOption \notin Options /\ MaxChanges \in Nat /\ MaxChangeFaults \in Nat

Subjects == {"core", "outbound", "source", "policy"}

\* The subjects that are changed with capture off only.
Stopping == Subjects \ {"policy"}

Stages == {"ready", "stop", "send", "verify", "rollback", "restore", "revert", "reverify", "close"}

VARIABLES
    chosen,         \* what the Service is configured with; "outbound" is selected_id
    verified,       \* active_id: the outbound of the last verified runtime
    captured,       \* CommittedMode is not off
    faulted,        \* the snapshot is FAULTED
    confirmed,         \* the choices capture was last verified with
    change, stage,  \* the operation under way
    outcome,        \* the answer to the last operation, with what it was about
    unsure,         \* an answer of the Service about the policy was lost
    changes, changeFaults

changeVars == <<chosen, verified, captured, faulted, confirmed, change, stage, outcome, unsure, changes, changeFaults>>

Changes == [subject : Subjects, target : Options, previous : Options \cup {NoOption}, resume : BOOLEAN]
Answers == {"none", "unchanged", "done", "refused", "failed"}

ChangeInit ==
    /\ \E c \in Options : chosen = [s \in Subjects |-> c] /\ confirmed = chosen
    /\ verified = NoOption
    /\ captured = FALSE /\ faulted = FALSE
    /\ \E c \in Options : change = [subject |-> "core", target |-> c, previous |-> NoOption, resume |-> FALSE]
    /\ stage = "ready" /\ outcome = "none" /\ unsure = FALSE
    /\ changes = 0 /\ changeFaults = 0

-----------------------------------------------------------------------------
Fails == changeFaults < MaxChangeFaults /\ changeFaults' = changeFaults + 1
Works == UNCHANGED changeFaults

End(answer) == stage' = "ready" /\ outcome' = answer
Continue(next) == stage' = next /\ UNCHANGED outcome

\* A transition to the previous mode: verified, and committed by the Service
\* (commitHealthyRuntime makes the selected outbound the active one).
CaptureUp ==
    /\ captured' = TRUE /\ faulted' = FALSE
    /\ confirmed' = chosen /\ verified' = chosen["outbound"]

\* captureFailure of a transition that began with capture off.
CaptureStaysDown == captured' = FALSE /\ faulted' = TRUE /\ UNCHANGED <<confirmed, verified>>

\* A transition to off; its own cleanup may fail and leave the mode committed.
CaptureDown(next, answer) ==
    /\ UNCHANGED <<confirmed, verified>>
    /\ \/ Works /\ captured' = FALSE /\ faulted' = FALSE /\ Continue(next)
       \/ Fails /\ captured' \in BOOLEAN /\ faulted' = TRUE /\ End(answer)

\* One request to the Service.  Its error may mean that nothing happened, or
\* that the answer was lost.
Ask(subject, value) ==
    \/ Works /\ chosen' = [chosen EXCEPT ![subject] = value]
    \/ Fails /\ chosen' \in {chosen, [chosen EXCEPT ![subject] = value]}

Accepted == changeFaults' = changeFaults

-----------------------------------------------------------------------------
(* Operations *)

\* The state a failure must bring back, as the Agent reads it.
PreviousOf(subject) == IF subject = "outbound" THEN verified ELSE chosen[subject]

\* The Agent compares the target with what it read and may have nothing to do;
\* without a verified outbound a running capture could not be restored.
BeginChange(subject, target) ==
    /\ stage = "ready" /\ changes < MaxChanges /\ changes' = changes + 1
    /\ change' = [subject |-> subject, target |-> target,
                  previous |-> PreviousOf(subject), resume |-> captured]
    /\ \/ Fails /\ End("refused")
       \/ /\ subject \in {"core", "outbound"} /\ PreviousOf(subject) = target
          /\ Works /\ End("unchanged")
       \/ /\ subject = "outbound" /\ captured /\ verified = NoOption
          /\ Works /\ End("refused")
       \/ /\ ~(subject \in {"core", "outbound"} /\ PreviousOf(subject) = target)
          /\ ~(subject = "outbound" /\ captured /\ verified = NoOption)
          /\ Works /\ Continue(IF captured /\ subject \in Stopping THEN "stop" ELSE "send")
    /\ UNCHANGED <<chosen, verified, captured, faulted, confirmed, unsure>>

StopCapture ==
    /\ stage = "stop" /\ CaptureDown("send", "refused")
    /\ UNCHANGED <<chosen, change, unsure, changes>>

\* Mutant: an error of the Service is taken for "nothing happened".
SendTrusting ==
    /\ stage = "send" /\ Ask(change.subject, change.target)
    /\ IF ~Accepted
       THEN IF change.resume THEN Continue("restore") ELSE End("failed")
       ELSE IF change.resume THEN Continue("verify") ELSE End("done")
    /\ unsure' = (unsure \/ (change.subject = "policy" /\ ~Accepted))
    /\ UNCHANGED <<verified, captured, faulted, confirmed, change, changes>>

\* The request itself.  After an error the core and the outbound are looked at;
\* the sources are left and only capture comes back; a policy is not verified.
Send ==
    /\ stage = "send" /\ Ask(change.subject, change.target)
    /\ IF Accepted
       THEN IF change.resume THEN Continue("verify") ELSE End("done")
       ELSE CASE change.subject \in {"core", "outbound"} -> Continue("rollback")
              [] change.subject = "source" /\ change.resume -> Continue("restore")
              [] OTHER -> End("failed")
    /\ unsure' = (unsure \/ (change.subject = "policy" /\ ~Accepted))
    /\ UNCHANGED <<verified, captured, faulted, confirmed, change, changes>>

\* Capture comes back with the new choice, or the new policy is probed under it.
VerifyChange ==
    /\ stage = "verify"
    /\ IF change.subject = "policy"
       THEN \/ Works /\ confirmed' = chosen /\ End("done") /\ UNCHANGED <<captured, faulted, verified>>
            \/ Fails /\ Continue("revert") /\ UNCHANGED <<confirmed, captured, faulted, verified>>
       ELSE \/ Works /\ CaptureUp /\ End("done")
            \/ /\ Fails /\ CaptureStaysDown
               /\ IF change.subject = "source" THEN End("failed") ELSE Continue("rollback")
    /\ UNCHANGED <<chosen, change, unsure, changes>>

\* reconcileActiveCore and restoreOutboundAndCapture: the actual choice is read,
\* the previous one asked for where it differs, and a core is read once more.
Rollback ==
    /\ stage = "rollback"
    /\ LET subject == change.subject
           goOn == IF change.resume THEN Continue("restore") ELSE End("failed")
       IN \/ chosen[subject] = change.previous /\ Works /\ goOn /\ UNCHANGED chosen
          \/ /\ chosen[subject] # change.previous /\ change.previous # NoOption
             /\ Ask(subject, change.previous)
             /\ IF Accepted \/ (subject = "core" /\ chosen'[subject] = change.previous)
                THEN goOn ELSE End("failed")
          \/ chosen[subject] # change.previous /\ change.previous = NoOption
             /\ Works /\ End("failed") /\ UNCHANGED chosen
          \/ Fails /\ End("failed") /\ UNCHANGED chosen
    /\ UNCHANGED <<verified, captured, faulted, confirmed, change, unsure, changes>>

RestoreCapture ==
    /\ stage = "restore" /\ End("failed")
    /\ \/ Works /\ CaptureUp
       \/ Fails /\ CaptureStaysDown
    /\ UNCHANGED <<chosen, change, unsure, changes>>

\* restoreRuntimePolicy, and the verification that must follow it.
RevertPolicy ==
    /\ stage = "revert" /\ Ask("policy", change.previous)
    /\ Continue(IF Accepted THEN "reverify" ELSE "close")
    /\ UNCHANGED <<verified, captured, faulted, confirmed, change, unsure, changes>>

ReverifyPolicy ==
    /\ stage = "reverify"
    /\ \/ Works /\ confirmed' = chosen /\ End("failed")
       \/ Fails /\ UNCHANGED confirmed /\ Continue("close")
    /\ UNCHANGED <<chosen, verified, captured, faulted, change, unsure, changes>>

\* Neither the new nor the previous policy could be proven: capture goes off.
CloseCapture ==
    /\ stage = "close"
    /\ UNCHANGED <<confirmed, verified>> /\ End("failed")
    /\ \/ Works /\ captured' = FALSE /\ faulted' = FALSE
       \/ Fails /\ captured' \in BOOLEAN /\ faulted' = TRUE
    /\ UNCHANGED <<chosen, change, unsure, changes>>

\* Other transactions switch capture on and off.
SwitchCapture ==
    /\ stage = "ready" /\ Works
    /\ \/ ~captured /\ CaptureUp /\ unsure' = FALSE
       \/ /\ captured /\ captured' = FALSE /\ faulted' = FALSE
          /\ UNCHANGED <<confirmed, verified, unsure>>
    /\ outcome' = "none"
    /\ UNCHANGED <<chosen, change, stage, changes>>

ChangeNext ==
    \/ \E s \in Subjects, c \in Options : BeginChange(s, c)
    \/ StopCapture \/ Send \/ VerifyChange \/ Rollback \/ RestoreCapture
    \/ RevertPolicy \/ ReverifyPolicy \/ CloseCapture \/ SwitchCapture

ChangeSpec == ChangeInit /\ [][ChangeNext]_changeVars

-----------------------------------------------------------------------------
(* Properties *)

ChangeTypeOK ==
    /\ chosen \in [Subjects -> Options] /\ confirmed \in [Subjects -> Options]
    /\ verified \in Options \cup {NoOption}
    /\ captured \in BOOLEAN /\ faulted \in BOOLEAN /\ unsure \in BOOLEAN
    /\ change \in Changes /\ stage \in Stages /\ outcome \in Answers
    /\ changes \in 0 .. MaxChanges /\ changeFaults \in 0 .. MaxChangeFaults

\* Between two operations, a capture that is shown as running runs with exactly
\* the core, outbound, sources and policy it was verified with; the one way out
\* is a lost answer about the policy (capture_transition.go:675-753).
RunningIsProven == stage = "ready" /\ captured /\ ~faulted /\ ~unsure => chosen = confirmed

\* An operation that fails and met one failure only, puts the previous choice
\* back, and the capture that ran (capture_transition.go:272-500, 560-615).
FailureIsUndone ==
    stage = "ready" /\ outcome = "failed" /\ changeFaults = 1 /\ change.subject \in {"core", "outbound"} =>
        /\ change.previous # NoOption => chosen[change.subject] = change.previous
        /\ captured <=> change.resume

ChangesAreSafe == RunningIsProven /\ FailureIsUndone

\* What the Agent has answered is so: after a selection that it calls done or
\* already in effect, the Service is configured with the target
\* (capture_transition.go:289-292, 362-368).
SelectionIsTrue ==
    stage = "ready" /\ outcome \in {"unchanged", "done"} => chosen[change.subject] = change.target
=============================================================================
