----------------------------- MODULE AgentProofs -----------------------------
(***************************************************************************)
(* Theorems about the operations and the connections of the Agent, for any *)
(* choices, any number of changes, updates and failures, any number of     *)
(* goroutines that read, write and close, and any instances of a listener. *)
(***************************************************************************)
EXTENDS MCAgent, TLAPS

-----------------------------------------------------------------------------
(* Composite operations: a capture is never shown with a choice it was not *)
(* verified with, and what failed once is undone (CaptureComposites).      *)

\* A core, an outbound or the sources are only touched while capture is off; a
\* policy is sent under the capture that ran when the change began.
TouchedWhileDown ==
    /\ stage \in {"send", "verify"} /\ change.subject \in Stopping => ~captured
    /\ stage \in {"rollback", "restore"} => ~captured
    /\ stage = "send" /\ change.subject = "policy" => (captured <=> change.resume)

\* Which subjects reach which stage of an undo.
UndoOfSubject ==
    /\ stage = "rollback" => change.subject \in {"core", "outbound"}
    /\ stage \in {"revert", "reverify", "close"} => change.subject = "policy"
    /\ stage \in {"verify", "restore"} => change.resume
    /\ stage = "stop" => change.subject \in Stopping

\* An undo has a failure as its reason, and what it must bring back is known:
\* an outbound under capture is only left for another when it had been verified.
UndoHasReason ==
    /\ stage \in {"rollback", "restore"} => changeFaults > 0
    /\ stage # "ready" /\ (change.subject # "outbound" \/ change.resume) => change.previous # NoOption
    /\ stage = "restore" /\ change.subject \in {"core", "outbound"} => chosen[change.subject] = change.previous

\* What the proof needs of the types.
ChoicesTyped ==
    chosen \in [Subjects -> Options] /\ verified \in Options \cup {NoOption} /\ change \in Changes

FlagsTyped == captured \in BOOLEAN /\ changeFaults \in Nat /\ stage \in Stages

TypesKept == ChoicesTyped /\ FlagsTyped

ChangeInv ==
    TypesKept /\ TouchedWhileDown /\ UndoOfSubject /\ UndoHasReason /\ RunningIsProven /\ FailureIsUndone

LEMMA ChangeInitInv == ChangeInit => ChangeInv
<1> SUFFICES ASSUME ChangeInit PROVE ChangeInv
  OBVIOUS
<1>1. chosen \in [Subjects -> Options] /\ change \in Changes /\ confirmed = chosen
  BY DEF ChangeInit, Changes, Subjects
<1> QED
  BY <1>1 DEF ChangeInit, ChangeInv, TypesKept, TouchedWhileDown, UndoOfSubject, UndoHasReason,
              RunningIsProven, FailureIsUndone, ChoicesTyped, FlagsTyped, Stages

\* Where the rest of the invariant has nothing to say: an answer other than "failed".
LEMMA Answered ==
    ASSUME TypesKept', stage' = "ready", outcome' # "failed", RunningIsProven'
    PROVE  ChangeInv'
  BY DEF ChangeInv, TouchedWhileDown, UndoOfSubject, UndoHasReason, FailureIsUndone

\* A failure that leaves capture off or faulted, with nothing that had to be undone.
LEMMA Failed ==
    ASSUME TypesKept', stage' = "ready", ~captured' \/ faulted' \/ unsure',
           change'.subject \in {"core", "outbound"} /\ changeFaults' = 1 =>
               /\ change'.previous # NoOption => chosen'[change'.subject] = change'.previous
               /\ captured' <=> change'.resume
    PROVE  ChangeInv'
  BY DEF ChangeInv, TouchedWhileDown, UndoOfSubject, UndoHasReason, RunningIsProven, FailureIsUndone

\* Within an operation only its stage has something to say.
LEMMA Continued ==
    ASSUME TypesKept', stage' # "ready", TouchedWhileDown', UndoOfSubject', UndoHasReason'
    PROVE  ChangeInv'
  BY DEF ChangeInv, RunningIsProven, FailureIsUndone

LEMMA BeginChangeInv ==
    ASSUME ChangeInv, NEW s \in Subjects, NEW c \in Options, BeginChange(s, c) PROVE ChangeInv'
<1> USE DEF ChangeInv, BeginChange
<1>1. PreviousOf(s) \in Options \cup {NoOption} /\ captured \in BOOLEAN
  BY DEF PreviousOf, TypesKept, ChoicesTyped, FlagsTyped
<1>2. change' \in Changes /\ change'.subject = s /\ change'.previous = PreviousOf(s)
      /\ (change'.resume <=> captured)
  BY <1>1 DEF Changes
<1>3. TypesKept'
  <2>1. ChoicesTyped' BY <1>2 DEF TypesKept, ChoicesTyped
  <2>2. FlagsTyped' BY DEF TypesKept, FlagsTyped, Fails, Works, End, Continue, Stages
  <2> QED BY <2>1, <2>2 DEF TypesKept
<1>4. CASE stage' = "ready"
  <2>1. outcome' # "failed" /\ RunningIsProven'
    BY <1>4 DEF RunningIsProven, End, Continue
  <2> QED
    BY <1>3, <1>4, <2>1, Answered
<1>5. CASE stage' # "ready"
  <2>1. /\ stage' = IF captured /\ s \in Stopping THEN "stop" ELSE "send"
        /\ s = "outbound" /\ captured => verified # NoOption
    BY <1>5 DEF End, Continue
  <2>2. s # "outbound" => PreviousOf(s) # NoOption
    BY ChangeAssumption DEF PreviousOf, TypesKept, ChoicesTyped, Subjects
  <2>3. s = "outbound" /\ captured => PreviousOf(s) # NoOption
    BY <2>1 DEF PreviousOf
  <2>4. UndoHasReason'
    BY <1>2, <2>1, <2>2, <2>3 DEF UndoHasReason
  <2>5. TouchedWhileDown'
    BY <1>2, <2>1 DEF TouchedWhileDown, Stopping
  <2>6. UndoOfSubject'
    BY <1>2, <2>1 DEF UndoOfSubject
  <2> QED
    BY <1>3, <1>5, <2>4, <2>5, <2>6, Continued
<1> QED
  BY <1>4, <1>5

LEMMA TypesStep == ASSUME ChangeInv, [ChangeNext]_changeVars PROVE TypesKept'
<1> USE DEF ChangeInv, TypesKept
<1>1. ASSUME NEW s \in Subjects, NEW c \in Options, BeginChange(s, c) PROVE TypesKept'
  BY <1>1, BeginChangeInv
<1>2. CASE StopCapture
  <2>1. ChoicesTyped' BY <1>2 DEF StopCapture, CaptureDown, ChoicesTyped
  <2>2. captured' \in BOOLEAN
    BY <1>2 DEF StopCapture, CaptureDown, FlagsTyped
  <2>3. changeFaults' \in Nat /\ stage' \in Stages
    BY <1>2 DEF StopCapture, CaptureDown, FlagsTyped, Works, Fails, End, Continue, Stages
  <2> QED BY <2>1, <2>2, <2>3 DEF FlagsTyped
<1>3. CASE Send
  <2>1. ChoicesTyped'
    <3>1. change.subject \in Subjects /\ change.target \in Options
      BY DEF ChoicesTyped, Changes
    <3> QED
      BY <1>3, <3>1 DEF Send, Ask, ChoicesTyped
  <2>2. FlagsTyped' BY <1>3 DEF Send, Ask, FlagsTyped, Works, Fails, End, Continue, Stages
  <2> QED BY <2>1, <2>2
<1>4. CASE VerifyChange
  <2>1. ChoicesTyped' BY <1>4 DEF VerifyChange, CaptureUp, CaptureStaysDown, ChoicesTyped, Subjects
  <2>2. captured' \in BOOLEAN
    BY <1>4 DEF VerifyChange, CaptureUp, CaptureStaysDown, FlagsTyped
  <2>3. changeFaults' \in Nat /\ stage' \in Stages
    BY <1>4 DEF VerifyChange, CaptureUp, CaptureStaysDown, FlagsTyped, Works, Fails, End, Continue, Stages
  <2> QED BY <2>1, <2>2, <2>3 DEF FlagsTyped
<1>5. CASE Rollback
  <2>1. ChoicesTyped'
    <3>1. change.subject \in Subjects /\ change.previous \in Options \cup {NoOption}
      BY DEF ChoicesTyped, Changes
    <3> QED
      BY <1>5, <3>1 DEF Rollback, Ask, ChoicesTyped
  <2>2. FlagsTyped' BY <1>5 DEF Rollback, Ask, FlagsTyped, Works, Fails, End, Continue, Stages
  <2> QED BY <2>1, <2>2
<1>6. CASE RestoreCapture
  <2>1. ChoicesTyped' BY <1>6 DEF RestoreCapture, CaptureUp, CaptureStaysDown, ChoicesTyped, Subjects
  <2>2. captured' \in BOOLEAN
    BY <1>6 DEF RestoreCapture, CaptureUp, CaptureStaysDown, FlagsTyped
  <2>3. changeFaults' \in Nat /\ stage' \in Stages
    BY <1>6 DEF RestoreCapture, CaptureUp, CaptureStaysDown, FlagsTyped, Works, Fails, End, Continue, Stages
  <2> QED BY <2>1, <2>2, <2>3 DEF FlagsTyped
<1>7. CASE RevertPolicy
  <2>1. ChoicesTyped'
    <3>1. change.previous \in Options
      BY <1>7 DEF RevertPolicy, UndoOfSubject, UndoHasReason, ChoicesTyped, Changes
    <3> QED
      BY <1>7, <3>1 DEF RevertPolicy, Ask, ChoicesTyped, Subjects
  <2>2. FlagsTyped' BY <1>7 DEF RevertPolicy, Ask, FlagsTyped, Works, Fails, Continue, Stages
  <2> QED BY <2>1, <2>2
<1>8. CASE ReverifyPolicy
  <2>1. ChoicesTyped' BY <1>8 DEF ReverifyPolicy, ChoicesTyped
  <2>2. FlagsTyped' BY <1>8 DEF ReverifyPolicy, FlagsTyped, Works, Fails, End, Continue, Stages
  <2> QED BY <2>1, <2>2
<1>9. CASE CloseCapture
  <2>1. ChoicesTyped' BY <1>9 DEF CloseCapture, ChoicesTyped
  <2>2. captured' \in BOOLEAN
    BY <1>9 DEF CloseCapture, FlagsTyped
  <2>3. changeFaults' \in Nat /\ stage' \in Stages
    BY <1>9 DEF CloseCapture, FlagsTyped, Works, Fails, End, Continue, Stages
  <2> QED BY <2>1, <2>2, <2>3 DEF FlagsTyped
<1>10. CASE SwitchCapture
  <2>1. ChoicesTyped' BY <1>10 DEF SwitchCapture, CaptureUp, ChoicesTyped, Subjects
  <2>2. FlagsTyped' BY <1>10 DEF SwitchCapture, CaptureUp, FlagsTyped, Works
  <2> QED BY <2>1, <2>2
<1>11. CASE UNCHANGED changeVars
  BY <1>11 DEF changeVars, ChoicesTyped, FlagsTyped
<1> QED
  BY <1>1, <1>2, <1>3, <1>4, <1>5, <1>6, <1>7, <1>8, <1>9, <1>10, <1>11 DEF ChangeNext

LEMMA ChangeNextInv == ASSUME ChangeInv, [ChangeNext]_changeVars PROVE ChangeInv'
<1>0. TypesKept'
  BY TypesStep
<1> USE DEF ChangeInv
<1>1. ASSUME NEW s \in Subjects, NEW c \in Options, BeginChange(s, c) PROVE ChangeInv'
  BY <1>1, BeginChangeInv
<1>2. CASE StopCapture
  <2>1. CASE stage' = "ready"
    <3>1. outcome' # "failed" /\ faulted'
      BY <1>2, <2>1 DEF StopCapture, CaptureDown, End, Continue
    <3> QED
      BY <1>0, <2>1, <3>1, Answered DEF RunningIsProven
  <2>2. CASE stage' # "ready"
    <3>1. ~captured' /\ stage' = "send" /\ UNCHANGED change /\ stage = "stop"
      BY <1>2, <2>2 DEF StopCapture, CaptureDown, End, Continue
    <3>2. change.subject \in Stopping
      BY <3>1 DEF UndoOfSubject
    <3> QED
      BY <1>0, <3>1, <3>2, Continued DEF TouchedWhileDown, UndoOfSubject, UndoHasReason, Stopping
  <2> QED
    BY <2>1, <2>2
<1>3. CASE Send
  <2>0. stage = "send" /\ UNCHANGED <<captured, faulted, confirmed, change>>
    BY <1>3 DEF Send
  <2>1. CASE Accepted
    <3>1. CASE change.resume
      BY <1>0, <1>3, <2>0, <2>1, <3>1, Continued DEF Send, Continue, TouchedWhileDown, UndoOfSubject, UndoHasReason
    <3>2. CASE ~change.resume
      <4>1. stage' = "ready" /\ outcome' = "done"
        BY <1>3, <2>1, <3>2 DEF Send, End
      <4>2. ~captured
        BY <2>0, <3>2 DEF TouchedWhileDown, TypesKept, ChoicesTyped, Changes, Stopping
      <4> QED
        BY <1>0, <2>0, <4>1, <4>2, Answered DEF RunningIsProven
    <3> QED
      BY <3>1, <3>2
  <2>2. CASE ~Accepted
    <3>0. changeFaults' = changeFaults + 1 /\ changeFaults \in Nat
      BY <1>3, <2>2 DEF Send, Ask, Accepted, Fails, Works, TypesKept, FlagsTyped
    <3>1. CASE change.subject \in {"core", "outbound"}
      <4>1. stage' = "rollback" /\ ~captured
        BY <1>3, <2>0, <2>2, <3>1 DEF Send, Continue, TouchedWhileDown, Stopping, Subjects
      <4> QED
        BY <1>0, <2>0, <3>0, <3>1, <4>1, Continued DEF TouchedWhileDown, UndoOfSubject, UndoHasReason
    <3>2. CASE change.subject = "source" /\ change.resume
      <4>1. stage' = "restore" /\ ~captured
        BY <1>3, <2>0, <2>2, <3>2 DEF Send, Continue, TouchedWhileDown, Stopping, Subjects
      <4> QED
        BY <1>0, <2>0, <3>0, <3>2, <4>1, Continued DEF TouchedWhileDown, UndoOfSubject, UndoHasReason
    <3>3. CASE ~(change.subject \in {"core", "outbound"}) /\ ~(change.subject = "source" /\ change.resume)
      <4>1. stage' = "ready"
        BY <1>3, <2>2, <3>3 DEF Send, End
      <4>2. change.subject \in {"source", "policy"}
        BY <3>3 DEF TypesKept, ChoicesTyped, Changes, Subjects
      <4>3. CASE change.subject = "source"
        <5>1. ~captured
          BY <2>0, <4>3 DEF TouchedWhileDown, Stopping, Subjects
        <5> QED
          BY <1>0, <2>0, <4>1, <4>3, <5>1, Failed
      <4>4. CASE change.subject = "policy"
        <5>1. unsure'
          BY <1>3, <2>2, <4>4 DEF Send
        <5> QED
          BY <1>0, <2>0, <4>1, <4>4, <5>1, Failed
      <4> QED
        BY <4>2, <4>3, <4>4
    <3> QED
      BY <3>1, <3>2, <3>3
  <2> QED
    BY <2>1, <2>2
<1>4. CASE VerifyChange
  <2>0. stage = "verify" /\ UNCHANGED <<chosen, change>>
    BY <1>4 DEF VerifyChange
  <2>1. CASE stage' = "ready" /\ outcome' = "done"
    <3>1. confirmed' = chosen
      BY <1>4, <2>1 DEF VerifyChange, CaptureUp, End, Continue
    <3> QED
      BY <1>0, <2>0, <2>1, <3>1, Answered DEF RunningIsProven
  <2>2. CASE ~(stage' = "ready" /\ outcome' = "done")
    <3>1. changeFaults' = changeFaults + 1 /\ changeFaults \in Nat
      BY <1>4, <2>2 DEF VerifyChange, End, Fails, TypesKept, FlagsTyped
    <3>2. CASE change.subject = "policy"
      <4>1. stage' = "revert"
        BY <1>4, <2>2, <3>2 DEF VerifyChange, End, Continue
      <4> QED
        BY <1>0, <2>0, <3>2, <4>1, Continued DEF TouchedWhileDown, UndoOfSubject, UndoHasReason
    <3>3. CASE change.subject = "source"
      <4>1. stage' = "ready" /\ captured' = FALSE
        BY <1>4, <2>2, <3>3 DEF VerifyChange, End, CaptureStaysDown
      <4> QED
        BY <1>0, <2>0, <3>3, <4>1, Failed
    <3>4. CASE change.subject \in {"core", "outbound"}
      <4>1. stage' = "rollback" /\ captured' = FALSE
        BY <1>4, <2>2, <3>4 DEF VerifyChange, End, Continue, CaptureStaysDown
      <4> QED
        BY <1>0, <2>0, <3>1, <3>4, <4>1, Continued DEF TouchedWhileDown, UndoOfSubject, UndoHasReason
    <3> QED
      BY <3>2, <3>3, <3>4 DEF TypesKept, ChoicesTyped, Changes, Subjects
  <2> QED
    BY <2>1, <2>2
<1>5. CASE Rollback
  <2>0. /\ stage = "rollback" /\ UNCHANGED <<captured, change>> /\ ~captured
        /\ change.subject \in {"core", "outbound"} /\ change.subject \in Subjects /\ changeFaults > 0
        /\ chosen \in [Subjects -> Options] /\ changeFaults \in Nat
    BY <1>5 DEF Rollback, TouchedWhileDown, UndoOfSubject, UndoHasReason, Subjects, TypesKept, ChoicesTyped, FlagsTyped
  <2>1. CASE stage' = "restore"
    <3>1. change.resume /\ chosen'[change.subject] = change.previous /\ changeFaults' > 0
      BY <1>5, <2>0, <2>1 DEF Rollback, Ask, Accepted, Works, Fails, End, Continue
    <3>2. TouchedWhileDown' /\ UndoOfSubject'
      BY <2>0, <2>1, <3>1 DEF TouchedWhileDown, UndoOfSubject
    <3>3. UndoHasReason'
      BY <2>0, <2>1, <3>1 DEF UndoHasReason
    <3> QED
      BY <1>0, <2>1, <3>2, <3>3, Continued
  <2>2. CASE stage' # "restore"
    <3>1. stage' = "ready"
      BY <1>5, <2>2 DEF Rollback, Ask, Works, Fails, End, Continue
    <3>2. ASSUME changeFaults' = 1, change.previous # NoOption
          PROVE  chosen'[change.subject] = change.previous /\ ~change.resume
      BY <1>5, <2>0, <2>2, <3>2 DEF Rollback, Ask, Accepted, Works, Fails, End, Continue
    <3>3. change.previous = NoOption => ~change.resume
      BY <2>0 DEF UndoHasReason
    <3> QED
      BY <1>0, <2>0, <3>1, <3>2, <3>3, Failed
  <2> QED
    BY <2>1, <2>2
<1>6. CASE RestoreCapture
  <2>0. /\ stage = "restore" /\ stage' = "ready" /\ UNCHANGED <<chosen, change>> /\ change.resume
        /\ changeFaults \in Nat /\ changeFaults > 0
    BY <1>6 DEF RestoreCapture, End, UndoOfSubject, UndoHasReason, TypesKept, FlagsTyped
  <2>1. CASE changeFaults' = changeFaults
    <3>1. captured' = TRUE /\ confirmed' = chosen
      BY <1>6, <2>0, <2>1 DEF RestoreCapture, CaptureUp, Fails
    <3> QED
      BY <1>0, <2>0, <3>1 DEF TouchedWhileDown, UndoOfSubject, UndoHasReason, RunningIsProven, FailureIsUndone
  <2>2. CASE changeFaults' # changeFaults
    <3>1. captured' = FALSE /\ changeFaults' # 1
      BY <1>6, <2>0, <2>2 DEF RestoreCapture, CaptureStaysDown, Fails, Works
    <3> QED
      BY <1>0, <2>0, <3>1, Failed
  <2> QED
    BY <2>1, <2>2
<1>7. CASE RevertPolicy
  <2>1. /\ stage' \in {"reverify", "close"} /\ UNCHANGED change
        /\ change.subject = "policy" /\ change.previous # NoOption
    BY <1>7 DEF RevertPolicy, Continue, UndoOfSubject, UndoHasReason
  <2> QED
    BY <1>0, <2>1, Continued DEF TouchedWhileDown, UndoOfSubject, UndoHasReason
<1>8. CASE ReverifyPolicy
  <2>0. UNCHANGED <<change, chosen>> /\ change.subject = "policy" /\ change.previous # NoOption
    BY <1>8 DEF ReverifyPolicy, UndoOfSubject, UndoHasReason
  <2>1. CASE stage' = "ready"
    <3>1. confirmed' = chosen
      BY <1>8, <2>1 DEF ReverifyPolicy, Continue
    <3> QED
      BY <1>0, <2>0, <2>1, <3>1 DEF TouchedWhileDown, UndoOfSubject, UndoHasReason, RunningIsProven, FailureIsUndone
  <2>2. CASE stage' # "ready"
    <3>1. stage' = "close"
      BY <1>8, <2>2 DEF ReverifyPolicy, Continue, End
    <3> QED
      BY <1>0, <2>0, <3>1, Continued DEF TouchedWhileDown, UndoOfSubject, UndoHasReason
  <2> QED
    BY <2>1, <2>2
<1>9. CASE CloseCapture
  <2>1. ~captured' \/ faulted'
    BY <1>9 DEF CloseCapture
  <2>2. change'.subject = "policy" /\ stage' = "ready"
    BY <1>9 DEF CloseCapture, End, UndoOfSubject
  <2> QED
    BY <1>0, <2>1, <2>2, Failed
<1>10. CASE SwitchCapture
  <2>1. stage' = "ready" /\ outcome' = "none" /\ (confirmed' = chosen' \/ captured' = FALSE)
    BY <1>10 DEF SwitchCapture, CaptureUp
  <2> QED
    BY <1>0, <2>1, Answered DEF RunningIsProven
<1>11. CASE UNCHANGED changeVars
  BY <1>0, <1>11 DEF changeVars, TouchedWhileDown, UndoOfSubject, UndoHasReason, RunningIsProven, FailureIsUndone
<1> QED
  BY <1>1, <1>2, <1>3, <1>4, <1>5, <1>6, <1>7, <1>8, <1>9, <1>10, <1>11 DEF ChangeNext

LEMMA ChangeTypesStep ==
    ASSUME ChangeInv, ChangeTypeOK, [ChangeNext]_changeVars
    PROVE  ChangeTypeOK'
<1>1. TypesKept'
  BY TypesStep
<1>2. /\ confirmed' \in {confirmed, chosen, chosen'}
      /\ outcome' \in Answers
      /\ changes' \in 0 .. MaxChanges /\ changeFaults' \in 0 .. MaxChangeFaults
  <2>. USE ChangeAssumption DEF ChangeTypeOK, Fails, Works, End, Continue, Answers
  <2>1. ASSUME NEW s \in Subjects, NEW c \in Options, BeginChange(s, c)
        PROVE  confirmed' = confirmed /\ outcome' \in Answers /\ changes' \in 0 .. MaxChanges
               /\ changeFaults' \in 0 .. MaxChangeFaults
    BY <2>1 DEF BeginChange
  <2>2. CASE StopCapture
    BY <2>2 DEF StopCapture, CaptureDown
  <2>3. CASE Send
    BY <2>3 DEF Send, Ask
  <2>4. CASE VerifyChange
    BY <2>4 DEF VerifyChange, CaptureUp, CaptureStaysDown
  <2>5. CASE Rollback
    BY <2>5 DEF Rollback, Ask
  <2>6. CASE RestoreCapture \/ SwitchCapture
    BY <2>6 DEF RestoreCapture, CaptureUp, CaptureStaysDown, SwitchCapture
  <2>7. CASE RevertPolicy \/ ReverifyPolicy \/ CloseCapture
    BY <2>7 DEF RevertPolicy, Ask, ReverifyPolicy, CloseCapture
  <2>8. CASE UNCHANGED changeVars
    BY <2>8 DEF changeVars
  <2>. QED
    BY <2>1, <2>2, <2>3, <2>4, <2>5, <2>6, <2>7, <2>8 DEF ChangeNext
<1>3. faulted' \in BOOLEAN /\ unsure' \in BOOLEAN
  <2>1. faulted' = TRUE \/ faulted' = FALSE \/ faulted' = faulted
    BY DEF ChangeNext, BeginChange, StopCapture, CaptureDown, Send, VerifyChange, CaptureUp, CaptureStaysDown,
           Rollback, RestoreCapture, RevertPolicy, ReverifyPolicy, CloseCapture, SwitchCapture, changeVars
  <2>2. unsure' = TRUE \/ unsure' = FALSE \/ unsure' = unsure
    BY DEF ChangeNext, BeginChange, StopCapture, CaptureDown, Send, VerifyChange, CaptureUp, CaptureStaysDown,
           Rollback, RestoreCapture, RevertPolicy, ReverifyPolicy, CloseCapture, SwitchCapture, changeVars
  <2>3. faulted \in BOOLEAN /\ unsure \in BOOLEAN
    BY DEF ChangeTypeOK
  <2>4. faulted' \in BOOLEAN
    BY <2>1, <2>3
  <2>5. unsure' \in BOOLEAN
    BY <2>2, <2>3
  <2>. QED
    BY <2>4, <2>5
<1>4. confirmed' \in [Subjects -> Options]
  BY <1>1, <1>2 DEF ChangeTypeOK, TypesKept, ChoicesTyped
<1>. QED
  BY <1>1, <1>2, <1>3, <1>4 DEF ChangeTypeOK, TypesKept, ChoicesTyped, FlagsTyped

LEMMA ChangeInitTypes == ChangeInit => ChangeTypeOK
<1> SUFFICES ASSUME ChangeInit PROVE ChangeTypeOK
  OBVIOUS
<1>1. chosen \in [Subjects -> Options] /\ change \in Changes /\ confirmed = chosen
  BY DEF ChangeInit, Changes, Subjects
<1>2. captured \in BOOLEAN /\ faulted \in BOOLEAN /\ unsure \in BOOLEAN
  BY DEF ChangeInit
<1>3. verified = NoOption /\ stage \in Stages /\ outcome \in Answers
  BY DEF ChangeInit, Stages, Answers
<1>4. changes \in 0 .. MaxChanges /\ changeFaults \in 0 .. MaxChangeFaults
  BY ChangeAssumption DEF ChangeInit
<1> QED
  BY <1>1, <1>2, <1>3, <1>4 DEF ChangeTypeOK

-----------------------------------------------------------------------------
(* A pipe connection: its handle and the memory of its operations          *)
(* (PipeConnection).                                                       *)

\* Between beginIO and endIO a call is in pending.
PendingIsRegistered ==
    \A c \in Calls : io[c] \in {"registered", "waiting", "reaping", "ending"} => c \in pending

\* Whoever got past closeOnce has set closed.
ClosersHaveClosed ==
    /\ \A c \in Closers : closeAt[c] # "idle" => closed
    /\ handle = "closed" => closed

\* Once closed, the working Close waits for every call that is still in pending.
AllAwaited == closed => pending \subseteq awaited

\* CloseHandle comes after the last of them.
NoneLeft == handle = "closed" => awaited = {}

PipeInv ==
    /\ PipeTypeOK /\ PendingIsRegistered /\ ClosersHaveClosed
    /\ AllAwaited /\ NoneLeft /\ HandlesAreSafe

LEMMA PipeInitInv == PipeInit => PipeInv
  BY DEF PipeInit, PipeInv, PipeTypeOK, PendingIsRegistered, ClosersHaveClosed,
         AllAwaited, NoneLeft, HandlesAreSafe

\* Nobody works with a handle that is closed.
LEMMA ClosedIsUnused ==
    ASSUME PipeInv, NEW c \in Calls, io[c] \in {"registered", "waiting", "reaping", "ending"}
    PROVE  handle # "closed"
  BY DEF PipeInv, PendingIsRegistered, ClosersHaveClosed, AllAwaited, NoneLeft

LEMMA PipeNextInv == PipeInv /\ [PipeNext]_pipeVars => PipeInv'
<1> SUFFICES ASSUME PipeInv, [PipeNext]_pipeVars PROVE PipeInv'
  OBVIOUS
<1> USE DEF PipeInv, PipeTypeOK, PendingIsRegistered, ClosersHaveClosed,
            AllAwaited, NoneLeft, HandlesAreSafe
<1>1. ASSUME NEW c \in Calls, Begin(c) PROVE PipeInv'
  BY <1>1 DEF Begin
<1>2. ASSUME NEW c \in Calls, Issue(c) PROVE PipeInv'
  BY <1>2, ClosedIsUnused DEF Issue
<1>3. ASSUME NEW c \in Calls, Complete(c) PROVE PipeInv'
  BY <1>3 DEF Complete
<1>4. ASSUME NEW c \in Calls, Wake(c) PROVE PipeInv'
  BY <1>4, ClosedIsUnused DEF Wake
<1>5. ASSUME NEW c \in Calls, Deadline(c) PROVE PipeInv'
  BY <1>5, ClosedIsUnused DEF Deadline
<1>6. ASSUME NEW c \in Calls, EndIO(c) PROVE PipeInv'
  BY <1>6 DEF EndIO
<1>7. ASSUME NEW c \in Closers, CloseEnters(c) PROVE PipeInv'
  BY <1>7 DEF CloseEnters
<1>8. ASSUME NEW c \in Closers, CloseCancels(c) PROVE PipeInv'
  BY <1>8 DEF CloseCancels
<1>9. ASSUME NEW c \in Closers, CloseEnds(c) PROVE PipeInv'
  BY <1>9 DEF CloseEnds
<1>10. ASSUME NEW c \in Closers, CloseJoins(c) PROVE PipeInv'
  BY <1>10 DEF CloseJoins
<1>11. CASE UNCHANGED pipeVars
  BY <1>11 DEF pipeVars
<1> QED
  BY <1>1, <1>2, <1>3, <1>4, <1>5, <1>6, <1>7, <1>8, <1>9, <1>10, <1>11 DEF PipeNext

-----------------------------------------------------------------------------
(* A listener: nothing is left when Close has returned (PipeListener).     *)

\* The channel is closed when no goroutine is left that could send, and none
\* comes back.
ChannelIsLast ==
    /\ shutting # "open" => stopping
    /\ shutting \in {"draining", "closed"} => \A i \in Instances : loops[i] \notin Live
    /\ queueOpen <=> shutting \in {"open", "joining"}
    /\ shutting = "closed" => queued = 0

ListenerInv == ListenerTypeOK /\ ChannelIsLast /\ ~broken

LEMMA ListenerInitInv == ListenerInit => ListenerInv
<1>. SUFFICES ASSUME ListenerInit PROVE ListenerInv
  OBVIOUS
<1>1. ListenerTypeOK
  <2>1. loops \in [Instances -> Live \cup {"new", "refused", "gone"}] /\ shutting = "open"
    BY DEF ListenerInit
  <2>2. queued \in 0 .. QueueLength /\ accepted \in 0 .. MaxAccepted
    BY ListenerAssumption DEF ListenerInit
  <2>3. queueOpen \in BOOLEAN /\ stopping \in BOOLEAN /\ broken \in BOOLEAN
    BY DEF ListenerInit
  <2>. QED
    BY <2>1, <2>2, <2>3 DEF ListenerTypeOK
<1>2. ChannelIsLast /\ ~broken
  BY DEF ListenerInit, ChannelIsLast
<1>. QED
  BY <1>1, <1>2 DEF ListenerInv

LEMMA ListenerNextInv ==
    ASSUME ListenerInv, [ListenerNext]_listenerVars
    PROVE  ListenerInv'
<1>. USE ListenerAssumption DEF ListenerInv, ListenerTypeOK, ChannelIsLast, Live, GoTo
<1>1. ASSUME NEW i \in Instances, StartInstance(i) PROVE ListenerInv'
  BY <1>1 DEF StartInstance
<1>2. ASSUME NEW i \in Instances, CheckDone(i) PROVE ListenerInv'
  BY <1>2 DEF CheckDone
<1>3. ASSUME NEW i \in Instances, Create(i) PROVE ListenerInv'
  BY <1>3 DEF Create
<1>4. ASSUME NEW i \in Instances, Connect(i) PROVE ListenerInv'
  BY <1>4 DEF Connect
<1>5. ASSUME NEW i \in Instances, PollSeesDone(i) PROVE ListenerInv'
  BY <1>5 DEF PollSeesDone
<1>6. ASSUME NEW i \in Instances, Offer(i) PROVE ListenerInv'
  BY <1>6 DEF Offer
<1>7. ASSUME NEW i \in Instances, OfferSeesDone(i) PROVE ListenerInv'
  BY <1>7 DEF OfferSeesDone
<1>8. CASE Accept \/ DrainOne
  BY <1>8 DEF Accept, DrainOne
<1>9. CASE CloseListener
  <2>1. stopping' = TRUE /\ shutting' = "joining" /\ shutting = "open" /\ UNCHANGED <<loops, queued, queueOpen, accepted, broken>>
    BY <1>9 DEF CloseListener
  <2>2. ListenerTypeOK'
    BY <2>1
  <2>3. ChannelIsLast'
    BY <2>1
  <2>. QED
    BY <2>1, <2>2, <2>3
<1>11. CASE JoinLoops
  BY <1>11 DEF JoinLoops
<1>12. CASE EndClose
  BY <1>12 DEF EndClose
<1>10. CASE UNCHANGED listenerVars
  BY <1>10 DEF listenerVars
<1>. QED
  BY <1>1, <1>2, <1>3, <1>4, <1>5, <1>6, <1>7, <1>8, <1>9, <1>10, <1>11, <1>12 DEF ListenerNext

-----------------------------------------------------------------------------
(* The session of a core update: types (CoreUpdate).                       *)

SessionType == [activeRunning : BOOLEAN, captureStopped : BOOLEAN, timer : Timers]

AgentTyped ==
    /\ owner \in Updates \cup {Nobody} /\ registered \in Updates \cup {Nobody}
    /\ step \in [Updates -> Steps] /\ why \in [Updates -> Reasons]
    /\ session \in [Updates -> SessionType]

SystemTyped ==
    /\ file \in [FileSet -> Versions] /\ backup \in [FileSet -> Versions]
    /\ core \in Versions \cup {NoCore} /\ capture \in BOOLEAN /\ isActive \in BOOLEAN

InterfaceTyped ==
    /\ ui \in Places /\ update \in Versions /\ index \in 0 .. Len(Files)
    /\ inbox \subseteq Updates \X Ops /\ reply \in {"none", "ok", "error"}

\* The interface works on a file of an installation that has begun.
WorksOnFile ==
    /\ ui # "idle" => update \in Updates
    /\ ui \in {"replace", "restore"} => index \in 1 .. Len(Files)

HistoryTyped ==
    /\ wanted \in [capture : BOOLEAN, core : BOOLEAN]
    /\ updateFaults \in 0 .. MaxUpdateFaults /\ late \in BOOLEAN /\ closing \in BOOLEAN

LEMMA FilesFacts ==
    /\ Len(Files) = 3 /\ FileSet = {"binary", "manifest", "sums"}
    /\ Files[1] = "binary" /\ Files[2] = "manifest" /\ Files[3] = "sums"
<1>1. Len(Files) = 3 /\ DOMAIN Files = {1, 2, 3} /\ Files[1] = "binary" /\ Files[2] = "manifest" /\ Files[3] = "sums"
  BY DEF Files
<1>2. FileSet = {Files[1], Files[2], Files[3]}
  BY <1>1 DEF FileSet
<1>. QED
  BY <1>1, <1>2

\* What the actions of the Agent leave alone.
LEMMA AgentLeaves ==
    ASSUME NEW u \in Updates, AgentStep(u) \/ BeginExpires(u)
    PROVE  /\ UNCHANGED <<isActive, file, ui, update, index, backup>>
           /\ inbox' \subseteq inbox
  BY DEF AgentStep, BeginCheck, BeginAdmit, BeginExpires, CaptureOff, BeginStop, Register, Arm, Commit,
         RollbackSession, Take, CommitStart, CommitVerify, FailClosed, TimerFires, Expire, Recover, Restore,
         Finish, Clear, Refuse, Same, interface, system

LEMMA TimerTyped ==
    ASSUME AgentTyped, NEW u \in Updates
    PROVE  /\ \A t \in Timers : [session EXCEPT ![u].timer = t] \in [Updates -> SessionType]
           /\ [session EXCEPT ![u] = [NoSession EXCEPT !.timer = session[u].timer]] \in [Updates -> SessionType]
  BY DEF AgentTyped, SessionType, NoSession, Timers

LEMMA AgentKeepsTypes ==
    ASSUME AgentTyped, NEW u \in Updates, AgentStep(u) \/ BeginExpires(u)
    PROVE  AgentTyped'
<1>. USE DEF Goto, Steps
<1>1. owner' \in Updates \cup {Nobody} /\ registered' \in Updates \cup {Nobody}
  <2>1. owner' \in {owner, u, Nobody}
    BY DEF AgentStep, BeginCheck, BeginAdmit, BeginExpires, CaptureOff, FailBegin, BeginStop, Register, Arm, Commit,
           RollbackSession, Take, CommitStart, CommitVerify, FailClosed, TimerFires, Expire, Recover, Restore,
           Finish, Clear, Refuse, agent
  <2>2. registered' \in {registered, u, Nobody}
    BY DEF AgentStep, BeginCheck, BeginAdmit, BeginExpires, CaptureOff, FailBegin, BeginStop, Register, Arm, Commit,
           RollbackSession, Take, CommitStart, CommitVerify, FailClosed, TimerFires, Expire, Recover, Restore,
           Finish, Clear, Refuse, agent
  <2>. QED
    BY <2>1, <2>2 DEF AgentTyped
<1>2. \E place \in Steps : step' = [step EXCEPT ![u] = place] \/ step' = step
  BY DEF AgentStep, BeginCheck, BeginAdmit, BeginExpires, CaptureOff, FailBegin, BeginStop, Register, Arm, Commit,
         RollbackSession, Take, CommitStart, CommitVerify, FailClosed, TimerFires, Expire, Recover, Restore,
         Finish, Clear, Refuse, agent
<1>3. \E reason \in Reasons : why' = [why EXCEPT ![u] = reason] \/ why' = why
  BY DEF AgentStep, BeginCheck, BeginAdmit, BeginExpires, CaptureOff, FailBegin, BeginStop, Register, Arm, Commit,
         RollbackSession, Take, CommitStart, CommitVerify, FailClosed, TimerFires, Expire, Recover, Restore,
         Finish, Clear, Refuse, agent, Reasons, Rollbacks, Ops
<1>4. session' \in [Updates -> SessionType]
  <2>1. CASE BeginAdmit(u)
    <3>. DEFINE running == isActive /\ core # NoCore
    <3>1. session' = session \/ session' = [session EXCEPT ![u] = [NoSession EXCEPT !.activeRunning = running]]
      BY <2>1 DEF BeginAdmit
    <3>2. running \in BOOLEAN
      OBVIOUS
    <3>. HIDE DEF running
    <3>3. [NoSession EXCEPT !.activeRunning = running] \in SessionType
      BY <3>2 DEF NoSession, SessionType, Timers
    <3>. QED
      BY <3>1, <3>3 DEF AgentTyped
  <2>2. CASE CaptureOff(u)
    <3>1. session' = session \/ session' = [session EXCEPT ![u].captureStopped = TRUE]
      BY <2>2 DEF CaptureOff
    <3>2. session[u] \in SessionType
      BY DEF AgentTyped
    <3>3. [session[u] EXCEPT !.captureStopped = TRUE] \in SessionType
      BY <3>2 DEF SessionType
    <3>. QED
      BY <3>1, <3>3 DEF AgentTyped
  <2>3. CASE Arm(u) \/ TimerFires(u) \/ Expire(u)
    <3>1. PICK t \in Timers : session' = [session EXCEPT ![u].timer = t]
      <4>1. CASE Arm(u)
        BY <4>1 DEF Arm, Timers
      <4>2. CASE TimerFires(u)
        BY <4>2 DEF TimerFires, Timers
      <4>3. CASE Expire(u)
        BY <4>3 DEF Expire, Timers
      <4>. QED
        BY <2>3, <4>1, <4>2, <4>3
    <3>. QED
      BY <3>1, TimerTyped
  <2>4. CASE Finish(u)
    <3>1. PICK t \in {"off", session[u].timer} : session' = [session EXCEPT ![u].timer = t]
      BY <2>4 DEF Finish
    <3>2. session[u].timer \in Timers /\ "off" \in Timers
      BY DEF AgentTyped, SessionType, Timers
    <3>. QED
      BY <3>1, <3>2, TimerTyped
  <2>5. CASE Clear(u)
    BY <2>5, TimerTyped DEF Clear
  <2>. QED
    BY <2>1, <2>2, <2>3, <2>4, <2>5 DEF AgentStep, BeginCheck, BeginExpires, BeginStop, Register, Commit,
       RollbackSession, Take, CommitStart, CommitVerify, FailClosed, Recover, Restore, Refuse, agent, AgentTyped
<1>. QED
  BY <1>1, <1>2, <1>3, <1>4 DEF AgentTyped

LEMMA AgentKeepsSystem ==
    ASSUME SystemTyped, NEW u \in Updates, AgentStep(u) \/ BeginExpires(u)
    PROVE  SystemTyped'
<1>1. "binary" \in FileSet
  BY FilesFacts
<1>2. Started \in Versions \cup {NoCore}
  BY <1>1 DEF Started, SystemTyped
<1>3. core' \in {core, NoCore, Started}
  BY DEF AgentStep, BeginCheck, BeginAdmit, BeginExpires, CaptureOff, BeginStop, Register, Arm, Commit,
         RollbackSession, Take, CommitStart, CommitVerify, FailClosed, TimerFires, Expire, Recover, Restore,
         Finish, Clear, Refuse, system
<1>4. capture' = TRUE \/ capture' = FALSE \/ capture' = capture
  BY DEF AgentStep, BeginCheck, BeginAdmit, BeginExpires, CaptureOff, BeginStop, Register, Arm, Commit,
         RollbackSession, Take, CommitStart, CommitVerify, FailClosed, TimerFires, Expire, Recover, Restore,
         Finish, Clear, Refuse, system
<1>5. capture' \in BOOLEAN
  BY <1>4 DEF SystemTyped
<1>. QED
  BY <1>2, <1>3, <1>5, AgentLeaves DEF SystemTyped

LEMMA AgentKeepsInterface ==
    ASSUME InterfaceTyped, WorksOnFile, NEW u \in Updates, AgentStep(u) \/ BeginExpires(u)
    PROVE  InterfaceTyped' /\ WorksOnFile'
<1>1. reply' \in {reply, "ok", "error"}
  BY DEF AgentStep, BeginCheck, BeginAdmit, BeginExpires, CaptureOff, FailBegin, BeginStop, Register, Arm, Commit,
         RollbackSession, Take, CommitStart, CommitVerify, FailClosed, TimerFires, Expire, Recover, Restore,
         Finish, Clear, Refuse, Answer, AnswerTo
<1>. QED
  BY <1>1, AgentLeaves DEF InterfaceTyped, WorksOnFile

LEMMA FaultTyped ==
    ASSUME HistoryTyped, Fault \/ NoFault
    PROVE  updateFaults' \in 0 .. MaxUpdateFaults /\ UNCHANGED <<late, closing>>
  BY BoundsAssumption DEF HistoryTyped, Fault, NoFault

LEMMA AgentKeepsHistory ==
    ASSUME HistoryTyped, NEW u \in Updates, AgentStep(u) \/ BeginExpires(u)
    PROVE  HistoryTyped'
<1>1. updateFaults' \in 0 .. MaxUpdateFaults
  BY FaultTyped DEF AgentStep, BeginCheck, BeginAdmit, BeginExpires, CaptureOff, BeginStop, Register, Arm, Commit,
         RollbackSession, Take, CommitStart, CommitVerify, FailClosed, TimerFires, Expire, Recover, Restore,
         Finish, Clear, Refuse, history, HistoryTyped
<1>2. late' = TRUE \/ late' = FALSE \/ late' = late
  BY FaultTyped DEF AgentStep, BeginCheck, BeginAdmit, BeginExpires, CaptureOff, BeginStop, Register, Arm, Commit,
         RollbackSession, Take, CommitStart, CommitVerify, FailClosed, TimerFires, Expire, Recover, Restore,
         Finish, Clear, Refuse, history
<1>3. closing' = closing
  BY FaultTyped DEF AgentStep, BeginCheck, BeginAdmit, BeginExpires, CaptureOff, BeginStop, Register, Arm, Commit,
         RollbackSession, Take, CommitStart, CommitVerify, FailClosed, TimerFires, Expire, Recover, Restore,
         Finish, Clear, Refuse, history
<1>4. wanted' \in [capture : BOOLEAN, core : BOOLEAN]
  <2>1. wanted' = wanted \/ \E c \in BOOLEAN, r \in BOOLEAN : wanted' = [capture |-> c, core |-> r]
    <3>1. CASE CaptureOff(u)
      <4>1. \/ wanted' = wanted
            \/ wanted' = [capture |-> capture', core |-> core' # NoCore] /\ (capture' = FALSE \/ capture' = (core' # NoCore))
        BY <3>1 DEF CaptureOff
      <4>2. (core' # NoCore) \in BOOLEAN
        OBVIOUS
      <4>. QED
        BY <4>1, <4>2
    <3>2. ~CaptureOff(u) => wanted' = wanted
      BY DEF AgentStep, BeginCheck, BeginAdmit, BeginExpires, BeginStop, Register, Arm, Commit,
         RollbackSession, Take, CommitStart, CommitVerify, FailClosed, TimerFires, Expire, Recover, Restore,
         Finish, Clear, Refuse, history
    <3>. QED
      BY <3>1, <3>2
  <2>. QED
    BY <2>1 DEF HistoryTyped
<1>5. late' \in BOOLEAN
  BY <1>2 DEF HistoryTyped
<1>. QED
  BY <1>1, <1>3, <1>4, <1>5 DEF HistoryTyped

UpdateTyped == AgentTyped /\ SystemTyped /\ InterfaceTyped /\ WorksOnFile /\ HistoryTyped

LEMMA InterfaceKeepsTypes ==
    ASSUME UpdateTyped, InterfaceStep
    PROVE  UpdateTyped'
<1>. USE BoundsAssumption DEF UpdateTyped
<1>1. AgentTyped'
  BY DEF InterfaceStep, Install, Begun, Replace, Committed, RestoreFiles, RolledBack, Abandon, agent, AgentTyped
<1>2. SystemTyped'
  <2>1. UNCHANGED <<core, capture, isActive>>
    BY DEF InterfaceStep, Install, Begun, Replace, Committed, RestoreFiles, RolledBack, Abandon, system
  <2>2. backup' \in {backup, file}
    BY DEF InterfaceStep, Install, Begun, Replace, Committed, RestoreFiles, RolledBack, Abandon, system
  <2>3. file' \in [FileSet -> Versions]
    <3>1. CASE Replace
      BY <3>1 DEF Replace, SystemTyped, InterfaceTyped
    <3>2. CASE RestoreFiles
      <4>1. ui = "restore" /\ Files[index] \in FileSet
        BY <3>2, FilesFacts DEF RestoreFiles, WorksOnFile
      <4>2. file' = file \/ file' = [file EXCEPT ![Files[index]] = backup[Files[index]]]
        BY <3>2 DEF RestoreFiles
      <4>. QED
        BY <4>1, <4>2 DEF SystemTyped
    <3>. QED
      BY <3>1, <3>2 DEF InterfaceStep, Install, Begun, Committed, RolledBack, Abandon, system, SystemTyped
  <2>. QED
    BY <2>1, <2>2, <2>3 DEF SystemTyped
<1>3. InterfaceTyped' /\ WorksOnFile'
  <2>. USE FilesFacts DEF InterfaceTyped, WorksOnFile, Places, Ops
  <2>1. CASE Install
    <3>1. update' \in Updates /\ Updates \subseteq Versions
      BY <2>1 DEF Install, Updates, Versions
    <3>. QED
      BY <2>1, <3>1 DEF Install, SendOp
  <2>2. CASE Begun
    BY <2>2 DEF Begun, Replied
  <2>3. CASE Replace
    BY <2>3 DEF Replace, SendOp, StartRestore
  <2>4. CASE Committed
    BY <2>4 DEF Committed, StartRestore, Replied
  <2>5. CASE RestoreFiles
    BY <2>5 DEF RestoreFiles, SendOp
  <2>6. CASE RolledBack
    BY <2>6 DEF RolledBack, SendOp, Replied
  <2>7. CASE Abandon
    BY <2>7 DEF Abandon, StartRestore
  <2>. QED
    BY <2>1, <2>2, <2>3, <2>4, <2>5, <2>6, <2>7 DEF InterfaceStep
<1>4. HistoryTyped'
  <2>1. /\ updateFaults' = updateFaults \/ (updateFaults < MaxUpdateFaults /\ updateFaults' = updateFaults + 1)
        /\ UNCHANGED <<wanted, closing>>
    BY DEF InterfaceStep, Install, Begun, Replace, Committed, RestoreFiles, RolledBack, Abandon, history,
           Fault, NoFault
  <2>2. late' = TRUE \/ late' = late \/ late' = (late \/ ui \notin {"begin", "rollback", "again"})
    BY DEF InterfaceStep, Install, Begun, Replace, Committed, RestoreFiles, RolledBack, Abandon, history,
           Fault, NoFault
  <2>3. late' \in BOOLEAN
    BY <2>2 DEF HistoryTyped
  <2>. QED
    BY <2>1, <2>3 DEF HistoryTyped
<1>. QED
  BY <1>1, <1>2, <1>3, <1>4

LEMMA OthersKeepTypes ==
    ASSUME UpdateTyped, Switch \/ Shutdown \/ UNCHANGED updateVars
    PROVE  UpdateTyped'
<1>. USE DEF UpdateTyped
<1>1. CASE Switch
  <2>1. /\ core' \in {core, Started, NoCore} /\ capture' = ~capture
        /\ wanted' = [capture |-> capture', core |-> core' # NoCore]
        /\ UNCHANGED <<file, isActive, agent, interface, inbox, reply, updateFaults, late, closing>>
    BY <1>1 DEF Switch
  <2>2. SystemTyped'
    BY <2>1, FilesFacts DEF SystemTyped, Started, interface
  <2>3. wanted' \in [capture : BOOLEAN, core : BOOLEAN]
    <3>1. (core' # NoCore) \in BOOLEAN /\ capture' \in BOOLEAN
      BY <2>2 DEF SystemTyped
    <3>. QED
      BY <2>1, <3>1
  <2>. QED
    BY <2>1, <2>2, <2>3 DEF AgentTyped, InterfaceTyped, WorksOnFile, HistoryTyped, agent, interface
<1>2. CASE Shutdown
  <2>1. /\ (step' = step \/ step' = [step EXCEPT ![registered] = "recover"])
        /\ (why' = why \/ why' = [why EXCEPT ![registered] = "shutdown"])
        /\ closing' = TRUE
        /\ UNCHANGED <<system, owner, registered, session, reply, wanted, updateFaults, late, isActive, interface, inbox>>
    BY <1>2 DEF Shutdown, Same, Goto
  <2>2. AgentTyped'
    BY <2>1 DEF AgentTyped, Steps, Reasons
  <2>. QED
    BY <2>1, <2>2 DEF SystemTyped, InterfaceTyped, WorksOnFile, HistoryTyped, system, interface
<1>3. CASE UNCHANGED updateVars
  <2>1. AgentTyped' /\ SystemTyped'
    BY <1>3 DEF updateVars, AgentTyped, SystemTyped, agent, system, interface
  <2>2. InterfaceTyped' /\ WorksOnFile' /\ HistoryTyped'
    BY <1>3 DEF updateVars, InterfaceTyped, WorksOnFile, HistoryTyped, interface, history
  <2>. QED
    BY <2>1, <2>2
<1>. QED
  BY <1>1, <1>2, <1>3

LEMMA UpdateTypesStep ==
    ASSUME UpdateTyped, [UpdateNext]_updateVars
    PROVE  UpdateTyped'
<1>1. ASSUME NEW u \in Updates, AgentStep(u) \/ BeginExpires(u)
      PROVE  UpdateTyped'
  BY <1>1, AgentKeepsTypes, AgentKeepsSystem, AgentKeepsInterface, AgentKeepsHistory DEF UpdateTyped
<1>. QED
  BY <1>1, InterfaceKeepsTypes, OthersKeepTypes DEF UpdateNext

LEMMA UpdateInitTypes == ASSUME UpdateInit PROVE UpdateTyped
<1>. USE BoundsAssumption DEF UpdateInit
<1>0. 0 \in Versions /\ "binary" \in FileSet
  BY FilesFacts DEF Versions
<1>1. core \in Versions \cup {NoCore} /\ capture \in BOOLEAN /\ isActive \in BOOLEAN
  <2>1. core \in {0, NoCore}
    OBVIOUS
  <2>. QED
    BY <1>0, <2>1
<1>2. SystemTyped
  BY <1>0, <1>1 DEF SystemTyped
<1>3. AgentTyped
  <2>1. NoSession \in SessionType
    BY DEF NoSession, SessionType, Timers
  <2>. QED
    BY <2>1 DEF AgentTyped, Steps, Reasons, Ops
<1>4. InterfaceTyped /\ WorksOnFile
  BY <1>0, FilesFacts DEF InterfaceTyped, WorksOnFile, Places
<1>5. HistoryTyped
  <2>1. (core # NoCore) \in BOOLEAN
    OBVIOUS
  <2>2. wanted \in [capture : BOOLEAN, core : BOOLEAN] /\ updateFaults \in 0 .. MaxUpdateFaults
    BY <1>1, <2>1
  <2>3. late \in BOOLEAN /\ closing \in BOOLEAN
    OBVIOUS
  <2>. QED
    BY <2>2, <2>3 DEF HistoryTyped
<1>. QED
  BY <1>2, <1>3, <1>4, <1>5 DEF UpdateTyped

LEMMA UpdateTypedIsType == UpdateTyped => UpdateTypeOK
<1>. SUFFICES ASSUME UpdateTyped PROVE UpdateTypeOK
  OBVIOUS
<1>1. AgentTyped /\ SystemTyped /\ InterfaceTyped /\ HistoryTyped
  BY DEF UpdateTyped
<1>2. session \in [Updates -> [activeRunning : BOOLEAN, captureStopped : BOOLEAN, timer : Timers]]
  BY <1>1 DEF AgentTyped, SessionType
<1>. QED
  BY <1>1, <1>2 DEF AgentTyped, SystemTyped, InterfaceTyped, HistoryTyped, UpdateTypeOK

-----------------------------------------------------------------------------
(* The session of a core update: whoever holds the transaction is found.   *)

\* The steps of a session between the grant of the transaction and its end.
Holding == {"captureOff", "stop", "register", "arm", "open", "start", "verify", "failClosed",
            "recover", "restore", "finish"}

HolderIsOwner == \A u \in Updates : owner = u <=> step[u] \in Holding

RegisteredHolds ==
    /\ \A u \in Updates : step[u] \in {"arm", "open", "start", "verify", "failClosed"} => registered = u
    /\ \A u \in Updates : step[u] \in {"open", "start", "verify", "failClosed"} => session[u].timer # "off"

\* Every installation begins its session once: a request to begin that the Agent
\* has not taken has no session, and an installation to come is unknown.
BeginsOnce ==
    /\ \A u \in Updates : <<u, "begin">> \in inbox => step[u] = "none"
    /\ \A u \in Updates : u > update => step[u] = "none" /\ \A op \in Ops : <<u, op>> \notin inbox

UpdateInv == UpdateTyped /\ HolderIsOwner /\ RegisteredHolds /\ BeginsOnce

LEMMA UpdateInitInv == ASSUME UpdateInit PROVE UpdateInv
<1>1. HolderIsOwner /\ RegisteredHolds /\ BeginsOnce
  BY NamesAssumption DEF UpdateInit, HolderIsOwner, RegisteredHolds, BeginsOnce, Holding, Updates
<1>. QED
  BY <1>1, UpdateInitTypes DEF UpdateInv

UpdateReach == HolderIsOwner /\ RegisteredHolds /\ BeginsOnce

\* A session that goes on keeps the transaction.
LEMMA SessionGoesOn ==
    ASSUME UpdateInv, NEW u \in Updates, NEW place \in Holding, Goto(u, place), step[u] \in Holding,
           owner' = owner, registered' = registered, inbox' \subseteq inbox, update' = update,
           \A v \in Updates : v # u => session'[v].timer = session[v].timer,
           place \in {"arm", "open", "start", "verify", "failClosed"} => registered = u,
           place \in {"open", "start", "verify", "failClosed"} => session'[u].timer # "off"
    PROVE  UpdateReach'
<1>1. step'[u] = place /\ \A v \in Updates : v # u => step'[v] = step[v]
  BY DEF Goto, UpdateInv, UpdateTyped, AgentTyped
<1>2. HolderIsOwner'
  BY <1>1 DEF UpdateInv, HolderIsOwner
<1>3. RegisteredHolds'
  BY <1>1 DEF UpdateInv, RegisteredHolds
<1>4. BeginsOnce'
  BY <1>1 DEF UpdateInv, BeginsOnce, Holding
<1>. QED
  BY <1>2, <1>3, <1>4 DEF UpdateReach

\* A session that ends gives it back, and one that has ended rests.
LEMMA SessionEnds ==
    ASSUME UpdateInv, NEW u \in Updates, NEW place \in {"admission", "clear", "closed"}, Goto(u, place),
           \/ step[u] \in Holding /\ owner' = Nobody
           \/ step[u] \notin Holding /\ owner' = owner,
           step[u] # "none" \/ <<u, "begin">> \in inbox,
           <<u, "begin">> \notin inbox',
           \A v \in Updates : v # u /\ registered = v => registered' = v,
           inbox' \subseteq inbox, update' = update,
           \A v \in Updates : v # u => session'[v].timer = session[v].timer
    PROVE  UpdateReach'
<1>1. step'[u] = place /\ \A v \in Updates : v # u => step'[v] = step[v]
  BY DEF Goto, UpdateInv, UpdateTyped, AgentTyped
<1>2. HolderIsOwner'
  <2>1. Nobody \notin Updates
    BY NamesAssumption DEF Updates
  <2>2. CASE step[u] \in Holding /\ owner' = Nobody
    BY <1>1, <2>1, <2>2 DEF UpdateInv, HolderIsOwner, Holding
  <2>3. CASE step[u] \notin Holding /\ owner' = owner
    BY <1>1, <2>3 DEF UpdateInv, HolderIsOwner, Holding
  <2>. QED
    BY <2>2, <2>3
<1>3. RegisteredHolds'
  BY <1>1 DEF UpdateInv, RegisteredHolds
<1>4. BeginsOnce'
  <2>1. ~(u > update)
    BY DEF UpdateInv, BeginsOnce, Ops
  <2>. QED
    BY <1>1, <2>1 DEF UpdateInv, BeginsOnce
<1>. QED
  BY <1>2, <1>3, <1>4 DEF UpdateReach

\* Whatever leaves the sessions where they are.
LEMMA SessionsRest ==
    ASSUME UpdateInv, step' = step, owner' = owner, registered' = registered,
           \A v \in Updates : step[v] \in {"open", "start", "verify", "failClosed"} /\ session[v].timer # "off"
                                => session'[v].timer # "off",
           update' = update, inbox' \subseteq inbox
    PROVE  UpdateReach'
BY DEF UpdateInv, HolderIsOwner, RegisteredHolds, BeginsOnce, UpdateReach

\* The interface asks for something.
LEMMA InterfaceKeepsReach ==
    ASSUME UpdateInv, InterfaceStep
    PROVE  UpdateReach'
<1>1. UNCHANGED <<step, owner, registered, session>>
  BY DEF InterfaceStep, Install, Begun, Replace, Committed, RestoreFiles, RolledBack, Abandon, agent
<1>2. HolderIsOwner' /\ RegisteredHolds'
  BY <1>1 DEF UpdateInv, HolderIsOwner, RegisteredHolds
<1>3. /\ update \in Nat /\ Updates \subseteq Nat
      /\ ui # "idle" => update \in Updates
  BY BoundsAssumption DEF UpdateInv, UpdateTyped, InterfaceTyped, WorksOnFile, Versions, Updates
<1>4. ASSUME update' = update, inbox' = inbox
      PROVE  BeginsOnce'
  BY <1>1, <1>4 DEF UpdateInv, BeginsOnce
<1>5. ASSUME NEW op \in Ops \ {"begin"}, update' = update, inbox' = inbox \cup {<<update, op>>}
      PROVE  BeginsOnce'
  BY <1>1, <1>3, <1>5 DEF UpdateInv, BeginsOnce
<1>6. ASSUME update' = update + 1, inbox' = inbox \cup {<<update + 1, "begin">>}
      PROVE  BeginsOnce'
  <2>1. \A v \in Updates, op \in Ops : <<v, op>> \in inbox' => <<v, op>> \in inbox \/ v = update + 1
    BY <1>6
  <2>2. \A v \in Updates : v > update => step[v] = "none" /\ \A op \in Ops : <<v, op>> \notin inbox
    BY DEF UpdateInv, BeginsOnce
  <2>3. \A v \in Updates : v > update + 1 => v > update /\ v # update + 1
    BY <1>3
  <2>4. \A v \in Updates : v = update + 1 => v > update
    BY <1>3
  <2>5. \A v \in Updates : v > update' => step'[v] = "none" /\ \A op \in Ops : <<v, op>> \notin inbox'
    BY <1>1, <1>6, <2>1, <2>2, <2>3
  <2>6. \A v \in Updates : <<v, "begin">> \in inbox' => step'[v] = "none"
    BY <1>1, <2>1, <2>2, <2>4 DEF UpdateInv, BeginsOnce, Ops
  <2>. QED
    BY <2>5, <2>6 DEF BeginsOnce
<1>7. \/ update' = update /\ inbox' = inbox
      \/ update' = update + 1 /\ inbox' = inbox \cup {<<update + 1, "begin">>}
      \/ \E op \in Ops \ {"begin"} : update' = update /\ inbox' = inbox \cup {<<update, op>>}
  BY DEF InterfaceStep, Install, Begun, Replace, Committed, RestoreFiles, RolledBack, Abandon, SendOp,
         StartRestore, Ops, interface
<1>8. BeginsOnce'
  BY <1>4, <1>5, <1>6, <1>7
<1>. QED
  BY <1>2, <1>8 DEF UpdateReach

LEMMA AgentKeepsReach ==
    ASSUME UpdateInv, NEW u \in Updates, AgentStep(u) \/ BeginExpires(u)
    PROVE  UpdateReach'
<1>0. /\ update' = update /\ inbox' \subseteq inbox
      /\ step \in [Updates -> Steps] /\ session \in [Updates -> SessionType]
      /\ HolderIsOwner /\ RegisteredHolds /\ BeginsOnce /\ UpdateInv
  BY AgentLeaves DEF UpdateInv, UpdateTyped, AgentTyped
<1>t. ASSUME NEW t, session' = [session EXCEPT ![u].timer = t]
      PROVE  session'[u].timer = t /\ \A v \in Updates : v # u => session'[v] = session[v]
  BY <1>0, <1>t DEF SessionType
<1>1. CASE BeginCheck(u)
  <2>1. /\ UNCHANGED <<owner, registered, session>> /\ <<u, "begin">> \in inbox
        /\ inbox' = inbox \ {<<u, "begin">>}
        /\ \E place \in {"closed", "admission"} : Goto(u, place)
    BY <1>1 DEF BeginCheck
  <2>2. step[u] \notin Holding
    BY <1>0, <2>1 DEF BeginsOnce, Holding
  <2>. QED
    BY <1>0, <2>1, <2>2, SessionEnds
<1>2. CASE BeginAdmit(u)
  <2>1. step[u] = "admission" /\ owner = Nobody /\ registered' = registered /\ inbox' = inbox
    BY <1>2 DEF BeginAdmit, Same
  <2>2. \A v \in Updates : v # u => session'[v] = session[v]
    BY <1>0, <1>2 DEF BeginAdmit
  <2>3. CASE owner' = owner /\ Goto(u, "closed")
    BY <1>0, <2>1, <2>2, <2>3, SessionEnds DEF BeginsOnce, Holding
  <2>4. CASE owner' = u /\ \E place \in {"captureOff", "stop", "register"} : Goto(u, place)
    <3>1. step'[u] \in {"captureOff", "stop", "register"} /\ \A v \in Updates : v # u => step'[v] = step[v]
      BY <1>0, <2>4 DEF Goto
    <3>2. \A v \in Updates : step[v] \notin Holding
      BY <1>0, <2>1, NamesAssumption DEF HolderIsOwner, Updates
    <3>3. HolderIsOwner'
      BY <2>4, <3>1, <3>2 DEF HolderIsOwner, Holding
    <3>4. RegisteredHolds'
      BY <1>0, <2>1, <2>2, <3>1 DEF RegisteredHolds
    <3>5. BeginsOnce'
      BY <1>0, <2>1, <3>1 DEF BeginsOnce
    <3>. QED
      BY <3>3, <3>4, <3>5 DEF UpdateReach
  <2>. QED
    BY <1>2, <2>3, <2>4 DEF BeginAdmit
<1>3. CASE BeginExpires(u)
  <2>1. step[u] = "admission" /\ Goto(u, "closed") /\ UNCHANGED <<owner, registered, session, inbox>>
    BY <1>3 DEF BeginExpires, Same
  <2>. QED
    BY <1>0, <2>1, SessionEnds DEF BeginsOnce, Holding
<1>4. CASE CaptureOff(u)
  <2>1. step[u] = "captureOff" /\ UNCHANGED <<registered, inbox>>
        /\ \A v \in Updates : v # u => session'[v] = session[v]
    BY <1>0, <1>4 DEF CaptureOff, Same
  <2>2. CASE owner' = owner /\ Goto(u, "stop")
    BY <1>0, <2>1, <2>2, SessionGoesOn DEF Holding
  <2>3. CASE owner' = Nobody /\ Goto(u, "closed")
    BY <1>0, <2>1, <2>3, SessionEnds DEF BeginsOnce, Holding
  <2>. QED
    BY <1>4, <2>2, <2>3 DEF CaptureOff, FailBegin
<1>5. CASE BeginStop(u)
  <2>1. /\ step[u] = "stop" /\ UNCHANGED <<owner, registered, session, inbox>>
        /\ \E place \in {"register", "recover"} : Goto(u, place)
    BY <1>5 DEF BeginStop, Same
  <2>. QED
    BY <1>0, <2>1, SessionGoesOn DEF Holding
<1>6. CASE Register(u)
  <2>1. step[u] = "register" /\ Goto(u, "arm") /\ registered' = u /\ UNCHANGED <<owner, session, inbox>>
    BY <1>6 DEF Register, Same
  <2>2. step'[u] = "arm" /\ \A v \in Updates : v # u => step'[v] = step[v]
    BY <1>0, <2>1 DEF Goto
  <2>3. \A v \in Updates : v # u => step[v] \notin Holding
    BY <1>0, <2>1 DEF HolderIsOwner, Holding
  <2>4. HolderIsOwner' /\ BeginsOnce'
    BY <1>0, <2>1, <2>2 DEF HolderIsOwner, BeginsOnce, Holding
  <2>5. RegisteredHolds'
    BY <2>1, <2>2, <2>3 DEF RegisteredHolds, Holding
  <2>. QED
    BY <2>4, <2>5 DEF UpdateReach
<1>7. CASE Arm(u)
  <2>1. step[u] = "arm" /\ Goto(u, "open") /\ UNCHANGED <<owner, registered, inbox>> /\ session'[u].timer = "armed"
        /\ \A v \in Updates : v # u => session'[v] = session[v]
    BY <1>7, <1>t DEF Arm, Same
  <2>. QED
    BY <1>0, <2>1, SessionGoesOn DEF Holding, RegisteredHolds
<1>8. CASE Commit(u) \/ RollbackSession(u)
  <2>1. /\ step[u] = "open" /\ UNCHANGED <<owner, registered, session>>
        /\ \E place \in {"start", "finish", "recover"} : Goto(u, place)
    BY <1>8 DEF Commit, RollbackSession, Take
  <2>. QED
    BY <1>0, <2>1, SessionGoesOn DEF Holding, RegisteredHolds
<1>9. CASE CommitStart(u) \/ CommitVerify(u) \/ FailClosed(u)
  <2>1. /\ step[u] \in {"start", "verify", "failClosed"} /\ UNCHANGED <<owner, registered, session, inbox>>
        /\ \E place \in {"verify", "failClosed", "finish", "open"} : Goto(u, place)
    BY <1>9 DEF CommitStart, CommitVerify, FailClosed, Same
  <2>. QED
    BY <1>0, <2>1, SessionGoesOn DEF Holding, RegisteredHolds
<1>10. CASE TimerFires(u)
  <2>1. UNCHANGED <<step, owner, registered, inbox>> /\ session'[u].timer = "fired"
        /\ \A v \in Updates : v # u => session'[v] = session[v]
    BY <1>10, <1>t DEF TimerFires, Same
  <2>. QED
    BY <1>0, <2>1, SessionsRest
<1>11. CASE Expire(u)
  <2>1. UNCHANGED <<owner, registered, inbox>> /\ \A v \in Updates : v # u => session'[v] = session[v]
    BY <1>11, <1>t DEF Expire, Same
  <2>2. CASE step[u] = "open" /\ Goto(u, "recover")
    BY <1>0, <2>1, <2>2, SessionGoesOn DEF Holding
  <2>3. CASE step[u] \in {"clear", "closed"} /\ step' = step
    BY <1>0, <2>1, <2>3, SessionsRest
  <2>. QED
    BY <1>11, <2>2, <2>3 DEF Expire
<1>12. CASE Recover(u) \/ Restore(u)
  <2>1. /\ step[u] \in {"recover", "restore"} /\ UNCHANGED <<owner, registered, session, inbox>>
        /\ \E place \in {"restore", "finish"} : Goto(u, place)
    BY <1>12 DEF Recover, Restore, Same
  <2>. QED
    BY <1>0, <2>1, SessionGoesOn DEF Holding
<1>13. CASE Finish(u)
  <2>1. /\ step[u] = "finish" /\ owner' = Nobody /\ UNCHANGED <<registered, inbox>>
        /\ \E place \in {"clear", "closed"} : Goto(u, place)
    BY <1>13 DEF Finish, Same
  <2>2. \A v \in Updates : v # u => session'[v] = session[v]
    <3>1. PICK t : session' = [session EXCEPT ![u].timer = t]
      BY <1>13 DEF Finish
    <3>. QED
      BY <3>1, <1>t
  <2>. QED
    BY <1>0, <2>1, <2>2, SessionEnds DEF BeginsOnce, Holding
<1>14. CASE Clear(u)
  <2>1. /\ step[u] = "clear" /\ Goto(u, "closed") /\ registered' = (IF registered = u THEN Nobody ELSE registered)
        /\ UNCHANGED <<owner, inbox>>
    BY <1>14 DEF Clear, Same
  <2>2. \A v \in Updates : v # u => session'[v] = session[v]
    BY <1>0, <1>14 DEF Clear
  <2>. QED
    BY <1>0, <2>1, <2>2, SessionEnds DEF BeginsOnce, Holding
<1>15. CASE \E op \in Ops : Refuse(u, op)
  <2>1. UNCHANGED <<step, owner, registered, session>>
    BY <1>15 DEF Refuse, agent
  <2>. QED
    BY <1>0, <2>1, SessionsRest
<1>. QED
  BY <1>1, <1>2, <1>3, <1>4, <1>5, <1>6, <1>7, <1>8, <1>9, <1>10, <1>11, <1>12, <1>13, <1>14, <1>15 DEF AgentStep

LEMMA OthersKeepReach ==
    ASSUME UpdateInv, Switch \/ Shutdown \/ UNCHANGED updateVars
    PROVE  UpdateReach'
<1>1. UNCHANGED <<owner, registered, session, update, inbox>>
  BY DEF Switch, Shutdown, Same, updateVars, agent, interface
<1>2. CASE step' = step
  BY <1>1, <1>2, SessionsRest
<1>3. CASE registered # Nobody /\ step[registered] = "open" /\ Goto(registered, "recover")
  <2>1. registered \in Updates /\ step[registered] \in Holding /\ "recover" \in Holding
    BY <1>3 DEF UpdateInv, UpdateTyped, AgentTyped, Holding
  <2>. QED
    BY <1>1, <1>3, <2>1, SessionGoesOn
<1>. QED
  BY <1>2, <1>3 DEF Switch, Shutdown, updateVars, agent

LEMMA UpdateNextInv ==
    ASSUME UpdateInv, [UpdateNext]_updateVars
    PROVE  UpdateInv'
<1>1. UpdateTyped'
  BY UpdateTypesStep DEF UpdateInv
<1>2. UpdateReach'
  BY AgentKeepsReach, InterfaceKeepsReach, OthersKeepReach DEF UpdateNext
<1>. QED
  BY <1>1, <1>2 DEF UpdateInv, UpdateReach

\* A session that has been finished stays so: every step of the Agent begins where
\* a session is that is not.
LEMMA FinishedStays ==
    ASSUME UpdateInv, [UpdateNext]_updateVars
    PROVE  [\A u \in Updates : step[u] \in {"clear", "closed"} => step'[u] \in {"clear", "closed"}]_updateVars
<1>. SUFFICES ASSUME NEW u \in Updates, step[u] \in {"clear", "closed"}
              PROVE  step'[u] \in {"clear", "closed"}
  OBVIOUS
<1>0. step \in [Updates -> Steps]
  BY DEF UpdateInv, UpdateTyped, AgentTyped
<1>1. ASSUME NEW v \in Updates, NEW place \in Steps, Goto(v, place),
             step[v] \notin {"clear", "closed"} \/ place \in {"clear", "closed"}
      PROVE  step'[u] \in {"clear", "closed"}
  BY <1>0, <1>1 DEF Goto
<1>2. CASE \E v \in Updates : BeginCheck(v)
  <2>1. PICK v \in Updates : BeginCheck(v)
    BY <1>2
  <2>2. step[v] = "none" /\ (Goto(v, "closed") \/ Goto(v, "admission"))
    BY <2>1 DEF BeginCheck, UpdateInv, BeginsOnce
  <2>. QED
    BY <1>1, <2>2 DEF Steps
<1>3. CASE \E v \in Updates : BeginAdmit(v) \/ BeginExpires(v) \/ CaptureOff(v) \/ BeginStop(v) \/ Register(v) \/ Arm(v)
  <2>1. PICK v \in Updates : BeginAdmit(v) \/ BeginExpires(v) \/ CaptureOff(v) \/ BeginStop(v) \/ Register(v) \/ Arm(v)
    BY <1>3
  <2>2. step[v] \in {"admission", "captureOff", "stop", "register", "arm"}
    BY <2>1 DEF BeginAdmit, BeginExpires, CaptureOff, BeginStop, Register, Arm
  <2>3. \E place \in Steps : Goto(v, place)
    BY <2>1 DEF BeginAdmit, BeginExpires, CaptureOff, BeginStop, Register, Arm, FailBegin, Steps
  <2>. QED
    BY <1>1, <2>2, <2>3
<1>4. CASE \E v \in Updates : Commit(v) \/ RollbackSession(v) \/ CommitStart(v) \/ CommitVerify(v) \/ FailClosed(v)
                              \/ Recover(v) \/ Restore(v) \/ Finish(v) \/ Clear(v)
  <2>1. PICK v \in Updates : Commit(v) \/ RollbackSession(v) \/ CommitStart(v) \/ CommitVerify(v) \/ FailClosed(v)
                              \/ Recover(v) \/ Restore(v) \/ Finish(v) \/ Clear(v)
    BY <1>4
  <2>2. step[v] \in {"open", "start", "verify", "failClosed", "recover", "restore", "finish"} \/ Goto(v, "closed")
    BY <2>1 DEF Commit, RollbackSession, Take, CommitStart, CommitVerify, FailClosed, Recover, Restore, Finish, Clear
  <2>3. \E place \in Steps : Goto(v, place)
    BY <2>1 DEF Commit, RollbackSession, Take, CommitStart, CommitVerify, FailClosed, Recover, Restore, Finish, Clear, Steps
  <2>. QED
    BY <1>1, <2>2, <2>3 DEF Steps
<1>5. CASE \E v \in Updates : Expire(v)
  <2>1. PICK v \in Updates : Expire(v)
    BY <1>5
  <2>2. step' = step \/ (step[v] = "open" /\ Goto(v, "recover"))
    BY <2>1 DEF Expire
  <2>. QED
    BY <1>1, <2>2 DEF Steps
<1>6. CASE Shutdown
  <2>1. step' = step \/ (registered \in Updates /\ step[registered] = "open" /\ Goto(registered, "recover"))
    BY <1>6 DEF Shutdown, UpdateInv, UpdateTyped, AgentTyped
  <2>. QED
    BY <1>1, <2>1 DEF Steps
<1>7. CASE InterfaceStep \/ Switch \/ UNCHANGED updateVars \/ \E v \in Updates : TimerFires(v) \/ \E op \in Ops : Refuse(v, op)
  <2>1. step' = step
    BY <1>7 DEF InterfaceStep, Install, Begun, Replace, Committed, RestoreFiles, RolledBack, Abandon, Switch,
           TimerFires, Refuse, updateVars, agent
  <2>. QED
    BY <2>1
<1>. QED
  BY <1>2, <1>3, <1>4, <1>5, <1>6, <1>7 DEF UpdateNext, AgentStep

LEMMA HeldIsFound == UpdateInv => HeldIsReachable
  BY DEF UpdateInv, HolderIsOwner, RegisteredHolds, HeldIsReachable, Holding

-----------------------------------------------------------------------------
(* The session of a core update: one failure is survived.                  *)

\* What the guarantee is given for: one failure, no deadline that passed while the
\* interface was at work, no shutdown.
Smooth == updateFaults <= 1 /\ ~late /\ ~closing

Whole(files) == files["manifest"] = files["binary"] /\ files["sums"] = files["binary"]

\* Core and capture are as the user was last told, and a core that runs is the
\* installed one.
AsKnown == capture = wanted.capture /\ (isActive /\ wanted.core => core = file["binary"])
CoreFits == core \in {NoCore, file["binary"]} /\ (core # NoCore => isActive)

\* The files are of one version except while the interface works on them, which it
\* does under an open session only.
FilesFit ==
    /\ Whole(backup) /\ (ui \notin {"replace", "restore"} => Whole(file))
    /\ ui \in {"replace", "restore"} => step[update] = "open"
    /\ ui = "replace" => \A i \in 1 .. 3 : i < index => file[Files[i]] = update
    /\ ui = "restore" => updateFaults = 1 /\ \A i \in 1 .. 3 : i < index => file[Files[i]] = backup[Files[i]]

\* What an answer tells the interface about its session.
RepliesFit ==
    /\ reply # "none" => ui \in Ops
    /\ ui = "begin" => (reply = "ok" => step[update] = "open") /\ (reply = "error" => step[update] = "closed")
    /\ ui = "commit" => /\ reply = "ok" => step[update] = "closed"
                        /\ reply = "error" => step[update] = "open" /\ updateFaults = 1
    /\ ui \in Rollbacks => updateFaults = 1 /\ (reply # "none" => step[update] = "closed")
    /\ ui = "again" => step[update] = "closed"

\* A request that the Agent has not taken is the one the interface waits for.
RequestsFit ==
    /\ \A u \in Updates, op \in Ops \ {"begin"} : <<u, op>> \in inbox => u = update /\ ui = op /\ reply = "none"
    /\ \A u \in Updates, op \in {"commit", "rollback"} : <<u, op>> \in inbox => step[u] = "open"

\* So is the one it works on; it undoes something only after a failure.
WorkIsAsked ==
    \A u \in Updates :
      /\ step[u] \in {"start", "verify", "failClosed"} => why[u] = "commit"
      /\ step[u] \in {"start", "verify", "failClosed", "finish", "clear"} /\ why[u] = "commit"
           => u = update /\ ui = "commit" /\ reply = "none"
      /\ step[u] \in {"recover", "restore", "finish", "clear"} /\ why[u] \in Rollbacks
           => u = update /\ ui = "rollback" /\ why[u] = "rollback" /\ reply = "none"
      /\ step[u] \in {"recover", "restore"} => why[u] # "commit" /\ updateFaults = 1
      /\ step[u] \in {"none", "admission", "captureOff", "stop", "register", "arm"} => why[u] = "begin"
      /\ why[u] # "shutdown" /\ (step[u] = "clear" => why[u] # "begin")

\* A session the interface has left was left by a failure.
LostAfterFault ==
    \A u \in Updates : (step[u] \in {"admission"} \cup Holding \/ <<u, "begin">> \in inbox) /\ (u # update \/ ui = "idle")
                         => updateFaults = 1

\* While a session holds the transaction: the core does not run, and the session
\* remembers what the user knows.
Remembered(u) ==
    /\ session[u].activeRunning =>
         isActive /\ capture = FALSE /\ wanted.capture = session[u].captureStopped
    /\ ~session[u].activeRunning =>
         /\ capture = wanted.capture /\ ~(isActive /\ wanted.core)
         /\ ~session[u].captureStopped /\ core = NoCore

CoreOf(u) ==
    /\ step[u] = "captureOff" => /\ session[u].activeRunning /\ ~session[u].captureStopped /\ isActive
                                 /\ AsKnown /\ CoreFits /\ core # NoCore /\ capture = TRUE
    /\ step[u] \in {"stop", "start", "verify", "failClosed", "restore"} => session[u].activeRunning
    /\ step[u] \in {"stop", "register", "arm", "open", "start", "verify", "failClosed", "recover", "restore"} => Remembered(u)
    /\ step[u] \in {"stop", "failClosed", "recover"} => CoreFits
    /\ step[u] \in {"register", "arm", "open", "start"} => core = NoCore
    /\ step[u] \in {"verify", "restore"} => core = file["binary"]
    /\ step[u] = "failClosed" => updateFaults = 1
    /\ step[u] = "restore" => session[u].captureStopped
    /\ step[u] = "finish" => AsKnown /\ CoreFits

CoreKnown == (owner = Nobody => AsKnown /\ CoreFits) /\ \A u \in Updates : CoreOf(u)

Survives == FilesFit /\ RepliesFit /\ RequestsFit /\ WorkIsAsked /\ LostAfterFault /\ CoreKnown

SurvivalInv == UpdateInv /\ (Smooth => Survives)

\* Failures are only ever added, and neither a late deadline nor a shutdown is
\* taken back.
Ages ==
    /\ updateFaults' = updateFaults \/ updateFaults' = updateFaults + 1
    /\ late => late'
    /\ closing => closing'

LEMMA HistoryAges == ASSUME [UpdateNext]_updateVars PROVE Ages
<1>0. ASSUME Fault \/ NoFault \/ UNCHANGED history PROVE Ages
  <2>1. /\ updateFaults' = updateFaults \/ updateFaults' = updateFaults + 1
        /\ late' = late /\ closing' = closing
    BY <1>0 DEF Fault, NoFault, history
  <2>. QED
    BY <2>1 DEF Ages
<1>1. CASE \E u \in Updates : AgentStep(u) \/ BeginExpires(u)
  <2>1. PICK u \in Updates : AgentStep(u) \/ BeginExpires(u)
    BY <1>1
  <2>2. CASE BeginCheck(u) \/ BeginAdmit(u) \/ BeginExpires(u) \/ CaptureOff(u) \/ BeginStop(u) \/ Register(u) \/ Arm(u)
    BY <1>0, <2>2 DEF BeginCheck, BeginAdmit, BeginExpires, CaptureOff, BeginStop, Register, Arm
  <2>3. CASE Commit(u) \/ RollbackSession(u) \/ CommitStart(u) \/ CommitVerify(u) \/ FailClosed(u) \/ TimerFires(u)
    BY <1>0, <2>3 DEF Commit, RollbackSession, Take, CommitStart, CommitVerify, FailClosed, TimerFires
  <2>4. CASE Recover(u) \/ Restore(u) \/ Finish(u) \/ Clear(u) \/ \E op \in Ops : Refuse(u, op)
    BY <1>0, <2>4 DEF Recover, Restore, Finish, Clear, Refuse
  <2>5. CASE Expire(u)
    <3>1. updateFaults' = updateFaults /\ closing' = closing
      BY <2>5 DEF Expire
    <3>2. CASE step[u] = "open"
      <4>1. late' = (late \/ (update = u /\ ui # "idle"))
        BY <2>5, <3>2 DEF Expire
      <4>. QED
        BY <3>1, <4>1 DEF Ages
    <3>3. CASE step[u] # "open"
      <4>1. late' = late
        BY <2>5, <3>3 DEF Expire
      <4>. QED
        BY <3>1, <4>1 DEF Ages
    <3>. QED
      BY <3>2, <3>3
  <2>. QED
    BY <2>1, <2>2, <2>3, <2>4, <2>5 DEF AgentStep
<1>2. CASE Abandon
  <2>1. /\ updateFaults' = updateFaults + 1 /\ closing' = closing
        /\ late' = TRUE \/ late' = (late \/ ui \notin {"begin", "rollback", "again"})
    BY <1>2 DEF Abandon
  <2>. QED
    BY <2>1 DEF Ages
<1>3. CASE Install \/ Begun \/ Replace \/ Committed \/ RestoreFiles \/ RolledBack
  BY <1>0, <1>3 DEF Install, Begun, Replace, Committed, RestoreFiles, RolledBack
<1>4. CASE Switch \/ Shutdown
  <2>1. updateFaults' = updateFaults /\ late' = late /\ (closing' = closing \/ closing' = TRUE)
    BY <1>4 DEF Switch, Shutdown
  <2>. QED
    BY <2>1 DEF Ages
<1>5. CASE UNCHANGED updateVars
  BY <1>0, <1>5 DEF updateVars
<1>. QED
  BY <1>1, <1>2, <1>3, <1>4, <1>5 DEF UpdateNext, InterfaceStep

LEMMA SmoothBefore ==
    ASSUME UpdateTyped, [UpdateNext]_updateVars, Smooth'
    PROVE  /\ Smooth /\ updateFaults \in Nat
           /\ updateFaults' = updateFaults \/ (updateFaults = 0 /\ updateFaults' = 1)
<1>1. updateFaults \in Nat
  BY BoundsAssumption DEF UpdateTyped, HistoryTyped
<1>2. Ages
  BY HistoryAges
<1>5. ~late /\ ~closing
  BY <1>2 DEF Ages, Smooth
<1>6. updateFaults <= 1 /\ (updateFaults' = updateFaults \/ (updateFaults = 0 /\ updateFaults' = 1))
  BY <1>1, <1>2 DEF Ages, Smooth
<1>. QED
  BY <1>1, <1>5, <1>6 DEF Smooth

\* What a step of the Agent can rely on.
Smoothly == UpdateInv /\ Survives /\ Smooth /\ Smooth' /\ (updateFaults' = updateFaults \/ (updateFaults = 0 /\ updateFaults' = 1))

-----------------------------------------------------------------------------
(* The parts that do not speak of the core, for each way a session moves.  *)

Listened == FilesFit /\ RepliesFit /\ RequestsFit /\ WorkIsAsked /\ LostAfterFault

InterfaceWaits == UNCHANGED <<file, ui, update, index, backup>>

\* The Agent works on, without an answer.
LEMMA WorksOn ==
    ASSUME Smoothly, NEW u \in Updates, NEW place \in (Holding \cup {"clear"}) \ {"open"}, InterfaceWaits,
           step[u] \in ({"admission"} \cup Holding) \ {"open"}, Goto(u, place), UNCHANGED <<why, reply, inbox>>,
           \/ why[u] = "commit" /\ place \in {"verify", "failClosed", "finish", "clear"}
           \/ why[u] # "commit" /\ place \notin {"start", "verify", "failClosed"}
              /\ (place \in {"recover", "restore"} => updateFaults' = 1)
              /\ (place \in {"captureOff", "stop", "register", "arm"} => why[u] = "begin")
              /\ (place = "clear" => why[u] # "begin")
    PROVE  Listened'
<1>0. /\ FilesFit /\ RepliesFit /\ RequestsFit /\ WorkIsAsked /\ LostAfterFault /\ BeginsOnce
      /\ step \in [Updates -> Steps] /\ (ui # "idle" => update \in Updates)
      /\ (updateFaults = 1 => updateFaults' = 1)
  BY DEF Smoothly, Survives, UpdateInv, UpdateTyped, AgentTyped, WorksOnFile
<1>1. step'[u] = place /\ \A v \in Updates : v # u => step'[v] = step[v]
  BY <1>0 DEF Goto
<1>2. FilesFit'
  BY <1>0, <1>1 DEF FilesFit, Whole, InterfaceWaits, Holding
<1>3. RepliesFit'
  BY <1>0, <1>1 DEF RepliesFit, InterfaceWaits, Holding, Ops, Rollbacks
<1>4. RequestsFit'
  BY <1>0, <1>1 DEF RequestsFit, InterfaceWaits, Holding
<1>5. WorkIsAsked'
  BY <1>0, <1>1 DEF WorkIsAsked, InterfaceWaits, Holding, Rollbacks
<1>6. LostAfterFault'
  BY <1>0, <1>1 DEF LostAfterFault, InterfaceWaits, Holding
<1>. QED
  BY <1>2, <1>3, <1>4, <1>5, <1>6 DEF Listened

\* A begin fails: the session is closed, and the interface told so if it waits.
LEMMA BeginFails ==
    ASSUME Smoothly, NEW u \in Updates, InterfaceWaits, step[u] \notin {"open", "closed"}, Goto(u, "closed"),
           why[u] = "begin", Answer(u, "error"), why' = why, inbox' \subseteq inbox,
           step[u] # "none" \/ <<u, "begin">> \in inbox
    PROVE  Listened'
<1>0. /\ FilesFit /\ RepliesFit /\ RequestsFit /\ WorkIsAsked /\ LostAfterFault /\ BeginsOnce
      /\ step \in [Updates -> Steps] /\ (ui # "idle" => update \in Updates)
      /\ (updateFaults = 1 => updateFaults' = 1)
  BY DEF Smoothly, Survives, UpdateInv, UpdateTyped, AgentTyped, WorksOnFile
<1>1. step'[u] = "closed" /\ \A v \in Updates : v # u => step'[v] = step[v]
  BY <1>0 DEF Goto
<1>2. reply' = IF update = u /\ ui = "begin" THEN "error" ELSE reply
  BY DEF Answer, AnswerTo
<1>3. FilesFit'
  BY <1>0, <1>1 DEF FilesFit, Whole, InterfaceWaits
<1>4. RepliesFit'
  BY <1>0, <1>1, <1>2 DEF RepliesFit, InterfaceWaits, Ops, Rollbacks
<1>5. RequestsFit'
  BY <1>0, <1>1, <1>2 DEF RequestsFit, InterfaceWaits
<1>6. WorkIsAsked'
  BY <1>0, <1>1, <1>2 DEF WorkIsAsked, InterfaceWaits
<1>7. LostAfterFault'
  BY <1>0, <1>1 DEF LostAfterFault, InterfaceWaits, Holding
<1>. QED
  BY <1>3, <1>4, <1>5, <1>6, <1>7 DEF Listened

\* A request is taken: a commit, or the rollback after a failure.
LEMMA RequestTaken ==
    ASSUME Smoothly, NEW u \in Updates, NEW op \in Ops \ {"begin"}, NEW place, InterfaceWaits, step[u] = "open",
           <<u, op>> \in inbox, inbox' = inbox \ {<<u, op>>}, Goto(u, place), why' = [why EXCEPT ![u] = op],
           reply' = reply,
           \/ op = "commit" /\ place \in {"start", "finish"}
           \/ op \in Rollbacks /\ place = "recover"
    PROVE  Listened'
<1>0. /\ FilesFit /\ RepliesFit /\ RequestsFit /\ WorkIsAsked /\ LostAfterFault /\ BeginsOnce
      /\ step \in [Updates -> Steps] /\ why \in [Updates -> Reasons] /\ (ui # "idle" => update \in Updates)
      /\ (updateFaults = 1 => updateFaults' = 1)
  BY DEF Smoothly, Survives, UpdateInv, UpdateTyped, AgentTyped, WorksOnFile
<1>1. step'[u] = place /\ \A v \in Updates : v # u => step'[v] = step[v]
  BY <1>0 DEF Goto
<1>2. why'[u] = op /\ \A v \in Updates : v # u => why'[v] = why[v]
  BY <1>0
<1>3. u = update /\ ui = op /\ reply = "none" /\ op # "again"
  BY <1>0 DEF RequestsFit, RepliesFit
<1>4. FilesFit' /\ RepliesFit'
  BY <1>0, <1>1, <1>3 DEF FilesFit, RepliesFit, InterfaceWaits, Ops, Rollbacks
<1>5. RequestsFit'
  BY <1>0, <1>1, <1>3 DEF RequestsFit, InterfaceWaits, Ops
<1>6. WorkIsAsked'
  BY <1>0, <1>1, <1>2, <1>3 DEF WorkIsAsked, RepliesFit, InterfaceWaits, Rollbacks, Ops
<1>7. LostAfterFault'
  BY <1>0, <1>1 DEF LostAfterFault, InterfaceWaits, Holding
<1>. QED
  BY <1>4, <1>5, <1>6, <1>7 DEF Listened

\* The deadline passes over a session that the interface has left.
LEMMA LeftIsExpired ==
    ASSUME Smoothly, NEW u \in Updates, InterfaceWaits, step[u] = "open", Goto(u, "recover"),
           why' = [why EXCEPT ![u] = "expiry"], UNCHANGED <<reply, inbox>>, update # u \/ ui = "idle"
    PROVE  Listened'
<1>0. /\ FilesFit /\ RepliesFit /\ RequestsFit /\ WorkIsAsked /\ LostAfterFault /\ BeginsOnce
      /\ step \in [Updates -> Steps] /\ why \in [Updates -> Reasons] /\ (ui # "idle" => update \in Updates)
      /\ (updateFaults = 1 => updateFaults' = 1)
  BY DEF Smoothly, Survives, UpdateInv, UpdateTyped, AgentTyped, WorksOnFile
<1>1. step'[u] = "recover" /\ \A v \in Updates : v # u => step'[v] = step[v]
  BY <1>0 DEF Goto
<1>2. why'[u] = "expiry" /\ \A v \in Updates : v # u => why'[v] = why[v]
  BY <1>0
<1>3. updateFaults = 1
  BY <1>0 DEF LostAfterFault, Holding
<1>4. FilesFit' /\ RepliesFit'
  BY <1>0, <1>1 DEF FilesFit, RepliesFit, InterfaceWaits, Ops, Rollbacks
<1>5. RequestsFit'
  <2>1. \A op \in Ops \ {"begin"} : <<u, op>> \notin inbox
    BY <1>0 DEF RequestsFit, Ops
  <2>. QED
    BY <1>0, <1>1, <2>1 DEF RequestsFit, InterfaceWaits, Ops
<1>6. WorkIsAsked'
  BY <1>0, <1>1, <1>2, <1>3 DEF WorkIsAsked, InterfaceWaits, Rollbacks
<1>7. LostAfterFault'
  BY <1>0, <1>1 DEF LostAfterFault, InterfaceWaits, Holding
<1>. QED
  BY <1>4, <1>5, <1>6, <1>7 DEF Listened

\* The session is open, with the answer to the request that it has worked on.
LEMMA OpensWithAnswer ==
    ASSUME Smoothly, NEW u \in Updates, NEW result, InterfaceWaits, Goto(u, "open"), Answer(u, result),
           UNCHANGED <<why, inbox>>,
           \/ step[u] = "arm" /\ result = "ok"
           \/ step[u] = "failClosed" /\ result = "error" /\ updateFaults = 1
    PROVE  Listened'
<1>0. /\ FilesFit /\ RepliesFit /\ RequestsFit /\ WorkIsAsked /\ LostAfterFault /\ BeginsOnce
      /\ step \in [Updates -> Steps] /\ why \in [Updates -> Reasons] /\ (ui # "idle" => update \in Updates)
      /\ (updateFaults = 1 => updateFaults' = 1)
  BY DEF Smoothly, Survives, UpdateInv, UpdateTyped, AgentTyped, WorksOnFile
<1>1. step'[u] = "open" /\ \A v \in Updates : v # u => step'[v] = step[v]
  BY <1>0 DEF Goto
<1>2. reply' = IF update = u /\ ui = why[u] THEN result ELSE reply
  BY DEF Answer, AnswerTo
<1>3. step[u] = "arm" => why[u] = "begin"
  BY <1>0 DEF WorkIsAsked
<1>4. step[u] = "failClosed" => why[u] = "commit" /\ update = u /\ ui = "commit"
  BY <1>0 DEF WorkIsAsked
<1>5. FilesFit'
  BY <1>0, <1>1 DEF FilesFit, Whole, InterfaceWaits
<1>6. RepliesFit'
  BY <1>0, <1>1, <1>2, <1>3, <1>4 DEF RepliesFit, InterfaceWaits, Ops, Rollbacks
<1>7. RequestsFit'
  BY <1>0, <1>1, <1>2, <1>3, <1>4 DEF RequestsFit, InterfaceWaits, Ops
<1>8. WorkIsAsked'
  BY <1>0, <1>1, <1>2, <1>3, <1>4 DEF WorkIsAsked, InterfaceWaits, Rollbacks
<1>9. LostAfterFault'
  BY <1>0, <1>1 DEF LostAfterFault, InterfaceWaits, Holding
<1>. QED
  BY <1>5, <1>6, <1>7, <1>8, <1>9 DEF Listened

\* A session that has been finished is closed, and whoever asked for it is told.
LEMMA ClosesWithAnswer ==
    ASSUME Smoothly, NEW u \in Updates, NEW result \in {"ok", "error"}, InterfaceWaits, step[u] = "clear", Goto(u, "closed"),
           why' = [why EXCEPT ![u] = "begin"], inbox' = inbox, Answer(u, result),
           result = "error" => why[u] \in Rollbacks
    PROVE  Listened'
<1>0. /\ FilesFit /\ RepliesFit /\ RequestsFit /\ WorkIsAsked /\ LostAfterFault /\ BeginsOnce
      /\ step \in [Updates -> Steps] /\ why \in [Updates -> Reasons] /\ (ui # "idle" => update \in Updates)
      /\ (updateFaults = 1 => updateFaults' = 1)
  BY DEF Smoothly, Survives, UpdateInv, UpdateTyped, AgentTyped, WorksOnFile
<1>1. step'[u] = "closed" /\ \A v \in Updates : v # u => step'[v] = step[v]
  BY <1>0 DEF Goto
<1>2. why'[u] = "begin" /\ \A v \in Updates : v # u => why'[v] = why[v]
  BY <1>0 DEF Reasons, Ops
<1>3. reply' = IF update = u /\ ui = why[u] THEN result ELSE reply
  BY DEF Answer, AnswerTo
<1>4. /\ why[u] \in Rollbacks => why[u] = "rollback"
      /\ why[u] \in {"commit", "rollback"} => u = update /\ ui = why[u]
      /\ why[u] \in {"commit", "rollback", "expiry"}
  BY <1>0 DEF WorkIsAsked, Reasons, Ops, Rollbacks
<1>5. FilesFit'
  BY <1>0, <1>1 DEF FilesFit, Whole, InterfaceWaits
<1>6. RepliesFit'
  <2>1. CASE why[u] = "expiry"
    <3>1. ui # "expiry"
      BY DEF Smoothly, UpdateInv, UpdateTyped, InterfaceTyped, Places, Ops
    <3>. QED
      BY <1>0, <1>1, <1>3, <2>1, <3>1 DEF RepliesFit, InterfaceWaits, Ops, Rollbacks
  <2>2. CASE why[u] = "commit"
    BY <1>0, <1>1, <1>3, <1>4, <2>2 DEF RepliesFit, InterfaceWaits, Ops, Rollbacks
  <2>3. CASE why[u] = "rollback"
    BY <1>0, <1>1, <1>3, <1>4, <2>3 DEF RepliesFit, InterfaceWaits, Ops, Rollbacks
  <2>. QED
    BY <1>4, <2>1, <2>2, <2>3
<1>7. RequestsFit'
  BY <1>0, <1>1, <1>3, <1>4 DEF RequestsFit, InterfaceWaits, Ops
<1>8. WorkIsAsked'
  BY <1>0, <1>1, <1>2, <1>3, <1>4 DEF WorkIsAsked, InterfaceWaits, Rollbacks
<1>9. LostAfterFault'
  BY <1>0, <1>1 DEF LostAfterFault, InterfaceWaits, Holding
<1>. QED
  BY <1>5, <1>6, <1>7, <1>8, <1>9 DEF Listened

\* A begin waits for the transaction.
LEMMA BeginWaits ==
    ASSUME Smoothly, NEW u \in Updates, InterfaceWaits, <<u, "begin">> \in inbox, inbox' = inbox \ {<<u, "begin">>},
           Goto(u, "admission"), UNCHANGED <<why, reply>>
    PROVE  Listened'
<1>0. /\ FilesFit /\ RepliesFit /\ RequestsFit /\ WorkIsAsked /\ LostAfterFault /\ BeginsOnce
      /\ step \in [Updates -> Steps] /\ why \in [Updates -> Reasons] /\ (ui # "idle" => update \in Updates)
      /\ (updateFaults = 1 => updateFaults' = 1)
  BY DEF Smoothly, Survives, UpdateInv, UpdateTyped, AgentTyped, WorksOnFile
<1>1. step'[u] = "admission" /\ step[u] = "none" /\ \A v \in Updates : v # u => step'[v] = step[v]
  BY <1>0 DEF Goto, BeginsOnce
<1>2. FilesFit' /\ RepliesFit'
  BY <1>0, <1>1 DEF FilesFit, RepliesFit, InterfaceWaits, Ops, Rollbacks
<1>3. RequestsFit'
  BY <1>0, <1>1 DEF RequestsFit, InterfaceWaits
<1>4. WorkIsAsked'
  BY <1>0, <1>1 DEF WorkIsAsked, InterfaceWaits
<1>5. LostAfterFault'
  BY <1>0, <1>1 DEF LostAfterFault, InterfaceWaits, Holding
<1>. QED
  BY <1>2, <1>3, <1>4, <1>5 DEF Listened

\* The sessions rest; a rollback that comes too late may be refused.
LEMMA SessionsListen ==
    ASSUME Smoothly, InterfaceWaits, UNCHANGED <<step, why>>,
           \/ UNCHANGED <<reply, inbox>>
           \/ \E u \in Updates : Refuse(u, "again")
    PROVE  Listened'
<1>0. /\ FilesFit /\ RepliesFit /\ RequestsFit /\ WorkIsAsked /\ LostAfterFault /\ BeginsOnce
      /\ step \in [Updates -> Steps] /\ why \in [Updates -> Reasons] /\ (ui # "idle" => update \in Updates)
      /\ (updateFaults = 1 => updateFaults' = 1)
  BY DEF Smoothly, Survives, UpdateInv, UpdateTyped, AgentTyped, WorksOnFile
<1>1. inbox' \subseteq inbox /\ (reply' = reply \/ (reply' = "error" /\ ui = "again" /\ step[update] = "closed"))
  BY <1>0 DEF Refuse, AnswerTo, RepliesFit
<1>2. FilesFit'
  BY <1>0 DEF FilesFit, Whole, InterfaceWaits
<1>3. RepliesFit'
  BY <1>0, <1>1 DEF RepliesFit, InterfaceWaits, Ops, Rollbacks
<1>4. RequestsFit'
  <2>1. CASE reply' = reply
    BY <1>0, <1>1, <2>1 DEF RequestsFit, InterfaceWaits
  <2>2. CASE \E u \in Updates : Refuse(u, "again")
    <3>1. PICK u \in Updates : Refuse(u, "again")
      BY <2>2
    <3>2. <<u, "again">> \in inbox /\ inbox' = inbox \ {<<u, "again">>}
      BY <3>1 DEF Refuse
    <3>. QED
      BY <1>0, <3>2 DEF RequestsFit, InterfaceWaits, Ops
  <2>. QED
    BY <2>1, <2>2
<1>5. WorkIsAsked'
  BY <1>0, <1>1 DEF WorkIsAsked, InterfaceWaits
<1>6. LostAfterFault'
  BY <1>0, <1>1 DEF LostAfterFault, InterfaceWaits
<1>. QED
  BY <1>2, <1>3, <1>4, <1>5, <1>6 DEF Listened

-----------------------------------------------------------------------------
(* The core and the capture, action by action.                             *)

LEMMA FaultIsFirst == ASSUME Smoothly, Fault PROVE updateFaults = 0 /\ updateFaults' = 1
<1>1. updateFaults \in Nat /\ updateFaults' = updateFaults + 1
  BY BoundsAssumption DEF Smoothly, UpdateInv, UpdateTyped, HistoryTyped, Fault
<1>. QED
  BY <1>1 DEF Smoothly

LEMMA BinaryIsVersion == UpdateTyped => file["binary"] # NoCore
  BY FilesFacts, NamesAssumption, BoundsAssumption DEF UpdateTyped, SystemTyped, Versions

\* A session that keeps the transaction is the only one to be looked at.
LEMMA HolderMoves ==
    ASSUME Smoothly, NEW u \in Updates, NEW place \in Holding, step[u] \in Holding, Goto(u, place), owner' = owner,
           CoreOf(u)'
    PROVE  CoreKnown'
<1>1. step'[u] = place /\ \A v \in Updates : v # u => step'[v] = step[v]
  BY DEF Smoothly, UpdateInv, UpdateTyped, AgentTyped, Goto
<1>2. owner = u /\ owner # Nobody
  BY NamesAssumption DEF Smoothly, UpdateInv, HolderIsOwner, Updates
<1>3. ASSUME NEW v \in Updates, v # u PROVE CoreOf(v)'
  BY <1>1, <1>2, <1>3 DEF Smoothly, UpdateInv, HolderIsOwner, CoreOf, Holding
<1>. QED
  BY <1>2, <1>3 DEF CoreKnown

\* A session that gives it back leaves nothing open.
LEMMA HolderEnds ==
    ASSUME Smoothly, NEW u \in Updates, NEW place \in {"clear", "closed"}, step[u] \in Holding, Goto(u, place),
           AsKnown', CoreFits'
    PROVE  CoreKnown'
<1>1. step'[u] = place /\ \A v \in Updates : v # u => step'[v] = step[v]
  BY DEF Smoothly, UpdateInv, UpdateTyped, AgentTyped, Goto
<1>2. \A v \in Updates : step'[v] \notin Holding
  BY <1>1 DEF Smoothly, UpdateInv, HolderIsOwner, Holding
<1>3. ASSUME NEW v \in Updates PROVE CoreOf(v)'
  BY <1>2 DEF CoreOf, Holding
<1>. QED
  BY <1>3 DEF CoreKnown

\* What does not concern the core.
LEMMA CoreRests ==
    ASSUME Smoothly, UNCHANGED <<system, isActive, wanted, owner>>,
           \A v \in Updates : step'[v] = step[v] \/ step'[v] \notin Holding,
           \A v \in Updates : step[v] \in Holding => session'[v].activeRunning = session[v].activeRunning
                                                  /\ session'[v].captureStopped = session[v].captureStopped
    PROVE  CoreKnown'
<1>1. updateFaults = 1 => updateFaults' = 1
  BY DEF Smoothly
<1>2. CoreKnown
  BY DEF Smoothly, Survives
<1>3. AsKnown' = AsKnown /\ CoreFits' = CoreFits
  BY DEF AsKnown, CoreFits, system
<1>4. ASSUME NEW v \in Updates PROVE CoreOf(v)'
  <2>1. CASE step'[v] \notin Holding
    BY <2>1 DEF CoreOf, Holding
  <2>2. CASE step'[v] \in Holding
    <3>1. /\ step'[v] = step[v] /\ session'[v].activeRunning = session[v].activeRunning
          /\ session'[v].captureStopped = session[v].captureStopped
      BY <2>2
    <3>2. Remembered(v) => Remembered(v)'
      BY <3>1 DEF Remembered, system
    <3>3. CoreOf(v)
      BY <1>2 DEF CoreKnown
    <3>. QED
      BY <1>1, <1>3, <3>1, <3>2, <3>3 DEF CoreOf, system
  <2>. QED
    BY <2>1, <2>2
<1>. QED
  BY <1>2, <1>3, <1>4 DEF CoreKnown

\* What the states before and after a step share.
LEMMA SurvivalFacts ==
    ASSUME Smoothly, NEW u \in Updates
    PROVE  /\ step \in [Updates -> Steps] /\ why \in [Updates -> Reasons] /\ session \in [Updates -> SessionType]
           /\ capture \in BOOLEAN /\ wanted.capture \in BOOLEAN /\ isActive \in BOOLEAN
           /\ file["binary"] # NoCore /\ CoreOf(u) /\ (owner = Nobody => AsKnown /\ CoreFits)
           /\ (step[u] \in Holding => owner = u)
<1>1. file["binary"] # NoCore
  BY BinaryIsVersion DEF Smoothly, UpdateInv
<1>. QED
  BY <1>1 DEF Smoothly, Survives, CoreKnown, UpdateInv, UpdateTyped, AgentTyped, SystemTyped, HistoryTyped, HolderIsOwner

LEMMA BeginCheckSurvives == ASSUME Smoothly, NEW u \in Updates, BeginCheck(u) PROVE Listened' /\ CoreKnown'
<1>1. /\ InterfaceWaits /\ UNCHANGED <<system, isActive, wanted, owner, session, why>>
      /\ <<u, "begin">> \in inbox /\ inbox' = inbox \ {<<u, "begin">>}
      /\ \/ Goto(u, "closed") /\ Answer(u, "error")
         \/ Goto(u, "admission") /\ UNCHANGED reply
  BY DEF BeginCheck, InterfaceWaits, interface, system, history
<1>2. step[u] = "none" /\ why[u] = "begin"
  BY <1>1 DEF Smoothly, UpdateInv, BeginsOnce, Survives, WorkIsAsked
<1>3. \A v \in Updates : step'[v] = step[v] \/ step'[v] \notin Holding
  BY <1>1, SurvivalFacts DEF Goto, Holding
<1>4. CoreKnown'
  BY <1>1, <1>3, CoreRests
<1>5. CASE Goto(u, "closed") /\ Answer(u, "error")
  BY <1>1, <1>2, <1>4, <1>5, BeginFails
<1>6. CASE Goto(u, "admission") /\ UNCHANGED reply
  BY <1>1, <1>2, <1>4, <1>6, BeginWaits
<1>. QED
  BY <1>1, <1>5, <1>6

LEMMA BeginAdmitSurvives == ASSUME Smoothly, NEW u \in Updates, BeginAdmit(u) PROVE Listened' /\ CoreKnown'
<1>. DEFINE running == isActive /\ core # NoCore
            place == CASE running /\ capture -> "captureOff"
                       [] running /\ ~capture -> "stop"
                       [] OTHER -> "register"
<1>1. /\ InterfaceWaits /\ step[u] = "admission" /\ owner = Nobody
      /\ UNCHANGED <<file, core, capture, isActive, wanted, why, inbox>>
  BY DEF BeginAdmit, Same, InterfaceWaits, interface, system
<1>2. why[u] = "begin"
  BY <1>1 DEF Smoothly, Survives, WorkIsAsked
<1>3. CASE /\ owner' = u /\ NoFault /\ UNCHANGED reply /\ Goto(u, place)
           /\ session' = [session EXCEPT ![u] = [NoSession EXCEPT !.activeRunning = running]]
  <2>1. place \in {"captureOff", "stop", "register"}
    OBVIOUS
  <2>2. Listened'
    BY <1>1, <1>2, <1>3, <2>1, WorksOn DEF Holding
  <2>3. /\ session'[u].activeRunning = running /\ session'[u].captureStopped = FALSE /\ step'[u] = place
        /\ \A v \in Updates : v # u => step'[v] = step[v]
    BY <1>3, SurvivalFacts DEF NoSession, SessionType, Goto
  <2>4. AsKnown' /\ CoreFits' /\ AsKnown /\ CoreFits
    BY <1>1, SurvivalFacts DEF AsKnown, CoreFits
  <2>5. place # "captureOff" => Remembered(u)'
    <3>1. CASE running /\ ~capture
      <4>1. session'[u].activeRunning /\ capture' = FALSE /\ wanted'.capture = FALSE /\ isActive'
        BY <1>1, <2>3, <2>4, <3>1, SurvivalFacts DEF AsKnown
      <4>. QED
        BY <2>3, <4>1 DEF Remembered
    <3>2. CASE ~running
      <4>1. ~session'[u].activeRunning /\ core = NoCore
        BY <2>3, <2>4, <3>2 DEF CoreFits
      <4>2. ~(isActive' /\ wanted'.core)
        BY <1>1, <2>4, <4>1, SurvivalFacts DEF AsKnown
      <4>. QED
        BY <1>1, <2>3, <2>4, <4>1, <4>2 DEF Remembered, AsKnown
    <3>. QED
      BY <3>1, <3>2
  <2>6. CoreOf(u)'
    BY <1>1, <2>1, <2>3, <2>4, <2>5, SurvivalFacts DEF CoreOf, CoreFits
  <2>7. ASSUME NEW v \in Updates, v # u PROVE CoreOf(v)'
    <3>1. step'[v] \notin Holding
      BY <1>1, <2>3, <2>7, NamesAssumption DEF Smoothly, UpdateInv, HolderIsOwner, Updates
    <3>. QED
      BY <3>1 DEF CoreOf, Holding
  <2>. QED
    BY <2>2, <2>4, <2>6, <2>7 DEF CoreKnown
<1>4. CASE Fault /\ Goto(u, "closed") /\ Answer(u, "error") /\ UNCHANGED <<owner, session>>
  <2>1. Listened'
    BY <1>1, <1>2, <1>4, BeginFails
  <2>2. \A v \in Updates : step'[v] = step[v] \/ step'[v] \notin Holding
    BY <1>4, SurvivalFacts DEF Goto, Holding
  <2>. QED
    BY <1>1, <1>4, <2>1, <2>2, CoreRests DEF system
<1>5. \/ /\ owner' = u /\ NoFault /\ UNCHANGED reply
         /\ session' = [session EXCEPT ![u] = [NoSession EXCEPT !.activeRunning = running]]
         /\ Goto(u, place)
      \/ /\ Fault /\ Goto(u, "closed") /\ Answer(u, "error")
         /\ UNCHANGED <<owner, session>>
  BY DEF BeginAdmit
<1>. HIDE DEF place, running
<1>. QED
  BY <1>3, <1>4, <1>5

LEMMA BeginExpiresSurvives == ASSUME Smoothly, NEW u \in Updates, BeginExpires(u) PROVE Listened' /\ CoreKnown'
<1>1. /\ InterfaceWaits /\ step[u] = "admission" /\ Goto(u, "closed") /\ Answer(u, "error")
      /\ UNCHANGED <<system, isActive, wanted, owner, session, why, inbox>>
  BY DEF BeginExpires, Same, InterfaceWaits, interface, system
<1>2. why[u] = "begin"
  BY <1>1 DEF Smoothly, Survives, WorkIsAsked
<1>3. \A v \in Updates : step'[v] = step[v] \/ step'[v] \notin Holding
  BY <1>1, SurvivalFacts DEF Goto, Holding
<1>. QED
  BY <1>1, <1>2, <1>3, CoreRests, BeginFails

LEMMA CaptureOffSurvives == ASSUME Smoothly, NEW u \in Updates, CaptureOff(u) PROVE Listened' /\ CoreKnown'
<1>1. /\ InterfaceWaits /\ step[u] = "captureOff" /\ core' \in {core, NoCore}
      /\ UNCHANGED <<file, isActive, why, inbox>>
  BY DEF CaptureOff, Same, InterfaceWaits, interface
<1>2. why[u] = "begin"
  BY <1>1 DEF Smoothly, Survives, WorkIsAsked
<1>3. /\ session[u].activeRunning /\ isActive /\ AsKnown /\ CoreFits /\ core = file["binary"] /\ capture = TRUE
      /\ wanted.capture = TRUE /\ owner = u
  BY <1>1, SurvivalFacts DEF CoreOf, AsKnown, CoreFits, Holding
<1>4. CASE /\ capture' = FALSE /\ Goto(u, "stop") /\ session' = [session EXCEPT ![u].captureStopped = TRUE]
           /\ NoFault /\ UNCHANGED <<owner, reply, wanted>>
  <2>1. Listened'
    BY <1>1, <1>2, <1>4, WorksOn DEF Holding
  <2>2. session'[u].activeRunning /\ session'[u].captureStopped = TRUE /\ step'[u] = "stop"
    BY <1>3, <1>4, SurvivalFacts DEF SessionType, Goto
  <2>3. Remembered(u)' /\ CoreFits'
    BY <1>1, <1>3, <1>4, <2>2 DEF Remembered, CoreFits
  <2>. QED
    BY <1>1, <1>4, <2>1, <2>2, <2>3, HolderMoves DEF CoreOf, Holding
<1>5. CASE /\ capture' \in {FALSE, core' # NoCore} /\ FailBegin(u)
           /\ wanted' = [capture |-> capture', core |-> core' # NoCore]
           /\ Fault /\ UNCHANGED session
  <2>1. Listened'
    BY <1>1, <1>2, <1>5, BeginFails DEF FailBegin
  <2>2. AsKnown' /\ CoreFits'
    BY <1>1, <1>3, <1>5 DEF AsKnown, CoreFits
  <2>. QED
    BY <1>1, <1>5, <2>1, <2>2, HolderEnds DEF FailBegin, Holding
<1>. QED
  BY <1>4, <1>5 DEF CaptureOff

LEMMA BeginStopSurvives == ASSUME Smoothly, NEW u \in Updates, BeginStop(u) PROVE Listened' /\ CoreKnown'
<1>1. /\ InterfaceWaits /\ step[u] = "stop"
      /\ UNCHANGED <<file, capture, isActive, owner, why, session, reply, wanted, inbox>>
  BY DEF BeginStop, Same, InterfaceWaits, interface
<1>2. why[u] = "begin"
  BY <1>1 DEF Smoothly, Survives, WorkIsAsked
<1>3. session[u].activeRunning /\ Remembered(u) /\ CoreFits
  BY <1>1, SurvivalFacts DEF CoreOf
<1>4. ASSUME core' \in {core, NoCore} PROVE Remembered(u)' /\ CoreFits'
  BY <1>1, <1>3, <1>4 DEF Remembered, CoreFits
<1>5. CASE core' = NoCore /\ Goto(u, "register") /\ NoFault
  <2>1. Listened'
    BY <1>1, <1>2, <1>5, WorksOn DEF Holding
  <2>2. step'[u] = "register"
    BY <1>5, SurvivalFacts DEF Goto
  <2>. QED
    BY <1>1, <1>4, <1>5, <2>1, <2>2, HolderMoves DEF CoreOf, Holding
<1>6. CASE core' \in {core, NoCore} /\ Goto(u, "recover") /\ Fault
  <2>1. Listened'
    BY <1>1, <1>2, <1>6, FaultIsFirst, WorksOn DEF Holding
  <2>2. step'[u] = "recover"
    BY <1>6, SurvivalFacts DEF Goto
  <2>. QED
    BY <1>1, <1>4, <1>6, <2>1, <2>2, HolderMoves DEF CoreOf, Holding
<1>. QED
  BY <1>5, <1>6 DEF BeginStop

\* A step of an owner that leaves core, capture and session alone.
LEMMA HolderStays ==
    ASSUME Smoothly, NEW u \in Updates, NEW place \in {"arm", "open", "recover"}, step[u] \in {"register", "arm", "open"},
           Goto(u, place), UNCHANGED <<owner, isActive, wanted, file, core, capture>>,
           session'[u].activeRunning = session[u].activeRunning,
           session'[u].captureStopped = session[u].captureStopped
    PROVE  CoreKnown'
<1>1. Remembered(u) /\ core = NoCore
  BY SurvivalFacts DEF CoreOf
<1>2. step'[u] = place
  BY SurvivalFacts DEF Goto
<1>3. Remembered(u)' /\ CoreFits' /\ core' = NoCore
  BY <1>1 DEF Remembered, CoreFits
<1>. QED
  BY <1>2, <1>3, HolderMoves DEF CoreOf, Holding

LEMMA RegisterSurvives == ASSUME Smoothly, NEW u \in Updates, Register(u) PROVE Listened' /\ CoreKnown'
<1>1. /\ InterfaceWaits /\ step[u] = "register" /\ Goto(u, "arm")
      /\ UNCHANGED <<file, core, capture, isActive, owner, why, session, reply, wanted, inbox>>
  BY DEF Register, Same, InterfaceWaits, interface, system, history
<1>2. why[u] = "begin"
  BY <1>1 DEF Smoothly, Survives, WorkIsAsked
<1>. QED
  BY <1>1, <1>2, WorksOn, HolderStays DEF Holding

LEMMA ArmSurvives == ASSUME Smoothly, NEW u \in Updates, Arm(u) PROVE Listened' /\ CoreKnown'
<1>1. /\ InterfaceWaits /\ step[u] = "arm" /\ Goto(u, "open") /\ Answer(u, "ok")
      /\ UNCHANGED <<file, core, capture, isActive, owner, why, wanted, inbox>>
      /\ session' = [session EXCEPT ![u].timer = "armed"]
  BY DEF Arm, Same, InterfaceWaits, interface, system, history
<1>2. session'[u].activeRunning = session[u].activeRunning /\ session'[u].captureStopped = session[u].captureStopped
  BY <1>1, SurvivalFacts DEF SessionType
<1>. QED
  BY <1>1, <1>2, OpensWithAnswer, HolderStays

LEMMA CommitSurvives == ASSUME Smoothly, NEW u \in Updates, Commit(u) PROVE Listened' /\ CoreKnown'
<1>. DEFINE place == IF session[u].activeRunning THEN "start" ELSE "finish"
<1>1. /\ InterfaceWaits /\ step[u] = "open" /\ Goto(u, place)
      /\ <<u, "commit">> \in inbox /\ inbox' = inbox \ {<<u, "commit">>} /\ why' = [why EXCEPT ![u] = "commit"]
      /\ UNCHANGED <<file, core, capture, isActive, owner, session, reply, wanted>>
  BY DEF Commit, Take, InterfaceWaits, interface, system, history
<1>2. place \in {"start", "finish"} /\ "commit" \in Ops \ {"begin"} /\ step'[u] = place
  BY <1>1, SurvivalFacts DEF Ops, Goto
<1>3. Listened'
  BY <1>1, <1>2, RequestTaken
<1>4. Remembered(u) /\ core = NoCore
  BY <1>1, SurvivalFacts DEF CoreOf
<1>5. CoreOf(u)'
  <2>1. CASE session[u].activeRunning
    BY <1>1, <1>2, <1>4, <2>1 DEF CoreOf, Remembered
  <2>2. CASE ~session[u].activeRunning
    <3>1. AsKnown' /\ CoreFits'
      BY <1>1, <1>4, <2>2 DEF AsKnown, CoreFits, Remembered
    <3>. QED
      BY <1>2, <2>2, <3>1 DEF CoreOf
  <2>. QED
    BY <2>1, <2>2
<1>. QED
  BY <1>1, <1>2, <1>3, <1>5, HolderMoves DEF Holding

LEMMA RollbackSessionSurvives == ASSUME Smoothly, NEW u \in Updates, RollbackSession(u) PROVE Listened' /\ CoreKnown'
<1>1. PICK op \in Rollbacks : Take(u, op) /\ Goto(u, "recover")
  BY DEF RollbackSession
<1>2. /\ InterfaceWaits /\ step[u] = "open" /\ op \in Ops \ {"begin"}
      /\ <<u, op>> \in inbox /\ inbox' = inbox \ {<<u, op>>} /\ why' = [why EXCEPT ![u] = op]
      /\ UNCHANGED <<file, core, capture, isActive, owner, session, reply, wanted>>
  BY <1>1 DEF Take, InterfaceWaits, interface, system, history, Ops, Rollbacks
<1>. QED
  BY <1>1, <1>2, RequestTaken, HolderStays

LEMMA CommitStartSurvives == ASSUME Smoothly, NEW u \in Updates, CommitStart(u) PROVE Listened' /\ CoreKnown'
<1>1. /\ InterfaceWaits /\ step[u] = "start"
      /\ UNCHANGED <<file, capture, isActive, owner, why, session, reply, wanted, inbox>>
  BY DEF CommitStart, Same, InterfaceWaits, interface
<1>2. why[u] = "commit"
  BY <1>1 DEF Smoothly, Survives, WorkIsAsked
<1>3. session[u].activeRunning /\ Remembered(u) /\ core = NoCore /\ Started = file["binary"] /\ Remembered(u)'
  BY <1>1, SurvivalFacts DEF CoreOf, Remembered, Started
<1>4. CASE core' = Started /\ Goto(u, "verify") /\ NoFault
  <2>1. Listened'
    BY <1>1, <1>2, <1>4, WorksOn DEF Holding
  <2>2. step'[u] = "verify"
    BY <1>4, SurvivalFacts DEF Goto
  <2>. QED
    BY <1>1, <1>3, <1>4, <2>1, <2>2, HolderMoves DEF CoreOf, Holding
<1>5. CASE core' \in {core, Started} /\ Goto(u, "failClosed") /\ Fault
  <2>1. Listened'
    BY <1>1, <1>2, <1>5, WorksOn DEF Holding
  <2>2. step'[u] = "failClosed"
    BY <1>5, SurvivalFacts DEF Goto
  <2>3. CoreFits'
    BY <1>1, <1>3, <1>5 DEF CoreFits, Remembered
  <2>. QED
    BY <1>1, <1>3, <1>5, <2>1, <2>2, <2>3, FaultIsFirst, HolderMoves DEF CoreOf, Holding
<1>. QED
  BY <1>4, <1>5 DEF CommitStart

LEMMA CommitVerifySurvives == ASSUME Smoothly, NEW u \in Updates, CommitVerify(u) PROVE Listened' /\ CoreKnown'
<1>1. /\ InterfaceWaits /\ step[u] = "verify"
      /\ UNCHANGED <<file, core, isActive, owner, why, session, reply, wanted, inbox>>
  BY DEF CommitVerify, Same, InterfaceWaits, interface
<1>2. why[u] = "commit"
  BY <1>1 DEF Smoothly, Survives, WorkIsAsked
<1>3. /\ session[u].activeRunning /\ core = file["binary"] /\ isActive /\ capture = FALSE
      /\ wanted.capture = session[u].captureStopped /\ Remembered(u)
  BY <1>1, SurvivalFacts DEF CoreOf, Remembered
<1>4. CASE capture' = (capture \/ session[u].captureStopped) /\ Goto(u, "finish") /\ NoFault
  <2>1. Listened'
    BY <1>1, <1>2, <1>4, WorksOn DEF Holding
  <2>2. step'[u] = "finish"
    BY <1>4, SurvivalFacts DEF Goto
  <2>3. capture' = wanted.capture
    BY <1>3, <1>4, SurvivalFacts
  <2>4. AsKnown' /\ CoreFits'
    BY <1>1, <1>3, <2>3 DEF AsKnown, CoreFits
  <2>. QED
    BY <1>1, <1>4, <2>1, <2>2, <2>4, HolderMoves DEF CoreOf, Holding
<1>5. CASE UNCHANGED capture /\ Goto(u, "failClosed") /\ Fault
  <2>1. Listened'
    BY <1>1, <1>2, <1>5, WorksOn DEF Holding
  <2>2. step'[u] = "failClosed"
    BY <1>5, SurvivalFacts DEF Goto
  <2>3. CoreFits' /\ Remembered(u)'
    BY <1>1, <1>3, <1>5 DEF CoreFits, Remembered
  <2>. QED
    BY <1>1, <1>3, <1>5, <2>1, <2>2, <2>3, FaultIsFirst, HolderMoves DEF CoreOf, Holding
<1>. QED
  BY <1>4, <1>5 DEF CommitVerify

LEMMA FailClosedSurvives == ASSUME Smoothly, NEW u \in Updates, FailClosed(u) PROVE Listened' /\ CoreKnown'
<1>1. /\ InterfaceWaits /\ step[u] = "failClosed" /\ Goto(u, "open") /\ Answer(u, "error")
      /\ UNCHANGED <<file, capture, isActive, owner, why, session, wanted, inbox>>
      /\ (core' = NoCore \/ Fault)
  BY DEF FailClosed, Same, InterfaceWaits, interface
<1>2. updateFaults = 1 /\ Remembered(u) /\ session[u].activeRunning
  BY <1>1, SurvivalFacts DEF CoreOf
<1>3. core' = NoCore
  BY <1>1, <1>2, FaultIsFirst
<1>4. step'[u] = "open" /\ Remembered(u)'
  BY <1>1, <1>2, <1>3, SurvivalFacts DEF Goto, Remembered
<1>5. Listened'
  BY <1>1, <1>2, OpensWithAnswer
<1>. QED
  BY <1>1, <1>3, <1>4, <1>5, HolderMoves DEF CoreOf, Holding

LEMMA TimerFiresSurvives == ASSUME Smoothly, NEW u \in Updates, TimerFires(u) PROVE Listened' /\ CoreKnown'
<1>1. /\ InterfaceWaits /\ UNCHANGED <<system, isActive, owner, step, why, reply, wanted, inbox>>
      /\ session' = [session EXCEPT ![u].timer = "fired"]
  BY DEF TimerFires, Same, InterfaceWaits, interface, system, history
<1>2. \A v \in Updates : /\ session'[v].activeRunning = session[v].activeRunning
                         /\ session'[v].captureStopped = session[v].captureStopped
  BY <1>1, SurvivalFacts DEF SessionType
<1>. QED
  BY <1>1, <1>2, SessionsListen, CoreRests

LEMMA ExpireSurvives == ASSUME Smoothly, NEW u \in Updates, Expire(u) PROVE Listened' /\ CoreKnown'
<1>1. /\ InterfaceWaits /\ UNCHANGED <<system, file, core, capture, isActive, owner, reply, wanted, inbox>>
      /\ session' = [session EXCEPT ![u].timer = "off"]
  BY DEF Expire, Same, InterfaceWaits, interface, system
<1>2. \A v \in Updates : /\ session'[v].activeRunning = session[v].activeRunning
                         /\ session'[v].captureStopped = session[v].captureStopped
  BY <1>1, SurvivalFacts DEF SessionType
<1>3. CASE step[u] = "open"
  <2>1. /\ Goto(u, "recover") /\ why' = [why EXCEPT ![u] = "expiry"]
        /\ late' = (late \/ (update = u /\ ui # "idle"))
    BY <1>3 DEF Expire
  <2>2. update # u \/ ui = "idle"
    BY <2>1 DEF Smoothly, Smooth
  <2>. QED
    BY <1>1, <1>2, <1>3, <2>1, <2>2, LeftIsExpired, HolderStays
<1>4. CASE step[u] # "open"
  <2>1. UNCHANGED <<step, why>>
    BY <1>4 DEF Expire
  <2>. QED
    BY <1>1, <1>2, <2>1, SessionsListen, CoreRests
<1>. QED
  BY <1>3, <1>4

LEMMA RecoverSurvives == ASSUME Smoothly, NEW u \in Updates, Recover(u) PROVE Listened' /\ CoreKnown'
<1>. DEFINE place == IF session[u].captureStopped /\ why[u] # "shutdown" THEN "restore" ELSE "finish"
<1>1. /\ InterfaceWaits /\ step[u] = "recover"
      /\ UNCHANGED <<file, capture, isActive, owner, why, session, reply, wanted, inbox>>
      /\ \/ core' = (IF session[u].activeRunning THEN Started ELSE core) /\ Goto(u, place)
         \/ Fault
  BY DEF Recover, Same, InterfaceWaits, interface
<1>2. why[u] # "commit" /\ why[u] # "shutdown" /\ updateFaults = 1
  BY <1>1 DEF Smoothly, Survives, WorkIsAsked
<1>3. core' = (IF session[u].activeRunning THEN Started ELSE core) /\ Goto(u, place) /\ updateFaults' = 1
  BY <1>1, <1>2, FaultIsFirst DEF Smoothly
<1>4. Remembered(u) /\ CoreFits
  BY <1>1, SurvivalFacts DEF CoreOf
<1>5. Listened'
  BY <1>1, <1>2, <1>3, WorksOn DEF Holding
<1>6. step'[u] = place
  BY <1>3, SurvivalFacts DEF Goto
<1>7. CASE session[u].activeRunning
  <2>1. core' = file["binary"] /\ isActive /\ capture = FALSE /\ wanted.capture = session[u].captureStopped
    BY <1>3, <1>4, <1>7 DEF Started, Remembered, CoreFits
  <2>2. Remembered(u)' /\ CoreFits'
    BY <1>1, <1>7, <2>1 DEF Remembered, CoreFits
  <2>3. CASE session[u].captureStopped
    BY <1>1, <1>2, <1>3, <1>5, <1>6, <1>7, <2>1, <2>2, <2>3, HolderMoves DEF CoreOf, Holding
  <2>4. CASE ~session[u].captureStopped
    <3>1. capture' = wanted'.capture
      BY <1>1, <2>1, <2>4, SurvivalFacts
    <3>2. AsKnown'
      BY <1>1, <2>1, <3>1 DEF AsKnown
    <3>. QED
      BY <1>1, <1>3, <1>5, <1>6, <2>2, <2>4, <3>2, HolderMoves DEF CoreOf, Holding
  <2>. QED
    BY <2>3, <2>4
<1>8. CASE ~session[u].activeRunning
  <2>1. ~session[u].captureStopped /\ core' = core
    BY <1>3, <1>4, <1>8 DEF Remembered
  <2>2. AsKnown' /\ CoreFits'
    BY <1>1, <1>4, <1>8, <2>1 DEF AsKnown, CoreFits, Remembered
  <2>. QED
    BY <1>1, <1>3, <1>5, <1>6, <2>1, <2>2, HolderMoves DEF CoreOf, Holding
<1>. QED
  BY <1>7, <1>8

LEMMA RestoreSurvives == ASSUME Smoothly, NEW u \in Updates, Restore(u) PROVE Listened' /\ CoreKnown'
<1>1. /\ InterfaceWaits /\ step[u] = "restore" /\ Goto(u, "finish")
      /\ UNCHANGED <<file, core, isActive, owner, why, session, reply, wanted, inbox>>
      /\ (capture' = TRUE \/ Fault)
  BY DEF Restore, Same, InterfaceWaits, interface
<1>2. why[u] # "commit" /\ updateFaults = 1
  BY <1>1 DEF Smoothly, Survives, WorkIsAsked
<1>3. capture' = TRUE
  BY <1>1, <1>2, FaultIsFirst
<1>4. Listened'
  BY <1>1, <1>2, WorksOn DEF Holding
<1>5. /\ core = file["binary"] /\ isActive /\ session[u].captureStopped
      /\ wanted.capture = session[u].captureStopped
  BY <1>1, SurvivalFacts DEF CoreOf, Remembered
<1>6. wanted.capture = TRUE
  BY <1>5, SurvivalFacts
<1>7. AsKnown' /\ CoreFits'
  BY <1>1, <1>3, <1>5, <1>6 DEF AsKnown, CoreFits
<1>8. step'[u] = "finish"
  BY <1>1, SurvivalFacts DEF Goto
<1>. QED
  BY <1>1, <1>4, <1>7, <1>8, HolderMoves DEF CoreOf, Holding

LEMMA FinishSurvives == ASSUME Smoothly, NEW u \in Updates, Finish(u) PROVE Listened' /\ CoreKnown'
<1>1. /\ InterfaceWaits /\ step[u] = "finish"
      /\ UNCHANGED <<file, core, capture, isActive, why, wanted, inbox>>
  BY DEF Finish, Same, InterfaceWaits, interface, system, history
<1>2. AsKnown /\ CoreFits
  BY <1>1, SurvivalFacts DEF CoreOf
<1>3. AsKnown' /\ CoreFits'
  BY <1>1, <1>2 DEF AsKnown, CoreFits
<1>4. CASE why[u] = "begin"
  <2>1. Goto(u, "closed") /\ Answer(u, "error")
    BY <1>4 DEF Finish
  <2>2. Listened'
    BY <1>1, <1>4, <2>1, BeginFails
  <2>. QED
    BY <1>1, <1>3, <2>1, <2>2, HolderEnds DEF Holding
<1>5. CASE why[u] # "begin"
  <2>1. Goto(u, "clear") /\ UNCHANGED reply
    BY <1>5 DEF Finish
  <2>2. Listened'
    BY <1>1, <1>5, <2>1, WorksOn DEF Holding
  <2>. QED
    BY <1>1, <1>3, <2>1, <2>2, HolderEnds DEF Holding
<1>. QED
  BY <1>4, <1>5

LEMMA ClearSurvives == ASSUME Smoothly, NEW u \in Updates, Clear(u) PROVE Listened' /\ CoreKnown'
<1>1. /\ InterfaceWaits /\ step[u] = "clear" /\ Goto(u, "closed") /\ why' = [why EXCEPT ![u] = "begin"]
      /\ UNCHANGED <<system, isActive, owner, wanted, inbox>>
  BY DEF Clear, Same, InterfaceWaits, interface, system, history
<1>2. \A v \in Updates : v # u => session'[v] = session[v]
  BY SurvivalFacts DEF Clear
<1>3. \A v \in Updates : step'[v] = step[v] \/ step'[v] \notin Holding
  BY <1>1, SurvivalFacts DEF Goto, Holding
<1>4. CoreKnown'
  BY <1>1, <1>2, <1>3, CoreRests DEF Holding
<1>5. Answer(u, "ok") \/ (Answer(u, "error") /\ why[u] \in Rollbacks)
  BY DEF Clear
<1>6. Listened'
  BY <1>1, <1>5, ClosesWithAnswer
<1>. QED
  BY <1>4, <1>6

\* Only the second rollback comes too late: a commit and a first rollback find the
\* session open.
LEMMA RefuseSurvives ==
    ASSUME Smoothly, NEW u \in Updates, NEW op \in Ops, Refuse(u, op)
    PROVE  Listened' /\ CoreKnown'
<1>1. /\ InterfaceWaits /\ UNCHANGED <<system, isActive, owner, step, why, session, wanted>>
      /\ <<u, op>> \in inbox /\ op # "begin" /\ step[u] \in {"clear", "closed"}
  BY DEF Refuse, InterfaceWaits, interface, system, agent, history
<1>2. op = "again"
  BY <1>1 DEF Smoothly, Survives, RequestsFit, Ops
<1>. QED
  BY <1>1, <1>2, SessionsListen, CoreRests

LEMMA AgentKeepsSurvival ==
    ASSUME Smoothly, NEW u \in Updates, AgentStep(u) \/ BeginExpires(u)
    PROVE  Survives'
<1>1. Listened' /\ CoreKnown'
  BY BeginCheckSurvives, BeginAdmitSurvives, BeginExpiresSurvives, CaptureOffSurvives, BeginStopSurvives,
     RegisterSurvives, ArmSurvives, CommitSurvives, RollbackSessionSurvives, CommitStartSurvives, CommitVerifySurvives,
     FailClosedSurvives, TimerFiresSurvives, ExpireSurvives, RecoverSurvives, RestoreSurvives, FinishSurvives,
     ClearSurvives, RefuseSurvives DEF AgentStep
<1>. QED
  BY <1>1 DEF Listened, Survives

-----------------------------------------------------------------------------
(* The interface, the other transactions and the shutdown.                 *)

\* What a step of the interface can rely on, and what it leaves alone.
LEMMA InterfaceFacts ==
    ASSUME Smoothly
    PROVE  /\ FilesFit /\ RepliesFit /\ RequestsFit /\ WorkIsAsked /\ LostAfterFault /\ CoreKnown
           /\ step \in [Updates -> Steps] /\ updateFaults \in Nat
           /\ ui \in Places /\ reply \in {"none", "ok", "error"}
           /\ (ui # "idle" => update \in Updates)
           /\ (ui \in {"replace", "restore"} => index \in 1 .. 3 /\ reply = "none")
           /\ (ui = "idle" => reply = "none")
<1>1. updateFaults \in Nat
  BY BoundsAssumption DEF Smoothly, UpdateInv, UpdateTyped, HistoryTyped
<1>. QED
  BY <1>1, FilesFacts DEF Smoothly, Survives, UpdateInv, UpdateTyped, AgentTyped, InterfaceTyped, WorksOnFile, RepliesFit, Ops

\* The interface asks for nothing: it goes on by itself, or it has ended.
LEMMA InterfaceMovesOn ==
    ASSUME Smoothly, UNCHANGED <<system, agent, isActive, wanted, update, backup, inbox>>, ui # "idle",
           reply' = "none", ui' \in {"idle", "replace", "restore"},
           ui' = "replace" => ui = "begin" /\ index' = 1 /\ step[update] = "open",
           ui' = "restore" => ui = "commit" /\ index' = 1 /\ step[update] = "open" /\ updateFaults' = 1,
           ui' = "idle" => /\ ui \notin {"replace", "restore"}
                           /\ step[update] = "closed" \/ updateFaults' = 1,
           reply # "none" \/ (ui = "begin" /\ updateFaults = 0)
    PROVE  Survives'
<1>0. /\ FilesFit /\ RepliesFit /\ RequestsFit /\ WorkIsAsked /\ LostAfterFault /\ CoreKnown /\ BeginsOnce
      /\ (ui # "idle" => update \in Updates) /\ (updateFaults = 1 => updateFaults' = 1) /\ UNCHANGED <<step, why, session, owner>>
  BY InterfaceFacts DEF Smoothly, UpdateInv, agent
<1>1. FilesFit'
  BY <1>0 DEF FilesFit, Whole, system
<1>2. RepliesFit' /\ RequestsFit' /\ WorkIsAsked'
  <2>1. RepliesFit'
    BY <1>0 DEF RepliesFit, Ops, Rollbacks
  <2>2. \A u \in Updates, op \in Ops \ {"begin"} : <<u, op>> \notin inbox
    BY <1>0 DEF RequestsFit, Ops
  <2>3. RequestsFit'
    BY <1>0, <2>2 DEF RequestsFit, Ops
  <2>4. WorkIsAsked'
    BY <1>0 DEF WorkIsAsked, Rollbacks
  <2>. QED
    BY <2>1, <2>3, <2>4
<1>3. LostAfterFault'
  BY <1>0 DEF LostAfterFault, BeginsOnce, Holding
<1>4. CoreKnown'
  BY <1>0, CoreRests
<1>. QED
  BY <1>1, <1>2, <1>3, <1>4 DEF Survives


LEMMA InstallSurvives == ASSUME Smoothly, Install PROVE Survives'
<1>0. /\ FilesFit /\ RepliesFit /\ RequestsFit /\ WorkIsAsked /\ LostAfterFault /\ CoreKnown
      /\ ui = "idle" /\ reply = "none" /\ (updateFaults = 1 => updateFaults' = 1)
      /\ ui' = "begin" /\ index' = 0 /\ backup' = file /\ inbox' = inbox \cup {<<update', "begin">>}
      /\ UNCHANGED <<system, file, isActive, wanted, owner, step, why, session, reply>>
  BY InterfaceFacts DEF Smoothly, Install, SendOp, system, agent, history
<1>1. FilesFit'
  BY <1>0 DEF FilesFit, Whole
<1>2. RepliesFit'
  BY <1>0 DEF RepliesFit, Ops, Rollbacks
<1>3. RequestsFit'
  BY <1>0 DEF RequestsFit, Ops
<1>4. WorkIsAsked'
  BY <1>0 DEF WorkIsAsked, Rollbacks
<1>5. LostAfterFault'
  BY <1>0 DEF LostAfterFault
<1>6. CoreKnown'
  BY <1>0, CoreRests
<1>. QED
  BY <1>1, <1>2, <1>3, <1>4, <1>5, <1>6 DEF Survives

LEMMA BegunSurvives == ASSUME Smoothly, Begun PROVE Survives'
<1>1. /\ UNCHANGED <<system, agent, isActive, wanted, update, backup, inbox>> /\ ui = "begin" /\ reply' = "none"
      /\ \/ reply = "ok" /\ ui' = "replace" /\ index' = 1
         \/ reply = "error" /\ ui' = "idle"
  BY DEF Begun, Replied, history
<1>2. (reply = "ok" => step[update] = "open") /\ (reply = "error" => step[update] = "closed")
  BY <1>1, InterfaceFacts DEF RepliesFit
<1>. QED
  BY <1>1, <1>2, InterfaceMovesOn

LEMMA CommittedSurvives == ASSUME Smoothly, Committed PROVE Survives'
<1>1. /\ UNCHANGED <<system, agent, isActive, wanted, update, backup, inbox>> /\ ui = "commit" /\ reply' = "none"
      /\ \/ reply = "ok" /\ ui' = "idle"
         \/ reply = "error" /\ ui' = "restore" /\ index' = 1
  BY DEF Committed, Replied, StartRestore, history
<1>2. (reply = "ok" => step[update] = "closed") /\ (reply = "error" => step[update] = "open" /\ updateFaults' = 1)
  BY <1>1, InterfaceFacts DEF RepliesFit, Smoothly
<1>. QED
  BY <1>1, <1>2, InterfaceMovesOn

LEMMA AbandonSurvives == ASSUME Smoothly, Abandon PROVE Survives'
<1>1. /\ UNCHANGED <<system, agent, isActive, wanted, update, backup>> /\ ui # "idle" /\ reply' = "none"
      /\ updateFaults' = updateFaults + 1
      /\ \/ ui' = "idle" /\ (late' = (late \/ ui \notin {"begin", "rollback", "again"})) /\ UNCHANGED inbox
         \/ late' = TRUE
  BY DEF Abandon
<1>2. ~late /\ ~late'
  BY DEF Smoothly, Smooth
<1>3. ui' = "idle" /\ ui \in {"begin", "rollback", "again"} /\ UNCHANGED inbox
  BY <1>1, <1>2
<1>4. updateFaults = 0 /\ updateFaults' = 1
  BY <1>1, InterfaceFacts DEF Smoothly
<1>5. ui = "begin"
  BY <1>3, <1>4, InterfaceFacts DEF RepliesFit, Rollbacks
<1>. QED
  BY <1>1, <1>3, <1>4, <1>5, InterfaceMovesOn

\* The second rollback, or the end.
LEMMA RolledBackSurvives == ASSUME Smoothly, RolledBack PROVE Survives'
<1>1. /\ UNCHANGED <<system, agent, isActive, wanted, update, backup, index, file>> /\ ui \in Rollbacks /\ reply' = "none"
      /\ reply # "none" /\ updateFaults' = updateFaults
      /\ \/ ui' = "idle" /\ UNCHANGED inbox
         \/ ui' = "again" /\ inbox' = inbox \cup {<<update', "again">>}
  BY DEF RolledBack, Replied, SendOp, Rollbacks, history, system
<1>2. updateFaults = 1 /\ updateFaults' = 1 /\ step[update] = "closed"
  BY <1>1, InterfaceFacts DEF RepliesFit
<1>3. CASE ui' = "idle" /\ UNCHANGED inbox
  BY <1>1, <1>2, <1>3, InterfaceMovesOn DEF Rollbacks
<1>4. CASE ui' = "again" /\ inbox' = inbox \cup {<<update', "again">>}
  <2>0. FilesFit /\ RequestsFit /\ WorkIsAsked /\ CoreKnown /\ UNCHANGED <<step, why, session, owner>> /\ update \in Updates
    BY <1>1, InterfaceFacts DEF agent, Rollbacks
  <2>1. FilesFit' /\ RepliesFit'
    BY <1>1, <1>2, <1>4, <2>0 DEF FilesFit, Whole, RepliesFit, Ops, Rollbacks
  <2>2. RequestsFit'
    BY <1>1, <1>2, <1>4, <2>0 DEF RequestsFit, Ops
  <2>3. WorkIsAsked'
    BY <1>1, <1>2, <1>4, <2>0 DEF WorkIsAsked, Rollbacks
  <2>4. LostAfterFault' /\ CoreKnown'
    BY <1>1, <1>2, <2>0, CoreRests DEF LostAfterFault
  <2>. QED
    BY <2>1, <2>2, <2>3, <2>4 DEF Survives
<1>. QED
  BY <1>1, <1>3, <1>4

\* While the interface works on the files its session is open, and the core does
\* not run: every file can be replaced.
LEMMA FilesAreFree ==
    ASSUME Smoothly, ui \in {"replace", "restore"}
    PROVE  /\ update \in Updates /\ step[update] = "open" /\ owner = update /\ core = NoCore
           /\ \A f \in FileSet : Replaceable(f)
           /\ index \in 1 .. 3 /\ reply = "none"
           /\ \A u \in Updates, op \in Ops \ {"begin"} : <<u, op>> \notin inbox
<1>1. update \in Updates /\ step[update] = "open" /\ index \in 1 .. 3 /\ reply = "none" /\ RequestsFit
  BY InterfaceFacts DEF FilesFit
<1>2. core = NoCore /\ owner = update
  BY <1>1, SurvivalFacts DEF CoreOf, Holding
<1>3. \A u \in Updates, op \in Ops \ {"begin"} : <<u, op>> \notin inbox
  BY <1>1 DEF RequestsFit, Ops
<1>. QED
  BY <1>1, <1>2, <1>3 DEF Replaceable

\* The files may change under a core that does not run.
LEMMA CoreIsAway ==
    ASSUME Smoothly, ui \in {"replace", "restore"}, UNCHANGED <<core, capture, isActive, agent, wanted>>
    PROVE  CoreKnown'
<1>1. PICK u \in Updates : step[u] = "open" /\ core = NoCore
  BY FilesAreFree
<1>2. Remembered(u)
  BY <1>1, SurvivalFacts DEF CoreOf
<1>3. UNCHANGED <<step, owner, session>>
  BY DEF agent
<1>4. step'[u] = "open" /\ core' = NoCore /\ Remembered(u)'
  BY <1>1, <1>2, <1>3 DEF Remembered
<1>5. CoreOf(u)'
  BY <1>4 DEF CoreOf
<1>6. Goto(u, "open")
  BY <1>1, <1>3, InterfaceFacts DEF Goto
<1>. QED
  BY <1>1, <1>3, <1>5, <1>6, HolderMoves DEF Holding

\* The interface works on, or asks the Agent to end the session.
LEMMA InterfaceWorksOn ==
    ASSUME Smoothly, ui \in {"replace", "restore"}, UNCHANGED <<core, capture, isActive, agent, wanted, update, backup, reply>>,
           FilesFit', ui' = "restore" => updateFaults' = 1,
           \/ ui' \in {"replace", "restore"} /\ inbox' = inbox
           \/ /\ ui' = "commit" \/ (ui' = "rollback" /\ updateFaults' = 1)
              /\ inbox' = inbox \cup {<<update', ui'>>}
    PROVE  Survives'
<1>0. /\ FilesFit /\ RequestsFit /\ WorkIsAsked /\ LostAfterFault /\ UNCHANGED <<step, why, session, owner>>
      /\ (updateFaults = 1 => updateFaults' = 1)
  BY InterfaceFacts DEF agent, Smoothly
<1>1. /\ update \in Updates /\ step[update] = "open" /\ reply = "none"
      /\ \A u \in Updates, op \in Ops \ {"begin"} : <<u, op>> \notin inbox
  BY FilesAreFree
<1>2. RepliesFit'
  BY <1>0, <1>1 DEF RepliesFit, Ops, Rollbacks
<1>3. RequestsFit'
  BY <1>0, <1>1 DEF RequestsFit, Ops
<1>4. WorkIsAsked'
  BY <1>0, <1>1 DEF WorkIsAsked, Rollbacks
<1>5. LostAfterFault'
  BY <1>0, <1>1 DEF LostAfterFault
<1>. QED
  BY <1>2, <1>3, <1>4, <1>5, CoreIsAway DEF Survives

LEMMA ReplaceSurvives == ASSUME Smoothly, Replace PROVE Survives'
<1>. DEFINE f == Files[index]
<1>1. /\ ui = "replace" /\ UNCHANGED <<core, capture, isActive, agent, wanted, backup, reply>>
      /\ FilesFit /\ file \in [FileSet -> Versions]
  BY InterfaceFacts DEF Replace, Smoothly, UpdateInv, UpdateTyped, SystemTyped
<1>2. index \in 1 .. 3 /\ f \in FileSet /\ Replaceable(f) /\ step[update] = "open" /\ UNCHANGED step
  BY <1>1, FilesAreFree, FilesFacts DEF agent
<1>3. \/ /\ NoFault /\ file' = [file EXCEPT ![f] = update] /\ UNCHANGED update
         /\ IF index = 3 THEN SendOp("commit") /\ index' = 0
            ELSE index' = index + 1 /\ UNCHANGED <<ui, inbox>>
      \/ Fault /\ StartRestore /\ UNCHANGED <<file, update>>
  BY <1>2, FilesFacts DEF Replace
<1>4. CASE /\ NoFault /\ file' = [file EXCEPT ![f] = update] /\ UNCHANGED update
           /\ IF index = 3 THEN SendOp("commit") /\ index' = 0
              ELSE index' = index + 1 /\ UNCHANGED <<ui, inbox>>
  <2>1. \A i \in 1 .. 3 : i <= index => file'[Files[i]] = update
    BY <1>1, <1>2, <1>4, FilesFacts DEF FilesFit
  <2>2. CASE index = 3
    <3>1. Whole(file)'
      BY <2>1, <2>2, FilesFacts DEF Whole
    <3>2. ui' = "commit" /\ inbox' = inbox \cup {<<update', ui'>>}
      BY <1>4, <2>2 DEF SendOp
    <3>3. FilesFit'
      BY <1>1, <3>1, <3>2 DEF FilesFit, Whole
    <3>. QED
      BY <1>1, <1>4, <3>2, <3>3, InterfaceWorksOn
  <2>3. CASE index # 3
    <3>1. FilesFit'
      BY <1>1, <1>2, <1>4, <2>1, <2>3 DEF FilesFit, Whole
    <3>. QED
      BY <1>1, <1>4, <2>3, <3>1, InterfaceWorksOn
  <2>. QED
    BY <2>2, <2>3
<1>5. CASE Fault /\ StartRestore /\ UNCHANGED <<file, update>>
  <2>1. updateFaults' = 1 /\ ui' = "restore" /\ index' = 1 /\ inbox' = inbox
    BY <1>5, FaultIsFirst DEF StartRestore
  <2>2. FilesFit'
    BY <1>1, <1>2, <1>5, <2>1 DEF FilesFit, Whole
  <2>. QED
    BY <1>1, <1>5, <2>1, <2>2, InterfaceWorksOn
<1>. QED
  BY <1>3, <1>4, <1>5

LEMMA RestoreFilesSurvives == ASSUME Smoothly, RestoreFiles PROVE Survives'
<1>. DEFINE f == Files[index]
<1>1. /\ ui = "restore" /\ UNCHANGED <<core, capture, isActive, agent, wanted, backup, reply, update>>
      /\ FilesFit /\ file \in [FileSet -> Versions]
  BY InterfaceFacts DEF RestoreFiles, Smoothly, UpdateInv, UpdateTyped, SystemTyped
<1>2. index \in 1 .. 3 /\ f \in FileSet /\ Replaceable(f) /\ step[update] = "open" /\ UNCHANGED step
  BY <1>1, FilesAreFree, FilesFacts DEF agent
<1>3. updateFaults = 1 /\ updateFaults' = 1
  BY <1>1 DEF FilesFit, Smoothly
<1>4. file' = [file EXCEPT ![f] = backup[f]]
  BY <1>2, <1>3, FaultIsFirst DEF RestoreFiles
<1>5. \A i \in 1 .. 3 : i <= index => file'[Files[i]] = backup[Files[i]]
  BY <1>1, <1>2, <1>4, FilesFacts DEF FilesFit
<1>6. CASE index = 3
  <2>1. Whole(file)'
    BY <1>1, <1>5, <1>6, FilesFacts DEF Whole, FilesFit
  <2>2. ui' = "rollback" /\ inbox' = inbox \cup {<<update', ui'>>}
    BY <1>6, FilesFacts DEF RestoreFiles, SendOp
  <2>3. FilesFit'
    BY <1>1, <2>1, <2>2 DEF FilesFit, Whole
  <2>. QED
    BY <1>1, <1>3, <2>2, <2>3, InterfaceWorksOn
<1>7. CASE index # 3
  <2>1. ui' = "restore" /\ index' = index + 1 /\ inbox' = inbox
    BY <1>1, <1>7, FilesFacts DEF RestoreFiles
  <2>2. FilesFit'
    BY <1>1, <1>2, <1>3, <1>5, <2>1 DEF FilesFit, Whole
  <2>. QED
    BY <1>1, <1>3, <2>1, <2>2, InterfaceWorksOn
<1>. QED
  BY <1>6, <1>7

\* Another transaction is over before the next one: the user is told how it ended.
LEMMA SwitchSurvives == ASSUME Smoothly, Switch PROVE Survives'
<1>1. /\ InterfaceWaits /\ owner = Nobody /\ UNCHANGED <<file, isActive, owner, step, why, session, reply, inbox>>
      /\ wanted' = [capture |-> capture', core |-> core' # NoCore]
  BY DEF Switch, InterfaceWaits, agent, interface
<1>2. Listened'
  BY <1>1, SessionsListen
<1>3. AsKnown /\ CoreFits
  BY <1>1, InterfaceFacts DEF CoreKnown
<1>4. core' = core \/ (isActive /\ core' \in {Started, NoCore})
  BY DEF Switch
<1>5. AsKnown' /\ CoreFits'
  BY <1>1, <1>3, <1>4 DEF AsKnown, CoreFits, Started
<1>6. ASSUME NEW v \in Updates PROVE CoreOf(v)'
  <2>1. step'[v] \notin Holding
    BY <1>1, NamesAssumption DEF Smoothly, UpdateInv, HolderIsOwner, Updates
  <2>. QED
    BY <2>1 DEF CoreOf, Holding
<1>. QED
  BY <1>2, <1>5, <1>6 DEF CoreKnown, Listened, Survives

LEMMA SurvivalNext ==
    ASSUME SurvivalInv, [UpdateNext]_updateVars
    PROVE  SurvivalInv'
<1>1. UpdateInv'
  BY UpdateNextInv DEF SurvivalInv
<1>2. ASSUME Smooth' PROVE Survives'
  <2>1. Smoothly
    BY <1>2, SmoothBefore DEF SurvivalInv, Smoothly, UpdateInv
  <2>2. CASE \E u \in Updates : AgentStep(u) \/ BeginExpires(u)
    BY <2>1, <2>2, AgentKeepsSurvival
  <2>3. CASE InterfaceStep
    BY <2>1, <2>3, InstallSurvives, BegunSurvives, ReplaceSurvives, CommittedSurvives, RestoreFilesSurvives,
       RolledBackSurvives, AbandonSurvives DEF InterfaceStep
  <2>4. CASE Switch
    BY <2>1, <2>4, SwitchSurvives
  <2>5. CASE Shutdown
    BY <2>1, <2>5 DEF Shutdown, Smoothly, Smooth
  <2>6. CASE UNCHANGED updateVars
    <3>1. UNCHANGED <<file, core, capture, isActive, owner, step, why, session, ui, update, index, backup, inbox, reply, wanted, updateFaults>>
      BY <2>6 DEF updateVars, system, agent, interface, history
    <3>2. Listened'
      BY <2>1, <3>1, SessionsListen DEF InterfaceWaits
    <3>3. CoreKnown'
      BY <2>1, <3>1, CoreRests DEF system
    <3>. QED
      BY <3>2, <3>3 DEF Listened, Survives
  <2>. QED
    BY <2>2, <2>3, <2>4, <2>5, <2>6 DEF UpdateNext
<1>. QED
  BY <1>1, <1>2 DEF SurvivalInv

LEMMA SurvivalInit == ASSUME UpdateInit PROVE SurvivalInv
<1>1. FilesFit
  BY FilesFacts DEF UpdateInit, FilesFit, Whole
<1>2. RepliesFit /\ RequestsFit /\ LostAfterFault
  BY DEF UpdateInit, RepliesFit, RequestsFit, LostAfterFault, Ops, Rollbacks, Holding
<1>3. WorkIsAsked
  BY DEF UpdateInit, WorkIsAsked, Rollbacks
<1>4. file["binary"] = 0 /\ 0 # NoCore
  BY FilesFacts, NamesAssumption DEF UpdateInit
<1>5. AsKnown /\ CoreFits
  BY <1>4 DEF UpdateInit, AsKnown, CoreFits
<1>6. \A u \in Updates : CoreOf(u)
  BY DEF UpdateInit, CoreOf
<1>. QED
  BY <1>1, <1>2, <1>3, <1>5, <1>6, UpdateInitInv DEF SurvivalInv, Survives, CoreKnown

\* Nobody works on the files when everything has settled.
LEMMA SettledSurvives == ASSUME SurvivalInv PROVE OneFailureIsSurvived
<1>. SUFFICES ASSUME Settled, updateFaults <= 1, ~late
              PROVE  /\ file["manifest"] = file["binary"] /\ file["sums"] = file["binary"]
                     /\ isActive /\ wanted.core => core = file["binary"]
                     /\ capture = wanted.capture
  BY DEF OneFailureIsSurvived
<1>1. Survives /\ owner = Nobody /\ ui = "idle"
  BY DEF SurvivalInv, Settled, Smooth
<1>. QED
  BY <1>1 DEF Survives, FilesFit, Whole, CoreKnown, AsKnown

-----------------------------------------------------------------------------
(* The Agent: one component works, the others rest.                        *)

\* A component that rests is one that stutters.
LEMMA PartsStep ==
    ASSUME [AgentNext]_agentVars
    PROVE  /\ [UpdateNext]_updateVars /\ [ChangeNext]_changeVars
           /\ [PipeNext]_pipeVars /\ [ListenerNext]_listenerVars
           /\ part' = part
  BY DEF AgentNext, UpdatePart, ChangePart, PipePart, ListenerPart, agentVars

AgentInv ==
    /\ SurvivalInv /\ ChangeInv /\ ChangeTypeOK /\ PipeInv /\ ListenerInv
    /\ part \in AgentParts

THEOREM AgentInvariant == AgentSpec => []AgentInv
<1>1. ASSUME AgentInit PROVE AgentInv
  <2>1. UpdateInit /\ ChangeInit /\ PipeInit /\ ListenerInit /\ part \in AgentParts
    BY <1>1 DEF AgentInit
  <2>. QED
    BY <2>1, SurvivalInit, ChangeInitInv, ChangeInitTypes, PipeInitInv, ListenerInitInv DEF AgentInv
<1>2. ASSUME AgentInv, [AgentNext]_agentVars PROVE AgentInv'
  BY <1>2, PartsStep, SurvivalNext, ChangeNextInv, ChangeTypesStep, PipeNextInv, ListenerNextInv DEF AgentInv
<1>. QED
  BY <1>1, <1>2, PTL DEF AgentSpec

\* The components of the Agent keep their types, whatever the choices, goroutines and
\* bounds are.
THEOREM AgentTypeCorrect == AgentSpec => []AgentTypeOK
<1>1. ASSUME AgentInv PROVE AgentTypeOK
  <2>1. UpdateTypeOK /\ ChangeTypeOK /\ PipeTypeOK /\ ListenerTypeOK
    BY <1>1, UpdateTypedIsType DEF AgentInv, SurvivalInv, UpdateInv, PipeInv, ListenerInv
  <2>. QED
    BY <1>1, <2>1 DEF AgentInv, AgentParts, AgentTypeOK
<1>. QED
  BY AgentInvariant, <1>1, PTL

\* Whoever holds the connection transaction for a core update is registered and has
\* its timer running; and one failure of any step, on either side of the pipe, leaves
\* the files of one version, with core and capture as the user was told, however many
\* installations there are (core_update_session.go:105-401, navo_app/core_update.go:186-320).
THEOREM UpdatesSurvive == AgentSpec => []UpdatesAreSafe
<1>1. ASSUME AgentInv PROVE UpdatesAreSafe
  BY <1>1, HeldIsFound, SettledSurvives DEF AgentInv, SurvivalInv, UpdatesAreSafe
<1>. QED
  BY AgentInvariant, <1>1, PTL

\* No commit, rollback or expiry works on a session that has been finished, whatever
\* the order in which they reach stepMu (core_update_session.go:143, 224, 375).
THEOREM SessionsFinishOnce == AgentSpec => FinishedOnce
<1>1. ASSUME AgentInv, [AgentNext]_agentVars
      PROVE  [\A u \in Updates : step[u] \in {"clear", "closed"} => step'[u] \in {"clear", "closed"}]_updateVars
  BY <1>1, PartsStep, FinishedStays DEF AgentInv, SurvivalInv
<1>. QED
  BY AgentInvariant, <1>1, PTL DEF AgentSpec, FinishedOnce

\* A capture that is shown as running runs with what it was verified with, and
\* one failure is undone, whatever the user may choose from and however many
\* changes and failures there are (capture_transition.go:272-753).
THEOREM ChangesSafe == AgentSpec => []ChangesAreSafe
<1>1. AgentInv => ChangesAreSafe
  BY DEF AgentInv, ChangeInv, ChangesAreSafe
<1>. QED
  BY AgentInvariant, <1>1, PTL

\* For any number of goroutines the handle of a pipe is not used after CloseHandle and
\* memory that the kernel writes to is held by its call; and a listener that has
\* closed leaves no goroutine, no connection and no send on its closed channel
\* (pipe_windows.go:104-238, 297-408).
THEOREM PipesSafe == AgentSpec => []PipesAreSafe
<1>1. ASSUME AgentInv PROVE PipesAreSafe
  BY <1>1 DEF AgentInv, PipeInv, ListenerInv, ChannelIsLast, PipesAreSafe, ListenerLeavesNothing
<1>. QED
  BY AgentInvariant, <1>1, PTL
=============================================================================
