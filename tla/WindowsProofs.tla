---------------------------- MODULE WindowsProofs ----------------------------
(***************************************************************************)
(* Proofs about what Navo changes in Windows: the system proxy, for any    *)
(* settings of the user and of other applications, as long as nothing      *)
(* tears a write of the registry apart and nobody else writes during an    *)
(* operation of Navo; the data directory, for any contexts, launchers and  *)
(* files; the program, for any number of requests and windows; and all of  *)
(* them with the network.                                                  *)
(***************************************************************************)
EXTENDS MCWindows, NetworkJournalProofs, TLAPS

-----------------------------------------------------------------------------
(* The system proxy (SystemProxy).                                         *)

Calm == "torn" \notin Faults /\ "failure" \notin Faults /\ "overlap" \notin Faults

-----------------------------------------------------------------------------
(* The inductive invariant *)

(* Which owner, phase and value go with a place.                           *)
Shape ==
  /\ op.at = "none" => op = Idle
  /\ op.at # "none" => op.name \in {"enable", "disable"}
  /\ op.at \in {"stat", "backup", "pending", "read", "commit"} => op.phase = "own"
  /\ op.at \in {"stat", "backup", "pending", "read", "restore"} => op.value = 1
  /\ op.at \in {"backup", "pending", "commit"} => op.name = "enable"
  /\ op.at \in {"read", "relinquish"} => op.name = "disable"
  /\ op.at \in {"restore", "remove"} => op.phase = "restore"
  /\ op.phase = "own" /\ op.at \in {"apply", "notify"} => op.name = "enable"

(* A restoration has something to restore. *)
BackupIsThere == op.at = "apply" /\ op.phase = "restore" => backup # <<>>

(* What holds however the registry is written, and whoever else writes it. *)
TypedInv == TypeOK /\ Shape /\ BackupIsThere

(* Where the registry is being, or may be, written: the marker is there    *)
(* and the backup is newer than any choice of someone else.                *)
Taken == op.at \in {"apply", "notify", "commit", "restore", "remove"}

TakenIsMarked ==
  /\ Taken => owner # "none" /\ ~newer
  /\ op.at = "backup" => owner = "none"
  /\ op.at = "pending" => ~newer
  /\ op.at = "read" => owner # "none"

(* Someone else's choice never names Navo, and is in place while it is     *)
(* newer than the backup.                                                  *)
ChoiceIsForeign == user.server # "navo" /\ (newer => reg = user)

(* The backup restores the choice. *)
BackupIsChoice ==
  (owner # "none" \/ op.at = "pending") /\ ~newer
    => backup # <<>> /\ Written(backup[1]) = Written(user)

(* Between writes the registry is Navo's or the user's, without a marker   *)
(* the user's.                                                             *)
Whole ==
  ~(op.at = "apply" /\ op.value > 1) => reg = NavoConfig \/ Written(reg) = Written(user)

UnmarkedIsUsers == owner = "none" => Written(reg) = Written(user)

(* What is written so far is the target's. *)
Progress ==
  /\ op.at = "apply" =>
       /\ op.value > 1 => reg.enable = Target.enable
       /\ op.value > 2 => reg.server = Target.server
       /\ op.value > 3 => reg.override = Target.override
       /\ op.value > 4 => reg.pac = Target.pac
  /\ op.at = "notify" => reg = Target
  /\ op.at = "commit" => reg = NavoConfig
  /\ op.at = "remove" => Written(reg) = Written(user)
  /\ op.at = "relinquish" => ~Matches(reg)

Outcome ==
  op.at = "return" /\ op.ok =>
    /\ op.name = "disable" => owner = "none"
    /\ op.name = "enable" => Owns /\ active

IInv ==
  /\ TypeOK /\ Shape /\ TakenIsMarked /\ ChoiceIsForeign /\ BackupIsChoice
  /\ Whole /\ UnmarkedIsUsers /\ Progress /\ Outcome

-----------------------------------------------------------------------------
(* Lemmas about configurations *)

LEMMA WrittenType == ASSUME NEW c \in Configs PROVE Written(c) \in Configs
  BY DEF Written, Configs

LEMMA WrittenTwice == ASSUME NEW c \in Configs PROVE Written(Written(c)) = Written(c)
  BY DEF Written, Configs

LEMMA NavoType == NavoConfig \in Configs
  BY DEF NavoConfig, Configs

LEMMA NavoMatches == Matches(NavoConfig)
  BY DEF NavoConfig, Matches

(* A setting with the effect of one that does not name Navo is not Navo's. *)
LEMMA ForeignUnmatched ==
  ASSUME NEW c \in Configs, NEW d \in Configs, d.server # "navo",
         Written(c) = Written(d)
  PROVE  c.server # "navo" /\ ~Matches(c)
  <1>1. Written(c).server = c.server /\ Written(d).server = d.server
    BY DEF Written, Configs
  <1> QED BY <1>1 DEF Matches

LEMMA SameValues ==
  ASSUME NEW c \in Configs, NEW d \in Configs, c.enable = d.enable, c.server = d.server,
         c.override = d.override, c.pac = d.pac, c.detect = d.detect
  PROVE  c = d
  BY DEF Configs

LEMMA TargetType ==
  ASSUME TypeOK, op.phase = "own" \/ backup # <<>>
  PROVE  Target \in Configs
  <1>1. CASE op.phase = "own" BY <1>1, NavoType DEF Target
  <1>2. CASE op.phase # "own"
    <2>1. PICK c \in Configs : backup = <<c>> BY <1>2 DEF TypeOK
    <2> QED BY <1>2, <2>1, WrittenType DEF Target
  <1> QED BY <1>1, <1>2

LEMMA OrderLength == Len(Order) = 5
  BY DEF Order

LEMMA OrderValues ==
  /\ Order[1] = "enable" /\ Order[2] = "server" /\ Order[3] = "override"
  /\ Order[4] = "pac" /\ Order[5] = "detect"
  BY DEF Order

LEMMA OpTypes ==
  ASSUME op \in Operations
  PROVE  /\ Idle \in Operations
         /\ Restore => op' \in Operations
         /\ Return(TRUE) => op' \in Operations
         /\ Return(FALSE) => op' \in Operations
         /\ WriteFailed => op' \in Operations
         /\ \A step \in Places : Goto(step) => op' \in Operations
  <1>1. Idle \in Operations
    BY OrderLength DEF Idle, Operations, Places
  <1>2. Restore => op' \in Operations
    <2>1. 1 \in 1 .. Len(Order) /\ "restore" \in Places
      BY OrderLength DEF Places
    <2> QED BY <2>1 DEF Restore, Operations
  <1>3. \A ok \in BOOLEAN : Return(ok) => op' \in Operations
    BY DEF Return, Operations, Places
  <1>4. \A step \in Places : Goto(step) => op' \in Operations
    BY DEF Goto, Operations
  <1> QED BY <1>1, <1>2, <1>3, <1>4 DEF WriteFailed

LEMMA OpFields ==
  ASSUME op \in Operations
  PROVE  /\ Restore => /\ op'.at = "restore" /\ op'.phase = "restore"
                       /\ op'.value = 1 /\ op'.name = op.name
         /\ \A ok \in BOOLEAN : Return(ok) =>
              /\ op'.at = "return" /\ op'.phase = op.phase
              /\ op'.value = op.value /\ op'.name = op.name /\ op'.ok = ok
         /\ \A step \in Places : Goto(step) =>
              /\ op'.at = step /\ op'.phase = op.phase
              /\ op'.value = op.value /\ op'.name = op.name /\ op'.ok = op.ok
  <1>1. Restore => /\ op'.at = "restore" /\ op'.phase = "restore"
                   /\ op'.value = 1 /\ op'.name = op.name
    BY DEF Restore, Operations
  <1>2. \A ok \in BOOLEAN : Return(ok) =>
          /\ op'.at = "return" /\ op'.phase = op.phase
          /\ op'.value = op.value /\ op'.name = op.name /\ op'.ok = ok
    BY DEF Return, Operations
  <1>3. \A step \in Places : Goto(step) =>
          /\ op'.at = step /\ op'.phase = op.phase
          /\ op'.value = op.value /\ op'.name = op.name /\ op'.ok = op.ok
    BY DEF Goto, Operations
  <1> QED BY <1>1, <1>2, <1>3

LEMMA InitInv == Init => IInv
  <1> SUFFICES ASSUME Init PROVE IInv
    OBVIOUS
  <1> USE DEF Init
  <1>1. reg \in Configs /\ user = reg /\ user.server # "navo"
    BY OriginalsAssumption
  <1>2. op \in Operations
    BY OrderLength DEF Idle, Operations, Places
  <1>3. TypeOK
    BY <1>1, <1>2 DEF TypeOK
  <1>4. Shape /\ TakenIsMarked /\ BackupIsChoice /\ Progress /\ Outcome
    BY DEF Shape, TakenIsMarked, Taken, BackupIsChoice, Progress, Outcome, Idle
  <1> QED BY <1>1, <1>3, <1>4 DEF IInv, ChoiceIsForeign, Whole, UnmarkedIsUsers

-----------------------------------------------------------------------------
(* Every step preserves the invariant *)

LEMMA InvIsTyped == IInv => TypedInv
  BY DEF IInv, TypedInv, BackupIsThere, TakenIsMarked, Taken, BackupIsChoice

LEMMA TypeStep == ASSUME TypedInv, [Next]_vars PROVE TypeOK'
  <1> USE OrderLength DEF TypedInv, TypeOK, Operations, Places, vars, files, history
  <1>1. CASE EnableAgain BY <1>1 DEF EnableAgain, Idle
  <1>2. CASE Enable BY <1>2 DEF Enable, Idle
  <1>3. CASE EnableStat BY <1>3 DEF EnableStat, Goto, Return
  <1>4. CASE Backup BY <1>4 DEF Backup, Goto, Return
  <1>5. CASE MarkPending BY <1>5 DEF MarkPending, Goto, Return
  <1>6. CASE Commit BY <1>6, OpTypes DEF Commit
  <1>7. CASE ApplyValue
    <2>1. op.at = "apply" /\ op.value \in 1 .. 5
      BY <1>7 DEF ApplyValue
    <2>2. op.phase = "own" \/ backup # <<>>
      BY <2>1 DEF BackupIsThere
    <2>3. Target \in Configs
      BY <2>2, TargetType
    <2>4. reg' \in Configs
      BY <1>7, <2>1, <2>3 DEF ApplyValue, Configs, Order
    <2>5. op' \in Operations
      BY <1>7, <2>1 DEF ApplyValue, Goto
    <2> QED BY <1>7, <2>4, <2>5 DEF ApplyValue
  <1>8. CASE ApplyFails BY <1>8, OpTypes DEF ApplyFails
  <1>9. CASE Notify BY <1>9, OpTypes DEF Notify
  <1>10. CASE RestoreBegin BY <1>10 DEF RestoreBegin, Goto, Return
  <1>11. CASE GiveUpMarker BY <1>11 DEF GiveUpMarker, Return
  <1>12. CASE Disable BY <1>12 DEF Disable, Idle
  <1>13. CASE DisableStat BY <1>13 DEF DisableStat, Goto, Return
  <1>14. CASE Compare BY <1>14, OpTypes DEF Compare
  <1>15. CASE Finish BY <1>15 DEF Finish, Idle
  <1>16. CASE \E c \in Others : OtherApplication(c)
    BY <1>16, OthersAssumption DEF OtherApplication
  <1>17. CASE Crash BY <1>17, OpTypes DEF Crash
  <1>18. CASE UNCHANGED vars BY <1>18
  <1> QED
    BY <1>1, <1>2, <1>3, <1>4, <1>5, <1>6, <1>7, <1>8, <1>9, <1>10, <1>11, <1>12,
       <1>13, <1>14, <1>15, <1>16, <1>17, <1>18 DEF Next

LEMMA ShapeStep == ASSUME TypedInv, [Next]_vars PROVE Shape'
  <1> USE OpFields DEF TypedInv, TypeOK, Shape, Places, vars
  <1>1. CASE EnableAgain BY <1>1 DEF EnableAgain, Idle
  <1>2. CASE Enable BY <1>2 DEF Enable, Idle
  <1>3. CASE EnableStat BY <1>3 DEF EnableStat, Idle
  <1>4. CASE Backup BY <1>4 DEF Backup, Idle
  <1>5. CASE MarkPending BY <1>5 DEF MarkPending, Idle
  <1>6. CASE Commit BY <1>6 DEF Commit, Idle
  <1>7. CASE ApplyValue BY <1>7 DEF ApplyValue, Operations
  <1>8. CASE ApplyFails BY <1>8 DEF ApplyFails, WriteFailed
  <1>9. CASE Notify
    <2>1. op.at = "notify" BY <1>9 DEF Notify
    <2>2. CASE op.phase = "own" BY <1>9, <2>1, <2>2 DEF Notify, WriteFailed
    <2>3. CASE op.phase = "restore" BY <1>9, <2>1, <2>3 DEF Notify, WriteFailed
    <2> QED BY <2>2, <2>3 DEF Operations
  <1>10. CASE RestoreBegin BY <1>10 DEF RestoreBegin
  <1>11. CASE GiveUpMarker BY <1>11 DEF GiveUpMarker
  <1>12. CASE Disable BY <1>12 DEF Disable, Idle
  <1>13. CASE DisableStat BY <1>13 DEF DisableStat, Idle
  <1>14. CASE Compare BY <1>14 DEF Compare, Idle
  <1>15. CASE Finish BY <1>15 DEF Finish, Idle
  <1>16. CASE \E c \in Others : OtherApplication(c) BY <1>16 DEF OtherApplication
  <1>17. CASE Crash BY <1>17 DEF Crash, Idle
  <1>18. CASE UNCHANGED vars BY <1>18
  <1> QED
    BY <1>1, <1>2, <1>3, <1>4, <1>5, <1>6, <1>7, <1>8, <1>9, <1>10, <1>11, <1>12,
       <1>13, <1>14, <1>15, <1>16, <1>17, <1>18 DEF Next
LEMMA BackupThereStep == ASSUME TypedInv, [Next]_vars PROVE BackupIsThere'
  <1> USE OpFields DEF TypedInv, TypeOK, Shape, BackupIsThere, Places, vars, files
  <1>1. CASE Backup BY <1>1 DEF Backup
  <1>2. CASE MarkPending BY <1>2 DEF MarkPending
  <1>3. CASE ApplyValue
    <2>1. op.at = "apply" /\ backup' = backup
      BY <1>3 DEF ApplyValue
    <2>2. op'.at = "apply" => op'.phase = op.phase
      BY <1>3 DEF ApplyValue, Operations
    <2> QED BY <2>1, <2>2
  <1>4. CASE RestoreBegin BY <1>4 DEF RestoreBegin
  <1>5. CASE EnableAgain BY <1>5 DEF EnableAgain, Idle
  <1>6. CASE Enable BY <1>6 DEF Enable, Idle
  <1>7. CASE Disable BY <1>7 DEF Disable, Idle
  <1>8. CASE Finish \/ Crash BY <1>8 DEF Finish, Crash, Idle
  <1>9. CASE EnableStat \/ DisableStat \/ Compare BY <1>9 DEF EnableStat, DisableStat, Compare
  <1>10. CASE Commit \/ GiveUpMarker BY <1>10 DEF Commit, GiveUpMarker
  <1>11. CASE ApplyFails BY <1>11 DEF ApplyFails, WriteFailed
  <1>12. CASE Notify BY <1>12 DEF Notify, WriteFailed
  <1>13. CASE \E c \in Others : OtherApplication(c) BY <1>13 DEF OtherApplication
  <1>14. CASE UNCHANGED vars BY <1>14
  <1> QED
    BY <1>1, <1>2, <1>3, <1>4, <1>5, <1>6, <1>7, <1>8, <1>9, <1>10, <1>11, <1>12, <1>13, <1>14
    DEF Next

LEMMA TypedStep == TypedInv /\ [Next]_vars => TypedInv'
  BY TypeStep, ShapeStep, BackupThereStep DEF TypedInv

(* Only three actions touch the registry or the history of choices. *)
LEMMA RegistrySteps ==
  ASSUME [Next]_vars
  PROVE  \/ Backup \/ ApplyValue \/ (\E c \in Others : OtherApplication(c))
         \/ UNCHANGED <<reg, user, newer>>
  BY DEF Next, vars, files, history, EnableAgain, Enable, EnableStat, MarkPending, Commit,
     ApplyFails, Notify, RestoreBegin, GiveUpMarker, Disable, DisableStat, Compare, Finish, Crash

LEMMA ForeignStep == ASSUME IInv, [Next]_vars PROVE ChoiceIsForeign'
  <1> USE DEF IInv, TypeOK, ChoiceIsForeign
  <1>1. CASE Backup
    <2>1. reg' = reg /\ user' = user BY <1>1 DEF Backup
    <2>2. newer' = FALSE \/ newer' = newer BY <1>1 DEF Backup
    <2> QED BY <2>1, <2>2
  <1>2. CASE ApplyValue BY <1>2 DEF ApplyValue, TakenIsMarked, Taken, history
  <1>3. CASE \E c \in Others : OtherApplication(c)
    BY <1>3, OthersAssumption DEF OtherApplication
  <1>4. CASE UNCHANGED <<reg, user, newer>> BY <1>4
  <1> QED BY <1>1, <1>2, <1>3, <1>4, RegistrySteps

(* Another application writes only while no operation runs, a crash does   *)
(* not come between two values.                                            *)
LEMMA Undisturbed ==
  ASSUME Calm
  PROVE  /\ (\E c \in Others : OtherApplication(c)) => op = Idle /\ op' = Idle
         /\ Crash => ~(op.at = "apply" /\ op.value > 1) /\ op' = Idle
         /\ ApplyFails => op.value = 1
  BY DEF Calm, OtherApplication, Crash, ApplyFails

LEMMA MarkedStep == ASSUME Calm, IInv, [Next]_vars PROVE TakenIsMarked'
  <1> USE OpFields, Undisturbed DEF IInv, TypeOK, TakenIsMarked, Taken, Places
  <1>1. CASE EnableAgain BY <1>1 DEF EnableAgain, Idle
  <1>2. CASE Enable BY <1>2 DEF Enable, Idle
  <1>3. CASE EnableStat BY <1>3 DEF EnableStat, files
  <1>4. CASE Backup BY <1>4 DEF Backup
  <1>5. CASE MarkPending BY <1>5 DEF MarkPending, history
  <1>6. CASE Commit BY <1>6 DEF Commit, history
  <1>7. CASE ApplyValue BY <1>7 DEF ApplyValue, history, files, Operations
  <1>8. CASE ApplyFails BY <1>8 DEF ApplyFails, WriteFailed, history, files
  <1>9. CASE Notify BY <1>9 DEF Notify, WriteFailed, history, files
  <1>10. CASE RestoreBegin BY <1>10 DEF RestoreBegin, history, files
  <1>11. CASE GiveUpMarker BY <1>11 DEF GiveUpMarker
  <1>12. CASE Disable BY <1>12 DEF Disable, Idle
  <1>13. CASE DisableStat BY <1>13 DEF DisableStat, files
  <1>14. CASE Compare
    BY <1>14 DEF Compare, history, files, ChoiceIsForeign, Matches
  <1>15. CASE Finish BY <1>15 DEF Finish, Idle
  <1>16. CASE \E c \in Others : OtherApplication(c) BY <1>16 DEF Idle
  <1>17. CASE Crash BY <1>17 DEF Crash, Idle
  <1>18. CASE UNCHANGED vars BY <1>18 DEF vars, history, files
  <1> QED
    BY <1>1, <1>2, <1>3, <1>4, <1>5, <1>6, <1>7, <1>8, <1>9, <1>10, <1>11, <1>12,
       <1>13, <1>14, <1>15, <1>16, <1>17, <1>18 DEF Next
(* The marker and the backup. *)
LEMMA BackupStep == ASSUME Calm, IInv, [Next]_vars PROVE BackupIsChoice'
  <1> USE OpFields, Undisturbed DEF IInv, TypeOK, BackupIsChoice, TakenIsMarked, Taken, Places
  <1>1. CASE Backup
    <2>1. op.at = "backup" /\ user' = user /\ reg' = reg /\ owner' = owner
      BY <1>1 DEF Backup
    <2>2. owner = "none" /\ Written(reg) = Written(user)
      BY <2>1 DEF UnmarkedIsUsers
    <2>3. owner' = "none" BY <2>1, <2>2
    <2>4. CASE Goto("pending") /\ backup' = <<reg>>
      <3>1. backup' # <<>> /\ backup'[1] = reg BY <2>4
      <3> QED BY <2>1, <2>2, <3>1 DEF Written
    <2>5. CASE Return(FALSE) BY <2>3, <2>5
    <2> QED BY <1>1, <2>4, <2>5 DEF Backup
  <1>2. CASE MarkPending BY <1>2 DEF MarkPending, history, Written
  <1>3. CASE Commit BY <1>3 DEF Commit, history, Written
  <1>4. CASE GiveUpMarker BY <1>4 DEF GiveUpMarker, history, Written
  <1>5. CASE \E c \in Others : OtherApplication(c) BY <1>5 DEF OtherApplication
  <1>6. CASE UNCHANGED <<files, history>> /\ op'.at # "pending"
    BY <1>6 DEF files, history, Written
  <1>7. CASE UNCHANGED vars BY <1>7 DEF vars, files, history, Written
  <1>8. Next => \/ Backup \/ MarkPending \/ Commit \/ GiveUpMarker
                \/ (\E c \in Others : OtherApplication(c))
                \/ UNCHANGED <<files, history>> /\ op'.at # "pending"
    <2>1. ApplyValue => op'.at # "pending" BY DEF ApplyValue, Operations
    <2>2. ApplyFails \/ Notify \/ RestoreBegin => op'.at # "pending"
      BY DEF ApplyFails, Notify, RestoreBegin, WriteFailed
    <2>3. EnableAgain \/ Enable \/ Disable \/ Finish \/ Crash => op'.at # "pending"
      <3>1. EnableAgain => op'.at = "return" BY DEF EnableAgain, Idle
      <3>2. Enable \/ Disable => op'.at = "stat" BY DEF Enable, Disable, Idle
      <3>3. Finish \/ Crash => op'.at = "none" BY DEF Finish, Crash, Idle
      <3> QED BY <3>1, <3>2, <3>3
    <2>4. EnableStat \/ DisableStat \/ Compare => op'.at # "pending"
      BY DEF EnableStat, DisableStat, Compare
    <2> QED
      BY <2>1, <2>2, <2>3, <2>4
      DEF Next, EnableAgain, Enable, EnableStat, ApplyValue, ApplyFails, Notify,
          RestoreBegin, Disable, DisableStat, Compare, Finish, Crash
  <1> QED BY <1>1, <1>2, <1>3, <1>4, <1>5, <1>6, <1>7, <1>8
(* What is written: value by value the target, and nothing else.           *)
LEMMA ProgressStep == ASSUME Calm, IInv, [Next]_vars PROVE Progress'
  <1> USE OpFields, Undisturbed DEF IInv, TypeOK, Progress, Places
  <1>1. CASE EnableAgain BY <1>1 DEF EnableAgain, Idle
  <1>2. CASE Enable BY <1>2 DEF Enable, Idle
  <1>3. CASE EnableStat BY <1>3 DEF EnableStat
  <1>4. CASE Backup BY <1>4 DEF Backup
  <1>5. CASE MarkPending
    <2>1. op.value = 1 BY <1>5 DEF MarkPending, Shape
    <2>2. op'.value = 1 /\ op'.at \in {"apply", "return"}
      BY <1>5, <2>1 DEF MarkPending
    <2> QED BY <2>2
  <1>6. CASE Commit BY <1>6 DEF Commit
  <1>7. CASE ApplyValue
    <2>1. op.at = "apply" /\ op.value \in 1 .. 5
      BY <1>7, OrderLength DEF ApplyValue, Operations
    <2>2. op.phase = "own" \/ backup # <<>>
      BY <2>1 DEF TakenIsMarked, Taken, BackupIsChoice
    <2>3. Target \in Configs
      BY <2>2, TargetType
    <2>4. reg' = [reg EXCEPT ![Order[op.value]] = Target[Order[op.value]]]
      BY <1>7 DEF ApplyValue
    <2>5. op'.phase = op.phase /\ Target' = Target
      BY <1>7 DEF ApplyValue, Target, files, Operations
    <2>6. CASE op.value = 5
      <3>1. op'.at = "notify" BY <1>7, <2>6, OrderLength DEF ApplyValue
      <3>2. reg' = [reg EXCEPT !.detect = Target.detect] BY <2>4, <2>6, OrderValues
      <3>3. reg' \in Configs BY <2>3, <3>2 DEF Configs
      <3>4. reg'.enable = Target.enable /\ reg'.server = Target.server
            /\ reg'.override = Target.override /\ reg'.pac = Target.pac
            /\ reg'.detect = Target.detect
        BY <2>1, <2>6, <3>2 DEF Configs
      <3>5. reg' = Target BY <2>3, <3>3, <3>4, SameValues
      <3> QED BY <2>5, <3>1, <3>5
    <2>7. CASE op.value # 5
      <3>1. op'.at = "apply" /\ op'.value = op.value + 1
        BY <1>7, <2>7, OrderLength DEF ApplyValue, Operations
      <3>2. CASE op.value = 1
        <4>1. reg' = [reg EXCEPT !.enable = Target.enable] BY <2>4, <3>2, OrderValues
        <4> QED BY <2>5, <3>1, <3>2, <4>1 DEF Configs
      <3>3. CASE op.value = 2
        <4>1. reg' = [reg EXCEPT !.server = Target.server] BY <2>4, <3>3, OrderValues
        <4> QED BY <2>1, <2>5, <3>1, <3>3, <4>1 DEF Configs
      <3>4. CASE op.value = 3
        <4>1. reg' = [reg EXCEPT !.override = Target.override] BY <2>4, <3>4, OrderValues
        <4> QED BY <2>1, <2>5, <3>1, <3>4, <4>1 DEF Configs
      <3>5. CASE op.value = 4
        <4>1. reg' = [reg EXCEPT !.pac = Target.pac] BY <2>4, <3>5, OrderValues
        <4> QED BY <2>1, <2>5, <3>1, <3>5, <4>1 DEF Configs
      <3> QED BY <2>1, <2>7, <3>2, <3>3, <3>4, <3>5
    <2> QED BY <2>6, <2>7
  <1>8. CASE ApplyFails BY <1>8 DEF ApplyFails, WriteFailed
  <1>9. CASE Notify
    <2>1. op.at = "notify" /\ reg' = reg /\ user' = user BY <1>9 DEF Notify, history
    <2>2. CASE op.phase = "own"
      <3>1. reg = NavoConfig BY <2>1, <2>2 DEF Target
      <3> QED BY <1>9, <2>1, <2>2, <3>1 DEF Notify, WriteFailed
    <2>3. CASE op.phase = "restore"
      <3>1. backup # <<>> /\ Written(backup[1]) = Written(user)
        BY <2>1 DEF BackupIsChoice, TakenIsMarked, Taken
      <3>2. PICK c \in Configs : backup = <<c>> BY <3>1
      <3>3. Written(reg) = Written(user)
        BY <2>1, <2>3, <3>1, <3>2, WrittenTwice DEF Target
      <3>4. Written(reg') = Written(user') BY <2>1, <3>3 DEF Written
      <3> QED BY <1>9, <2>1, <2>3, <3>4 DEF Notify, WriteFailed, Written
    <2> QED BY <2>2, <2>3 DEF Operations
  <1>10. CASE RestoreBegin
    <2>1. op.value = 1 BY <1>10 DEF RestoreBegin, Shape
    <2>2. op'.value = 1 /\ op'.at \in {"apply", "return"}
      BY <1>10, <2>1 DEF RestoreBegin
    <2> QED BY <2>2
  <1>11. CASE GiveUpMarker BY <1>11 DEF GiveUpMarker
  <1>12. CASE Disable BY <1>12 DEF Disable, Idle
  <1>13. CASE DisableStat BY <1>13 DEF DisableStat
  <1>14. CASE Compare BY <1>14 DEF Compare, Matches
  <1>15. CASE Finish BY <1>15 DEF Finish, Idle
  <1>16. CASE \E c \in Others : OtherApplication(c) BY <1>16 DEF Idle
  <1>17. CASE Crash BY <1>17 DEF Crash, Idle
  <1>18. CASE UNCHANGED vars BY <1>18 DEF vars, history, files, Target, Matches
  <1> QED
    BY <1>1, <1>2, <1>3, <1>4, <1>5, <1>6, <1>7, <1>8, <1>9, <1>10, <1>11, <1>12,
       <1>13, <1>14, <1>15, <1>16, <1>17, <1>18 DEF Next
(* Between writes the registry is Navo's or the user's. *)
LEMMA WholeStep ==
  ASSUME Calm, IInv, [Next]_vars, TypeOK', Progress', TakenIsMarked', BackupIsChoice'
  PROVE  Whole'
  <1> USE OpFields, Undisturbed DEF IInv, TypeOK, Whole, Places
  <1>1. CASE Backup BY <1>1 DEF Backup, Written
  <1>2. CASE ApplyValue
    <2>1. CASE op.value = 5
      <3>1. op'.at = "notify" /\ op'.phase = op.phase /\ backup' = backup /\ user' = user
        BY <1>2, <2>1, OrderLength DEF ApplyValue, files, history
      <3>2. reg' = Target' BY <3>1 DEF Progress
      <3>3. CASE op.phase = "own" BY <3>1, <3>2, <3>3 DEF Target
      <3>4. CASE op.phase = "restore"
        <4>1. backup # <<>> /\ Written(backup[1]) = Written(user)
          BY <1>2 DEF ApplyValue, BackupIsChoice, TakenIsMarked, Taken
        <4>2. PICK c \in Configs : backup = <<c>> BY <4>1
        <4>3. reg' = Written(c) BY <3>1, <3>2, <3>4, <4>2 DEF Target
        <4>4. Written(reg') = Written(user) BY <4>1, <4>2, <4>3, WrittenTwice
        <4>5. (Written(reg) = Written(user))' BY <3>1, <4>4 DEF Written
        <4> QED BY <4>5
      <3> QED BY <3>3, <3>4 DEF Operations
    <2>2. CASE op.value # 5
      <3>1. op'.at = "apply" /\ op'.value > 1
        BY <1>2, <2>2, OrderLength DEF ApplyValue, Operations
      <3> QED BY <3>1
    <2> QED BY <2>1, <2>2
  <1>3. CASE \E c \in Others : OtherApplication(c)
    BY <1>3 DEF OtherApplication, Written
  <1>4. CASE UNCHANGED <<reg, user, newer>> /\ ~(op.at = "apply" /\ op.value > 1)
    BY <1>4 DEF Written
  <1>5. CASE UNCHANGED vars BY <1>5 DEF vars, history, Written
  <1>6. Next => \/ ApplyValue
                \/ ~(op.at = "apply" /\ op.value > 1)
    <2>1. EnableAgain \/ Enable \/ Disable \/ (\E c \in Others : OtherApplication(c))
            => op.at = "none"
      BY DEF EnableAgain, Enable, Disable, Idle
    <2>2. EnableStat \/ Backup \/ MarkPending \/ Commit \/ Notify \/ RestoreBegin
            \/ GiveUpMarker \/ DisableStat \/ Compare \/ Finish
            => op.at # "apply"
      BY DEF EnableStat, Backup, MarkPending, Commit, Notify, RestoreBegin, GiveUpMarker,
         DisableStat, Compare, Finish
    <2>3. ApplyFails \/ Crash => ~(op.at = "apply" /\ op.value > 1)
      OBVIOUS
    <2> QED BY <2>1, <2>2, <2>3 DEF Next
  <1> QED BY <1>1, <1>2, <1>3, <1>4, <1>5, <1>6, RegistrySteps

(* Without a marker the registry is the user's. *)
LEMMA UnmarkedStep ==
  ASSUME Calm, IInv, [Next]_vars, Whole', TypeOK'
  PROVE  UnmarkedIsUsers'
  <1> USE OpFields, Undisturbed DEF IInv, TypeOK, UnmarkedIsUsers, Places
  <1>1. CASE Backup BY <1>1 DEF Backup, Written
  <1>2. CASE ApplyValue BY <1>2 DEF ApplyValue, files, TakenIsMarked, Taken
  <1>3. CASE \E c \in Others : OtherApplication(c)
    BY <1>3 DEF OtherApplication, Written
  <1>4. CASE MarkPending BY <1>4 DEF MarkPending, history, Written
  <1>5. CASE Commit BY <1>5 DEF Commit, history, TakenIsMarked, Taken
  <1>6. CASE GiveUpMarker
    <2>1. reg' = reg /\ user' = user BY <1>6 DEF GiveUpMarker, history
    <2>2. CASE op.at = "remove"
      <3>1. Written(reg) = Written(user) BY <2>2 DEF Progress
      <3> QED BY <2>1, <3>1 DEF Written
    <2>3. CASE op.at = "relinquish"
      <3>1. reg # NavoConfig BY <2>3, NavoMatches DEF Progress
      <3>2. Written(reg) = Written(user) BY <2>3, <3>1 DEF Whole
      <3> QED BY <2>1, <3>2 DEF Written
    <2> QED BY <1>6, <2>2, <2>3 DEF GiveUpMarker
  <1>7. CASE UNCHANGED <<reg, user, owner>> BY <1>7 DEF Written
  <1>8. Next => \/ Backup \/ ApplyValue \/ (\E c \in Others : OtherApplication(c))
                \/ MarkPending \/ Commit \/ GiveUpMarker \/ UNCHANGED <<reg, user, owner>>
    BY DEF Next, files, history, EnableAgain, Enable, EnableStat, ApplyFails, Notify,
       RestoreBegin, Disable, DisableStat, Compare, Finish, Crash
  <1> QED BY <1>1, <1>2, <1>3, <1>4, <1>5, <1>6, <1>7, <1>8 DEF vars, files, history

(* What an operation that succeeded leaves. *)
LEMMA OutcomeStep == ASSUME Calm, IInv, [Next]_vars PROVE Outcome'
  <1> USE OpFields, Undisturbed DEF IInv, TypeOK, Outcome, Places, Shape
  <1>1. CASE EnableAgain BY <1>1 DEF EnableAgain, Idle, files, Owns, Matches
  <1>2. CASE Commit
    <2>1. op.at = "commit" /\ op.name = "enable" /\ reg' = reg /\ reg = NavoConfig
      BY <1>2 DEF Commit, Progress
    <2>2. Matches(reg') BY <2>1, NavoMatches
    <2>3. CASE owner' = "committed" /\ active' = TRUE /\ Return(TRUE)
      BY <2>1, <2>2, <2>3 DEF Owns, Matches
    <2>4. CASE Restore BY <2>4
    <2> QED BY <1>2, <2>3, <2>4 DEF Commit
  <1>3. CASE GiveUpMarker
    <2>1. CASE owner' = "none" /\ Return(op.name = "disable")
      <3>1. op'.name = op.name /\ op'.ok = (op.name = "disable") BY <2>1
      <3> QED BY <2>1, <3>1
    <2>2. CASE Return(FALSE) BY <2>2
    <2> QED BY <1>3, <2>1, <2>2 DEF GiveUpMarker
  <1>4. CASE DisableStat BY <1>4 DEF DisableStat, files
  <1>5. CASE op'.at # "return" BY <1>5
  <1>6. CASE op'.ok = FALSE BY <1>6
  <1>7. CASE UNCHANGED vars BY <1>7 DEF vars, files, Owns, Matches
  <1>8. Next => \/ EnableAgain \/ Commit \/ GiveUpMarker \/ DisableStat
                \/ op'.at # "return" \/ op'.ok = FALSE
    <2>1. Enable \/ Disable => op'.at = "stat" BY DEF Enable, Disable, Idle
    <2>2. Finish \/ Crash => op'.at = "none" BY DEF Finish, Crash, Idle
    <2>3. ApplyValue => op'.at # "return" BY DEF ApplyValue, Operations
    <2>4. (\E c \in Others : OtherApplication(c)) => op'.at # "return" BY DEF Idle
    <2>5. EnableStat \/ Backup \/ MarkPending => op'.at # "return" \/ op'.ok = FALSE
      BY DEF EnableStat, Backup, MarkPending
    <2>6. ApplyFails \/ Notify => op'.at # "return" \/ op'.ok = FALSE
      BY DEF ApplyFails, Notify, WriteFailed
    <2>7. RestoreBegin \/ Compare => op'.at # "return" \/ op'.ok = FALSE
      BY DEF RestoreBegin, Compare
    <2> QED BY <2>1, <2>2, <2>3, <2>4, <2>5, <2>6, <2>7 DEF Next
  <1> QED BY <1>1, <1>2, <1>3, <1>4, <1>5, <1>6, <1>7, <1>8
-----------------------------------------------------------------------------
(* The theorems *)

LEMMA InvariantStep == ASSUME Calm PROVE IInv /\ [Next]_vars => IInv'
  <1> SUFFICES ASSUME IInv, [Next]_vars PROVE IInv'
    OBVIOUS
  <1>1. TypeOK' BY InvIsTyped, TypeStep
  <1>2. Shape' BY InvIsTyped, ShapeStep
  <1>3. TakenIsMarked' BY MarkedStep
  <1>4. ChoiceIsForeign' BY ForeignStep
  <1>5. BackupIsChoice' BY BackupStep
  <1>6. Progress' BY ProgressStep
  <1>7. Whole' BY <1>1, <1>3, <1>5, <1>6, WholeStep
  <1>8. UnmarkedIsUsers' BY <1>1, <1>7, UnmarkedStep
  <1>9. Outcome' BY OutcomeStep
  <1> QED BY <1>1, <1>2, <1>3, <1>4, <1>5, <1>6, <1>7, <1>8, <1>9 DEF IInv

(* The invariant holds in every state of a calm behaviour.                 *)
THEOREM InductiveInvariant == ASSUME Calm PROVE Spec => []IInv
  BY InitInv, InvariantStep, PTL DEF Spec

(* Manager's state keeps its types, also when a write of the registry is   *)
(* torn, fails half-way or overlaps another application's                  *)
(* (internal/agent/systemproxy/proxy.go).                                  *)
THEOREM TypeCorrect == Spec => []TypeOK
  <1>1. Init => TypedInv
    BY InitInv, InvIsTyped
  <1>2. TypedInv => TypeOK
    BY DEF TypedInv
  <1> QED BY <1>1, <1>2, TypedStep, PTL DEF Spec

(* Enable and Disable, failing, dying and repeated in any order, give the  *)
(* registry back as it was chosen last, whoever chose it.                  *)
THEOREM ConfigRestored == ASSUME Calm PROVE Spec => []UserConfigRestored
  <1>1. IInv => UserConfigRestored BY DEF IInv, UnmarkedIsUsers, UserConfigRestored
  <1> QED BY <1>1, InductiveInvariant, PTL

(* What the capture transaction relies on: Disable without an error means  *)
(* that the system proxy does not point at Navo.                           *)
THEOREM DisableWorks == ASSUME Calm PROVE Spec => []DisabledIsOff
  <1>1. ASSUME IInv PROVE DisabledIsOff
    <2> USE <1>1 DEF IInv
    <2>1. SUFFICES ASSUME op.name = "disable", op.at = "return", op.ok
                   PROVE  ~PointsAtNavo
      BY DEF DisabledIsOff
    <2>2. Written(reg) = Written(user) BY <2>1 DEF Outcome, UnmarkedIsUsers
    <2>3. reg.server # "navo"
      BY <2>2, ForeignUnmatched DEF TypeOK, ChoiceIsForeign
    <2> QED BY <2>3 DEF PointsAtNavo
  <1> QED BY <1>1, InductiveInvariant, PTL

(* So does Enable without an error: the marker is committed and Windows    *)
(* points at Navo, when Enable answers from memory included.               *)
THEOREM EnableWorks == ASSUME Calm PROVE Spec => []EnabledIsOwned
  <1>1. IInv => EnabledIsOwned BY DEF IInv, Outcome, EnabledIsOwned
  <1> QED BY <1>1, InductiveInvariant, PTL

(* A newer choice of someone else is never overwritten.                    *)
THEOREM NewerIsKept == ASSUME Calm PROVE Spec => NewerKept
  <1>1. ASSUME IInv, [Next]_vars, newer, user' = user PROVE reg' = reg
    <2> USE <1>1 DEF IInv
    <2>1. CASE Backup BY <2>1 DEF Backup
    <2>2. CASE ApplyValue BY <2>2 DEF ApplyValue, TakenIsMarked, Taken
    <2>3. CASE \E c \in Others : OtherApplication(c)
      BY <2>3 DEF OtherApplication, ChoiceIsForeign
    <2>4. CASE UNCHANGED <<reg, user, newer>> BY <2>4
    <2> QED BY <2>1, <2>2, <2>3, <2>4, RegistrySteps
  <1>2. IInv /\ [Next]_vars => [newer /\ user' = user => reg' = reg]_vars
    BY <1>1
  <1> QED BY <1>2, InductiveInvariant, PTL DEF Spec, NewerKept

-----------------------------------------------------------------------------
(* The data directory (DeviceSetup).                                       *)

Stages == {"none", "reading", "removing", "cleaning", "creating", "ready", "running"}

\* Nothing in the files of a reset is from another context than c.
OnlyFrom(c) == \A t \in Targets : keptFrom[t] \in {NoContext, c}

\* Files belong to the context of the state; without one they are this machine's.
FilesFollowState ==
    /\ stateFile \in Contexts => OnlyFrom(stateFile)
    /\ stateFile = NoContext => OnlyFrom(machine)

\* A launcher that has not looked at the state has reset nothing, and one that resets
\* will create a state.
WaitingIsFresh ==
    \A l \in Launchers :
        /\ setup[l].stage \in {"none", "reading"} => setup[l].next = 1
        /\ setup[l].stage = "removing" => setup[l].create

\* What a reset has passed without a failure is removed or written since.
PassedIsGone ==
    \A l \in Launchers : setup[l].stage = "removing" /\ ~setup[l].failed =>
        \A i \in 1..setup[l].next - 1 : keptFrom[ResetTargets[i]] \in {NoContext, machine}

\* After the reset, or without one, the files are this machine's ...
CleanedIsOwn ==
    \A l \in Launchers : setup[l].stage \in {"cleaning", "creating"} => OnlyFrom(machine)

\* ... a launcher that creates no state has found its own ...
FoundIsOwn ==
    \A l \in Launchers : setup[l].stage = "cleaning" /\ ~setup[l].create => stateFile = machine

\* ... and so has one that is ready.
ReadyIsBound ==
    \A l \in Launchers :
        /\ setup[l].stage \in {"creating", "ready", "running"} => ~legacy
        /\ setup[l].stage \in {"ready", "running"} => stateFile = machine

DeviceInv ==
    /\ DeviceTypeOK /\ FilesFollowState /\ WaitingIsFresh /\ PassedIsGone
    /\ CleanedIsOwn /\ FoundIsOwn /\ ReadyIsBound

LEMMA InitHolds == DeviceInit => DeviceInv
<1> SUFFICES ASSUME DeviceInit PROVE DeviceInv
    OBVIOUS
<1> USE ContextsAssumption, TargetsAssumption
<1>1. DeviceTypeOK
    BY DEF DeviceInit, DeviceTypeOK, AtRest
<1>2. FilesFollowState
    BY DEF DeviceInit, FilesFollowState, OnlyFrom
<1>3. WaitingIsFresh /\ PassedIsGone /\ CleanedIsOwn /\ FoundIsOwn /\ ReadyIsBound
    BY DEF DeviceInit, WaitingIsFresh, PassedIsGone, CleanedIsOwn, FoundIsOwn, ReadyIsBound, AtRest
<1> QED BY <1>1, <1>2, <1>3 DEF DeviceInv

\* The files of a reset are what stands in its list.
LEMMA TargetsAreListed ==
    /\ Len(ResetTargets) \in Nat
    /\ \A i \in 1..Len(ResetTargets) : ResetTargets[i] \in Targets
    /\ \A t \in Targets : \E i \in 1..Len(ResetTargets) : t = ResetTargets[i]
BY TargetsAssumption DEF Targets

PassedBy ==
    [stage : Stages, next : 1..Len(ResetTargets) + 1, failed : BOOLEAN, create : BOOLEAN]

\* What a launcher may become while the files stay as they are.
Fits(p) ==
    /\ p.stage \in {"none", "reading"} => p.next = 1
    /\ p.stage = "removing" => p.create
    /\ p.stage = "removing" /\ ~p.failed =>
        \A i \in 1..p.next - 1 : keptFrom[ResetTargets[i]] \in {NoContext, machine}
    /\ p.stage \in {"cleaning", "creating"} => OnlyFrom(machine)
    /\ p.stage = "cleaning" /\ ~p.create => stateFile = machine

\* A step of one launcher that touches no file of a reset and not the state.
LEMMA OneMoves ==
    ASSUME DeviceInv, NEW l \in Launchers, NEW p \in PassedBy, Fits(p),
           setup' = [setup EXCEPT ![l] = p], legacy' \in BOOLEAN, legacy' => legacy,
           UNCHANGED <<machine, stateFile, keptFrom>>,
           p.stage \in {"creating", "ready", "running"} => ~legacy',
           p.stage \in {"ready", "running"} => stateFile = machine
    PROVE  DeviceInv'
<1>1. /\ setup' \in [Launchers -> PassedBy] /\ setup'[l] = p
      /\ \A k \in Launchers : k # l => setup'[k] = setup[k]
    BY DEF DeviceInv, DeviceTypeOK, PassedBy, Stages
<1>2. DeviceTypeOK'
    BY <1>1 DEF DeviceInv, DeviceTypeOK, PassedBy, Stages
<1>3. FilesFollowState'
    BY DEF DeviceInv, FilesFollowState, OnlyFrom
<1>4. WaitingIsFresh' /\ PassedIsGone'
    BY <1>1 DEF DeviceInv, WaitingIsFresh, PassedIsGone, Fits
<1>5. CleanedIsOwn'
    BY <1>1 DEF DeviceInv, CleanedIsOwn, Fits, OnlyFrom
<1>6. FoundIsOwn'
    BY <1>1 DEF DeviceInv, FoundIsOwn, Fits
<1>7. ReadyIsBound'
    BY <1>1 DEF DeviceInv, ReadyIsBound
<1> QED BY <1>2, <1>3, <1>4, <1>5, <1>6, <1>7 DEF DeviceInv

\* A launcher may end at any point.
LEMMA EndKeeps ==
    ASSUME DeviceInv, NEW l \in Launchers, Ends(l), UNCHANGED <<machine, stateFile, keptFrom, legacy>>
    PROVE  DeviceInv'
<1>1. AtRest \in PassedBy /\ Fits(AtRest) /\ AtRest.stage = "none"
    BY TargetsAreListed DEF AtRest, PassedBy, Stages, Fits
<1>2. legacy \in BOOLEAN
    BY DEF DeviceInv, DeviceTypeOK
<1> HIDE DEF AtRest
<1> QED BY <1>1, <1>2, OneMoves DEF Ends

\* A launcher may go on to a stage whose condition holds.
LEMMA BecomesKeeps ==
    ASSUME DeviceInv, NEW l \in Launchers, NEW s \in Stages \ {"none", "removing"}, Becomes(l, s),
           legacy' \in BOOLEAN, legacy' => legacy, UNCHANGED <<machine, stateFile, keptFrom>>,
           s = "reading" => setup[l].stage = "none",
           s \in {"creating", "ready", "running"} => ~legacy',
           s \in {"ready", "running"} => stateFile = machine,
           s \in {"cleaning", "creating"} => OnlyFrom(machine),
           s = "cleaning" /\ ~setup[l].create => stateFile = machine
    PROVE  DeviceInv'
<1> DEFINE p == [setup[l] EXCEPT !.stage = s]
<1>1. setup[l] \in PassedBy
    BY DEF DeviceInv, DeviceTypeOK, PassedBy, Stages
<1>2. p \in PassedBy /\ p.stage = s /\ p.create = setup[l].create /\ p.next = setup[l].next
    BY <1>1 DEF PassedBy
<1>3. setup' = [setup EXCEPT ![l] = p]
    BY DEF Becomes
<1>4. s = "reading" => setup[l].next = 1
    BY DEF DeviceInv, WaitingIsFresh
<1>5. Fits(p)
    BY <1>2, <1>4 DEF Fits
<1> HIDE DEF p
<1> QED BY <1>2, <1>3, <1>5, OneMoves

LEMMA NextKeeps == DeviceInv /\ [DeviceNext]_deviceVars => DeviceInv'
<1> SUFFICES ASSUME DeviceInv, [DeviceNext]_deviceVars PROVE DeviceInv'
    OBVIOUS
<1> USE ContextsAssumption, TargetsAreListed
<1>0. /\ DeviceTypeOK /\ FilesFollowState /\ WaitingIsFresh /\ PassedIsGone
      /\ CleanedIsOwn /\ FoundIsOwn /\ ReadyIsBound
      /\ machine \in Contexts /\ legacy \in BOOLEAN /\ setup \in [Launchers -> PassedBy]
    BY DEF DeviceInv, DeviceTypeOK, PassedBy, Stages
<1>1. ASSUME NEW l \in Launchers, Launch(l) PROVE DeviceInv'
    BY <1>0, <1>1, BecomesKeeps DEF Launch, Stages
<1>2. ASSUME NEW l \in Launchers, ReadState(l) PROVE DeviceInv'
    <2> DEFINE p(s) == [setup[l] EXCEPT !.stage = s, !.create = TRUE]
    <2>0. setup[l] \in PassedBy /\ setup[l].next = 1
        BY <1>0, <1>2 DEF ReadState, WaitingIsFresh
    <2>1. CASE stateFile = NoContext
        <3>1. p("cleaning") \in PassedBy /\ Fits(p("cleaning")) /\ p("cleaning").stage = "cleaning"
            BY <1>0, <2>0, <2>1 DEF PassedBy, Stages, Fits, FilesFollowState
        <3>2. setup' = [setup EXCEPT ![l] = p("cleaning")] /\ UNCHANGED <<machine, stateFile, keptFrom, legacy>>
            BY <1>0, <1>2, <2>1 DEF ReadState
        <3> HIDE DEF p
        <3> QED BY <1>0, <3>1, <3>2, OneMoves
    <2>2. CASE stateFile = Damaged
        <3>1. Ends(l) /\ UNCHANGED <<machine, stateFile, keptFrom, legacy>>
            BY <1>0, <1>2, <2>2 DEF ReadState
        <3> QED BY <3>1, EndKeeps
    <2>3. CASE stateFile = machine
        <3>1. Becomes(l, "cleaning") /\ UNCHANGED <<machine, stateFile, keptFrom, legacy>>
            BY <1>0, <1>2, <2>3 DEF ReadState
        <3>2. OnlyFrom(machine)
            BY <1>0, <2>3 DEF FilesFollowState
        <3> QED BY <1>0, <3>1, <3>2, <2>3, BecomesKeeps DEF Stages
    <2>4. CASE stateFile \notin {NoContext, Damaged, machine}
        <3>1. setup' = [setup EXCEPT ![l] = p("removing")] /\ UNCHANGED <<machine, stateFile, keptFrom, legacy>>
            BY <1>2, <2>4 DEF ReadState
        <3>2. p("removing") \in PassedBy /\ p("removing").stage = "removing"
              /\ p("removing").next = 1 /\ p("removing").create
            BY <2>0 DEF PassedBy, Stages
        <3>3. Fits(p("removing"))
            BY <3>2 DEF Fits
        <3> HIDE DEF p
        <3> QED BY <1>0, <3>1, <3>2, <3>3, OneMoves
    <2> QED BY <2>1, <2>2, <2>3, <2>4
<1>3. ASSUME NEW l \in Launchers, RemoveTarget(l) PROVE DeviceInv'
    <2> DEFINE i == setup[l].next
               target == ResetTargets[i]
               gone == keptFrom' = [keptFrom EXCEPT ![target] = NoContext]
    <2>0. /\ setup[l] \in PassedBy /\ setup[l].stage = "removing"
          /\ i \in 1..Len(ResetTargets) /\ target \in Targets
          /\ UNCHANGED <<machine, stateFile, legacy>>
        BY <1>0, <1>3 DEF RemoveTarget, PassedBy
    <2>1. /\ setup' \in [Launchers -> PassedBy] /\ setup'[l].stage = "removing" /\ setup'[l].next = i + 1
          /\ \A k \in Launchers : setup'[k].stage = setup[k].stage /\ setup'[k].create = setup[k].create
          /\ \A k \in Launchers : k # l => setup'[k] = setup[k]
        <3>1. CASE setup' = [setup EXCEPT ![l].next = @ + 1]
            BY <1>0, <2>0, <3>1 DEF PassedBy
        <3>2. CASE setup' = [setup EXCEPT ![l].next = @ + 1, ![l].failed = TRUE]
            <4> DEFINE p == [setup[l] EXCEPT !.next = @ + 1, !.failed = TRUE]
            <4>1. setup' = [setup EXCEPT ![l] = p]
                BY <1>0, <3>2
            <4>2. /\ p \in PassedBy /\ p.stage = "removing" /\ p.next = i + 1
                  /\ p.create = setup[l].create
                <5> DEFINE q == [setup[l] EXCEPT !.next = @ + 1]
                <5>1. q \in PassedBy /\ q.stage = "removing" /\ q.next = i + 1 /\ q.create = setup[l].create
                    BY <2>0 DEF PassedBy
                <5>2. p = [q EXCEPT !.failed = TRUE]
                    OBVIOUS
                <5> HIDE DEF q, p
                <5> QED BY <5>1, <5>2 DEF PassedBy
            <4> HIDE DEF p
            <4> QED BY <1>0, <2>0, <4>1, <4>2
        <3> QED BY <1>3, <3>1, <3>2 DEF RemoveTarget
    <2>2. /\ keptFrom' \in [Targets -> Contexts \cup {NoContext}]
          /\ \A t \in Targets : keptFrom'[t] \in {NoContext, keptFrom[t]}
        BY <1>0, <1>3, <2>0 DEF RemoveTarget, DeviceTypeOK
    <2>3. ~setup'[l].failed => ~setup[l].failed /\ keptFrom'[target] = NoContext
        <3>1. CASE gone /\ setup' = [setup EXCEPT ![l].next = @ + 1]
            BY <1>0, <2>0, <3>1 DEF PassedBy, DeviceTypeOK
        <3>2. CASE setup' = [setup EXCEPT ![l].next = @ + 1, ![l].failed = TRUE]
            <4>1. setup' = [setup EXCEPT ![l] = [setup[l] EXCEPT !.next = @ + 1, !.failed = TRUE]]
                BY <1>0, <3>2
            <4>2. setup'[l].failed = TRUE
                BY <1>0, <2>0, <4>1 DEF PassedBy
            <4> QED BY <4>2
        <3> QED BY <1>3, <3>1, <3>2 DEF RemoveTarget
    <2>4. DeviceTypeOK'
        BY <1>0, <2>0, <2>1, <2>2 DEF DeviceTypeOK, PassedBy, Stages
    <2>5. FilesFollowState' /\ CleanedIsOwn'
        BY <1>0, <2>0, <2>1, <2>2 DEF FilesFollowState, CleanedIsOwn, OnlyFrom
    <2>6. WaitingIsFresh' /\ FoundIsOwn' /\ ReadyIsBound'
        BY <1>0, <2>0, <2>1 DEF WaitingIsFresh, FoundIsOwn, ReadyIsBound
    <2>7. PassedIsGone'
        <3> SUFFICES ASSUME NEW k \in Launchers, setup'[k].stage = "removing", ~setup'[k].failed,
                            NEW n \in 1..setup'[k].next - 1
                     PROVE  keptFrom'[ResetTargets[n]] \in {NoContext, machine}
            BY <2>0 DEF PassedIsGone
        <3>1. ResetTargets[n] \in Targets /\ n \in 1..Len(ResetTargets)
            BY <2>1 DEF PassedBy
        <3>2. CASE k # l
            <4>1. keptFrom[ResetTargets[n]] \in {NoContext, machine}
                BY <1>0, <2>1, <3>2 DEF PassedIsGone
            <4> QED BY <2>2, <3>1, <4>1
        <3>3. CASE k = l /\ n = i
            BY <2>3, <3>3
        <3>4. CASE k = l /\ n # i
            <4>1. n \in 1..setup[l].next - 1 /\ ~setup[l].failed
                BY <2>0, <2>1, <2>3, <3>4
            <4>2. keptFrom[ResetTargets[n]] \in {NoContext, machine}
                BY <1>0, <2>0, <4>1 DEF PassedIsGone
            <4> QED BY <2>2, <3>1, <4>2
        <3> QED BY <3>2, <3>3, <3>4
    <2> QED BY <2>4, <2>5, <2>6, <2>7 DEF DeviceInv
<1>4. ASSUME NEW l \in Launchers, EndReset(l) PROVE DeviceInv'
    <2>1. UNCHANGED <<machine, stateFile, keptFrom, legacy>>
        BY <1>4 DEF EndReset
    <2>2. CASE Ends(l)
        BY <2>1, <2>2, EndKeeps
    <2>3. CASE ~setup[l].failed /\ Becomes(l, "cleaning")
        <3>1. setup[l].stage = "removing" /\ setup[l].next = Len(ResetTargets) + 1
            BY <1>0, <1>4 DEF EndReset, PassedBy
        <3>2. OnlyFrom(machine)
            BY <1>0, <2>3, <3>1 DEF PassedIsGone, OnlyFrom
        <3>3. setup[l].create
            BY <1>0, <3>1 DEF WaitingIsFresh
        <3> QED BY <1>0, <2>1, <2>3, <3>2, <3>3, BecomesKeeps DEF Stages
    <2> QED BY <1>4, <2>2, <2>3 DEF EndReset
<1>5. ASSUME NEW l \in Launchers, CleanLegacy(l) PROVE DeviceInv'
    <2>1. UNCHANGED <<machine, stateFile, keptFrom>> /\ setup[l].stage = "cleaning" /\ OnlyFrom(machine)
        BY <1>0, <1>5 DEF CleanLegacy, CleanedIsOwn
    <2>2. CASE UNCHANGED legacy /\ Ends(l)
        BY <2>1, <2>2, EndKeeps
    <2>3. CASE legacy' = FALSE /\ setup[l].create /\ Becomes(l, "creating")
        BY <2>1, <2>3, BecomesKeeps DEF Stages
    <2>4. CASE legacy' = FALSE /\ ~setup[l].create /\ Becomes(l, "ready")
        <3>1. stateFile = machine
            BY <1>0, <2>1, <2>4 DEF FoundIsOwn
        <3> QED BY <2>1, <2>4, <3>1, BecomesKeeps DEF Stages
    <2> QED BY <1>5, <2>2, <2>3, <2>4 DEF CleanLegacy
<1>6. ASSUME NEW l \in Launchers, CreateState(l) PROVE DeviceInv'
    <2>1. UNCHANGED <<machine, keptFrom, legacy>> /\ setup[l].stage = "creating" /\ OnlyFrom(machine)
        BY <1>0, <1>6 DEF CreateState, CleanedIsOwn
    <2>2. CASE UNCHANGED stateFile /\ Ends(l)
        BY <2>1, <2>2, EndKeeps
    <2>3. CASE stateFile' = machine /\ Becomes(l, "ready")
        <3>1. /\ setup' \in [Launchers -> PassedBy] /\ setup'[l].stage = "ready"
              /\ \A k \in Launchers : k # l => setup'[k] = setup[k]
            BY <1>0, <2>3 DEF Becomes, PassedBy, Stages
        <3>2. DeviceTypeOK' /\ FilesFollowState'
            BY <1>0, <2>1, <2>3, <3>1 DEF DeviceTypeOK, PassedBy, Stages, FilesFollowState, OnlyFrom
        <3>3. WaitingIsFresh' /\ PassedIsGone'
            BY <1>0, <2>1, <3>1 DEF WaitingIsFresh, PassedIsGone
        <3>4. CleanedIsOwn' /\ FoundIsOwn'
            BY <1>0, <2>1, <2>3, <3>1 DEF CleanedIsOwn, FoundIsOwn, OnlyFrom
        <3>5. ReadyIsBound'
            BY <1>0, <2>1, <2>3, <3>1 DEF ReadyIsBound
        <3> QED BY <3>2, <3>3, <3>4, <3>5 DEF DeviceInv
    <2> QED BY <1>6, <2>2, <2>3 DEF CreateState
<1>7. ASSUME NEW l \in Launchers, TakeInstance(l) PROVE DeviceInv'
    <2>1. UNCHANGED <<machine, stateFile, keptFrom, legacy>> /\ setup[l].stage = "ready"
        BY <1>7 DEF TakeInstance
    <2>2. stateFile = machine /\ ~legacy
        BY <1>0, <2>1 DEF ReadyIsBound
    <2>3. CASE Ends(l)
        BY <2>1, <2>3, EndKeeps
    <2>4. CASE Becomes(l, "running")
        BY <1>0, <2>1, <2>2, <2>4, BecomesKeeps DEF Stages
    <2> QED BY <1>7, <2>3, <2>4 DEF TakeInstance
<1>8. ASSUME NEW l \in Launchers, WriteTarget(l) PROVE DeviceInv'
    <2>1. UNCHANGED <<machine, stateFile, legacy, setup>> /\ stateFile = machine
        BY <1>0, <1>8 DEF WriteTarget, ReadyIsBound
    <2>2. /\ keptFrom' \in [Targets -> Contexts \cup {NoContext}]
          /\ \A t \in Targets : keptFrom'[t] \in {keptFrom[t], machine}
        BY <1>0, <1>8 DEF WriteTarget, DeviceTypeOK
    <2>3. DeviceTypeOK' /\ FilesFollowState' /\ CleanedIsOwn'
        BY <1>0, <2>1, <2>2 DEF DeviceTypeOK, FilesFollowState, CleanedIsOwn, OnlyFrom
    <2>4. PassedIsGone'
        BY <1>0, <2>1, <2>2 DEF PassedIsGone, PassedBy
    <2>5. WaitingIsFresh' /\ FoundIsOwn' /\ ReadyIsBound'
        BY <1>0, <2>1 DEF WaitingIsFresh, FoundIsOwn, ReadyIsBound
    <2> QED BY <2>3, <2>4, <2>5 DEF DeviceInv
<1>9. ASSUME NEW l \in Launchers, LauncherEnds(l) PROVE DeviceInv'
    BY <1>9, EndKeeps DEF LauncherEnds
<1>10. CASE MoveDirectory
    <2>1. /\ machine' \in Contexts /\ UNCHANGED <<stateFile, keptFrom, legacy, setup>>
          /\ stateFile # NoContext /\ \A l \in Launchers : setup[l].stage = "none"
        BY <1>10 DEF MoveDirectory, Unattended
    <2> QED BY <2>1 DEF DeviceInv, DeviceTypeOK, FilesFollowState, WaitingIsFresh, PassedIsGone,
                        CleanedIsOwn, FoundIsOwn, ReadyIsBound, OnlyFrom
<1>11. CASE DamageState
    <2>1. /\ stateFile' = Damaged /\ UNCHANGED <<machine, keptFrom, legacy, setup>>
          /\ \A l \in Launchers : setup[l].stage = "none"
        BY <1>11 DEF DamageState, Unattended
    <2> QED BY <2>1 DEF DeviceInv, DeviceTypeOK, FilesFollowState, WaitingIsFresh, PassedIsGone,
                        CleanedIsOwn, FoundIsOwn, ReadyIsBound, OnlyFrom
<1>12. CASE UNCHANGED deviceVars
    BY <1>12 DEF deviceVars, DeviceInv, DeviceTypeOK, FilesFollowState, WaitingIsFresh,
       PassedIsGone, CleanedIsOwn, FoundIsOwn, ReadyIsBound, OnlyFrom
<1> QED BY <1>1, <1>2, <1>3, <1>4, <1>5, <1>6, <1>7, <1>8, <1>9, <1>10, <1>11, <1>12 DEF DeviceNext

\* A program that runs is ready, so the state is this machine's and the files follow it.
LEMMA InvImpliesForeignIsGone == DeviceInv => ForeignIsGone
BY ContextsAssumption DEF DeviceInv, DeviceTypeOK, FilesFollowState, ReadyIsBound, OnlyFrom,
   ForeignIsGone, Running

\* Whatever failed, died or was copied before, a program that runs finds nothing of
\* another context in the files of a reset, and no keys of earlier versions
\* (initializer.go:53-98).
THEOREM ForeignStaysOut == DeviceSpec => [](DeviceTypeOK /\ ForeignIsGone)
<1>1. DeviceInv => DeviceTypeOK /\ ForeignIsGone
    BY InvImpliesForeignIsGone DEF DeviceInv
<1> QED BY InitHolds, NextKeeps, <1>1, PTL DEF DeviceSpec

-----------------------------------------------------------------------------
(* The program (Lifecycle).                                                *)

Asking ==
    [by : {"nobody", "window", "tray", "login", "restore"}, mode : {"off", "proxy", "tun"},
     at : {"none", "asked", "begun", "preparing", "prepared", "enabled", "recover"}, switch : BOOLEAN]
OurWindow == [slot : {"none", "live", "gone"}, alive : {0, 1}, visible : BOOLEAN, leaving : Nat, event : BOOLEAN]
Served == serviceRun \in {"ready", "closing", "done"}
Admitted == request.at \notin {"none", "asked"}

LifeTyped == LifeTypeOK /\ request \in Asking

\* The process of the window is the one in the slot of its manager.
OnlyInSlot == window \in OurWindow /\ (window.alive = 1 <=> window.slot = "live")

\* Whoever can ask was started after the Service.
ServedFirst ==
    /\ launcher \notin {"service", "fatal"} \/ agentRun # "absent" \/ tray # "absent" \/ request.at # "none" => Served
    /\ launcher = "service" => agentRun = "absent" /\ tray = "absent" /\ request.at = "none"

\* Who has the connection transaction.
HolderIsKnown ==
    /\ holder = "request" <=> Admitted
    /\ holder = "recovery" => agentRun = "recovering"
    /\ holder = "shutdown" <=> agentRun = "draining"

\* What a shutdown has undone, only a late request does again.
LateOnly ==
    /\ agentRun = "done" /\ (windows.proxy \/ Admitted) => "agent" \in tardy
    /\ serviceRun = "done" /\ (windows.network \/ request.at = "preparing") => "service" \in tardy

JoinedFirst == launcher = "exited" => agentRun \in Finished /\ serviceRun \in Finished

LifeInv == LifeTyped /\ OnlyInSlot /\ ServedFirst /\ HolderIsKnown /\ LateOnly /\ JoinedFirst

LEMMA NobodyAsks ==
    /\ NoRequest \in Asking /\ NoRequest.at = "none"
    /\ NoWindow \in OurWindow /\ NoWindow.alive = 0 /\ NoWindow.slot = "none"
    /\ Clean \in [proxy : BOOLEAN, network : BOOLEAN] /\ ~Clean.proxy /\ ~Clean.network
  BY DEF NoRequest, Asking, NoWindow, OurWindow, Clean

LEMMA LifeInitInv == LifeInit => LifeInv
  BY NobodyAsks
  DEF LifeInit, LifeInv, LifeTyped, LifeTypeOK, OnlyInSlot, ServedFirst, HolderIsKnown, LateOnly, JoinedFirst, Served, Admitted,
      Over, Finished

\* What the window does touches nothing else.
LEMMA WindowMoves ==
    ASSUME LifeInv, UNCHANGED <<launcher, serviceRun, agentRun, tray, ended, holder, request, windows, tardy>>, OnlyInSlot'
    PROVE  LifeInv'
  BY DEF LifeInv, LifeTyped, LifeTypeOK, ServedFirst, HolderIsKnown, LateOnly, JoinedFirst,
     Served, Admitted

LEMMA ShowsOne == ASSUME OnlyInSlot, NEW ok \in BOOLEAN, Show(ok) PROVE OnlyInSlot'
<1>1. CASE StartWindow /\ window.slot # "live"
  <2>1. window' = [window EXCEPT !.slot = "live", !.alive = @ + 1, !.visible = FALSE] /\ window.alive = 0 /\ window \in OurWindow
    BY <1>1 DEF StartWindow, OnlyInSlot, OurWindow
  <2>2. window' = [window EXCEPT !.slot = "live", !.alive = 1, !.visible = FALSE]
    BY <2>1
  <2> QED
    BY <2>1, <2>2 DEF OnlyInSlot, OurWindow
<1>2. CASE UNCHANGED window
  BY <1>2 DEF OnlyInSlot
<1> QED
  BY <1>1, <1>2 DEF Show

LEMMA EndsOne == ASSUME OnlyInSlot, window.slot = "live", window' = ProcessEnded PROVE OnlyInSlot'
<1>1. window \in OurWindow /\ window.alive = 1 /\ window.leaving \in Nat
  BY DEF OnlyInSlot, OurWindow
<1> DEFINE left == window.leaving + 1
<1>2. window' = [window EXCEPT !.alive = 0, !.visible = FALSE, !.leaving = left, !.slot = "gone"] /\ left \in Nat
  BY <1>1 DEF ProcessEnded
<1> HIDE DEF left
<1>3. window' \in OurWindow
  BY <1>1, <1>2 DEF OurWindow
<1>4. window'.alive = 0 /\ window'.slot = "gone"
  BY <1>1, <1>2 DEF OurWindow
<1> QED
  BY <1>3, <1>4 DEF OnlyInSlot

LEMMA WindowKeeps == ASSUME LifeInv, AskWindow \/ WindowAppears \/ WindowCloses \/ Observe PROVE LifeInv'
<1>1. OnlyInSlot
  BY DEF LifeInv
<1>2. CASE AskWindow
  BY <1>1, <1>2, ShowsOne, WindowMoves DEF AskWindow
<1>3. CASE WindowAppears
  <2>1. OnlyInSlot'
    BY <1>1, <1>3 DEF WindowAppears, OnlyInSlot, OurWindow
  <2> QED
    BY <1>3, <2>1, WindowMoves DEF WindowAppears
<1>4. CASE WindowCloses
  BY <1>1, <1>4, EndsOne, WindowMoves DEF WindowCloses
<1>5. CASE Observe
  <2>1. PICK own \in BOOLEAN :
           /\ IF own THEN window.slot = "gone" ELSE window.leaving > (IF window.slot = "gone" THEN 1 ELSE 0)
           /\ window' = [window EXCEPT !.leaving = @ - 1, !.event = TRUE, !.slot = IF own THEN "none" ELSE @]
    BY <1>5 DEF Observe
  <2>2. window.leaving > 0 /\ window \in OurWindow
    BY <1>1, <1>5 DEF Observe, OnlyInSlot
  <2> DEFINE left == window.leaving - 1
             slot == IF own THEN "none" ELSE window.slot
  <2>3. window' = [window EXCEPT !.leaving = left, !.event = TRUE, !.slot = slot] /\ left \in Nat /\ slot \in {"none", "live", "gone"}
    BY <2>1, <2>2 DEF OurWindow
  <2>4. window' \in OurWindow /\ window'.alive = window.alive /\ window'.slot = slot
    <3> HIDE DEF left, slot
    <3> QED
      BY <2>2, <2>3 DEF OurWindow
  <2>5. OnlyInSlot'
    BY <1>1, <2>1, <2>4 DEF OnlyInSlot
  <2> QED
    BY <1>5, <2>5, WindowMoves DEF Observe
<1> QED
  BY <1>2, <1>3, <1>4, <1>5

LEMMA StartKeepsLife == ASSUME LifeInv, CreateAgent \/ FirstWindow \/ StartTray PROVE LifeInv'
<1> USE DEF LifeInv
<1>1. CASE CreateAgent
  BY <1>1
  DEF CreateAgent, LifeTyped, LifeTypeOK, OnlyInSlot, ServedFirst, HolderIsKnown, LateOnly, JoinedFirst, Served, Admitted, Over, Finished
<1>2. CASE FirstWindow
  <2>1. OnlyInSlot'
    BY <1>2, ShowsOne DEF FirstWindow, OnlyInSlot
  <2>2. /\ launcher = "show" /\ launcher' \in {"tray", "fatal"}
        /\ UNCHANGED <<serviceRun, agentRun, tray, ended, holder, request, windows, tardy>>
    BY <1>2 DEF FirstWindow
  <2> QED
    BY <2>1, <2>2 DEF LifeTyped, LifeTypeOK, ServedFirst, HolderIsKnown, LateOnly, JoinedFirst,
       Served, Admitted, Over, Finished
<1>3. CASE StartTray
  <2>1. OnlyInSlot'
    BY <1>3, ShowsOne DEF StartTray, OnlyInSlot
  <2>2. /\ launcher = "tray" /\ launcher' \in {"wait", "fatal"} /\ tray' \in {"up", "missing"}
        /\ UNCHANGED <<serviceRun, agentRun, ended, holder, request, windows, tardy>>
    BY <1>3 DEF StartTray
  <2> QED
    BY <2>1, <2>2 DEF LifeTyped, LifeTypeOK, ServedFirst, HolderIsKnown, LateOnly, JoinedFirst,
       Served, Admitted, Over, Finished
<1> QED
  BY <1>1, <1>2, <1>3

\* What most steps leave alone.
LEMMA SameWindow == ASSUME LifeInv, UNCHANGED window PROVE OnlyInSlot'
  BY DEF LifeInv, OnlyInSlot

LEMMA StopKeepsLife ==
    ASSUME LifeInv, Interrupt \/ RequestExit \/ WakeUp \/ CloseTray \/ DisableProxy \/ CancelAgent \/ StopWindow \/ Join \/ ForceExit
    PROVE  LifeInv'
<1> USE DEF LifeInv
<1>1. CASE Interrupt \/ RequestExit
  <2>1. UNCHANGED <<launcher, serviceRun, agentRun, tray, holder, request, windows, window, tardy>>
    BY <1>1 DEF Interrupt, RequestExit
  <2>2. ended' \subseteq {"signal", "exit", "agent", "service"}
    BY <1>1 DEF Interrupt, RequestExit, LifeTyped, LifeTypeOK
  <2> QED
    BY <2>1, <2>2, SameWindow
    DEF LifeTyped, LifeTypeOK, ServedFirst, HolderIsKnown, LateOnly, JoinedFirst, Served, Admitted
<1>2. CASE WakeUp \/ CloseTray \/ DisableProxy \/ CancelAgent \/ StopWindow \/ Join \/ ForceExit
  <2>1. /\ UNCHANGED <<serviceRun, agentRun, holder, request, tardy>>
        /\ launcher \in {"wait", "close", "disable", "cancel", "kill", "join"}
        /\ launcher' \in {"close", "disable", "cancel", "kill", "join"} \cup Over /\ launcher' # "fatal"
        /\ launcher' = "exited" => agentRun \in Finished /\ serviceRun \in Finished
    BY <1>2 DEF WakeUp, CloseTray, DisableProxy, CancelAgent, StopWindow, Join, ForceExit, Over
  <2>2. tray' \in {tray, "closed"} /\ ended' \subseteq {"signal", "exit", "agent", "service"}
    BY <1>2 DEF WakeUp, CloseTray, DisableProxy, CancelAgent, StopWindow, Join, ForceExit,
       LifeTyped, LifeTypeOK
  <2>3. /\ windows' \in [proxy : BOOLEAN, network : BOOLEAN]
        /\ windows'.network = windows.network /\ (windows'.proxy => windows.proxy)
    BY <1>2 DEF WakeUp, CloseTray, DisableProxy, CancelAgent, StopWindow, Join, ForceExit,
       LifeTyped, LifeTypeOK
  <2>4. OnlyInSlot'
    BY <1>2, SameWindow, EndsOne DEF WakeUp, CloseTray, DisableProxy, CancelAgent, StopWindow,
       Join, ForceExit
  <2>5. Served
    BY <2>1 DEF ServedFirst
  <2>6. LifeTyped' /\ JoinedFirst'
    BY <2>1, <2>2, <2>3 DEF LifeTyped, LifeTypeOK, JoinedFirst
  <2>7. ServedFirst' /\ HolderIsKnown' /\ LateOnly'
    BY <2>1, <2>3, <2>5 DEF ServedFirst, HolderIsKnown, LateOnly, Served, Admitted, Over
  <2> QED
    BY <2>4, <2>6, <2>7
<1> QED
  BY <1>1, <1>2

LEMMA StartAgainKeeps == ASSUME LifeInv, StartAgain PROVE LifeInv'
  BY NobodyAsks
  DEF StartAgain, LifeInv, LifeTyped, LifeTypeOK, OnlyInSlot, ServedFirst, HolderIsKnown, LateOnly, JoinedFirst, Served,
      Admitted, Over, Finished

LEMMA ServiceKeepsLife == ASSUME LifeInv, ServiceRuns PROVE LifeInv'
<1> USE DEF LifeInv
<1>1. /\ UNCHANGED <<launcher, agentRun, tray, ended, holder, request, window, tardy>> /\ launcher \notin Over
      /\ windows \in [proxy : BOOLEAN, network : BOOLEAN]
      /\ \/ serviceRun = "recovering" /\ serviceRun' = "ready" /\ windows' = [windows EXCEPT !.network = FALSE]
         \/ serviceRun = "recovering" /\ serviceRun' = "failed" /\ windows' = windows
         \/ serviceRun = "ready" /\ serviceRun' = "closing" /\ windows' = windows
         \/ /\ serviceRun = "closing" /\ serviceRun' = "done" /\ windows' = [windows EXCEPT !.network = FALSE]
            /\ request.at # "preparing"
  BY DEF ServiceRuns, StartService, LeaveService, ShutdownService, Alive, LifeTyped, LifeTypeOK
<1>2. windows' \in [proxy : BOOLEAN, network : BOOLEAN] /\ windows'.proxy = windows.proxy
  BY <1>1
<1>3. LifeTyped' /\ JoinedFirst'
  BY <1>1, <1>2 DEF LifeTyped, LifeTypeOK, JoinedFirst, Over, Finished
<1>4. ServedFirst' /\ HolderIsKnown' /\ LateOnly'
  BY <1>1, <1>2 DEF ServedFirst, HolderIsKnown, LateOnly, Served, Admitted
<1> QED
  BY <1>1, <1>3, <1>4, SameWindow

LEMMA AgentKeepsLife == ASSUME LifeInv, AgentRuns PROVE LifeInv'
<1> USE DEF LifeInv
<1>1. /\ UNCHANGED <<launcher, serviceRun, tray, ended, window, tardy>> /\ launcher \notin Over
      /\ agentRun \in {"opening", "recovering", "login", "connecting", "watching", "closing", "draining"}
      /\ windows \in [proxy : BOOLEAN, network : BOOLEAN]
  BY DEF AgentRuns, OpenPipe, BeginRecovery, EndRecovery, LoginConnect, LoginDone, LeaveAgent,
     BeginShutdown, ShutdownAgent, Alive, LifeTyped, LifeTypeOK
<1>2. /\ windows' \in [proxy : BOOLEAN, network : BOOLEAN] /\ windows'.network = windows.network
      /\ windows'.proxy => windows.proxy
  BY <1>1 DEF AgentRuns, OpenPipe, BeginRecovery, EndRecovery, LoginConnect, LoginDone,
     LeaveAgent, BeginShutdown, ShutdownAgent
<1>3. Served /\ Served' /\ launcher # "service"
  BY <1>1 DEF ServedFirst, Served
<1>4. ASSUME agentRun' \in {"opening", "recovering", "login", "connecting", "watching", "closing", "draining"} \cup Finished,
             holder' \in {"none", "recovery", "request", "shutdown"}, request' \in Asking, HolderIsKnown', LateOnly'
      PROVE  LifeInv'
  <2>1. LifeTyped' /\ JoinedFirst'
    BY <1>1, <1>2, <1>4 DEF LifeTyped, LifeTypeOK, JoinedFirst, Over
  <2>2. ServedFirst'
    BY <1>1, <1>3 DEF ServedFirst
  <2> QED
    BY <1>1, <1>4, <2>1, <2>2, SameWindow
<1>5. request \in Asking /\ holder \in {"none", "recovery", "request", "shutdown"}
  BY DEF LifeTyped, LifeTypeOK
<1>6. CASE OpenPipe
  BY <1>2, <1>4, <1>5, <1>6 DEF OpenPipe, HolderIsKnown, LateOnly, Admitted, Finished
<1>7. CASE BeginRecovery
  BY <1>2, <1>4, <1>5, <1>7 DEF BeginRecovery, HolderIsKnown, LateOnly, Admitted
<1>8. CASE EndRecovery
  BY <1>2, <1>4, <1>5, <1>8 DEF EndRecovery, HolderIsKnown, LateOnly, Admitted
<1>9. CASE LoginConnect
  <2>1. request' \in Asking /\ request'.at = "asked"
    BY <1>9, NobodyAsks DEF LoginConnect, Asking
  <2> QED
    BY <1>1, <1>2, <1>4, <1>5, <1>9, <2>1 DEF LoginConnect, HolderIsKnown, LateOnly, Admitted
<1>10. CASE LoginDone
  BY <1>2, <1>4, <1>5, <1>10 DEF LoginDone, HolderIsKnown, LateOnly, Admitted
<1>11. CASE LeaveAgent
  BY <1>2, <1>4, <1>5, <1>11 DEF LeaveAgent, HolderIsKnown, LateOnly, Admitted
<1>12. CASE BeginShutdown
  BY <1>2, <1>4, <1>5, <1>12 DEF BeginShutdown, HolderIsKnown, LateOnly, Admitted
<1>13. CASE ShutdownAgent
  <2>1. agentRun = "draining" /\ agentRun' = "done" /\ holder = "shutdown" /\ holder' = "none" /\ request' = request /\ ~windows'.proxy
    BY <1>1, <1>13 DEF ShutdownAgent, HolderIsKnown
  <2> QED
    BY <1>1, <1>2, <1>4, <1>5, <2>1 DEF HolderIsKnown, LateOnly, Admitted, Finished
<1> QED
  BY <1>6, <1>7, <1>8, <1>9, <1>10, <1>11, <1>12, <1>13 DEF AgentRuns

\* A request that is under way moves on, or ends.
LEMMA RequestMoves ==
    ASSUME LifeInv, UNCHANGED <<launcher, serviceRun, agentRun, tray, ended, window>>, launcher \notin Over,
           request.at # "none", request' \in Asking, holder' \in {"none", "recovery", "request", "shutdown"},
           windows' \in [proxy : BOOLEAN, network : BOOLEAN], tardy' \subseteq {"agent", "service"},
           HolderIsKnown', LateOnly'
    PROVE  LifeInv'
<1>1. LifeTyped' /\ JoinedFirst'
  BY DEF LifeInv, LifeTyped, LifeTypeOK, JoinedFirst, Over
<1>2. ServedFirst'
  BY DEF LifeInv, ServedFirst, Served
<1> QED
  BY <1>1, <1>2, SameWindow DEF LifeInv

LEMMA RequestKeepsLife == ASSUME LifeInv, RequestRuns PROVE LifeInv'
<1> USE DEF LifeInv
<1>1. /\ UNCHANGED <<launcher, serviceRun, agentRun, tray, ended, window>> /\ launcher \notin Over /\ request.at # "none"
  BY DEF RequestRuns, Admit, RefuseRequest, Call, PrepareCapture, EnableCapture, VerifyCapture,
     RecoverCapture, Alive
<1>2. /\ request \in Asking /\ holder \in {"none", "recovery", "request", "shutdown"} /\ tardy \subseteq {"agent", "service"}
      /\ windows \in [proxy : BOOLEAN, network : BOOLEAN]
  BY DEF LifeTyped, LifeTypeOK
<1>3. CASE Admit
  <2>1. request' \in Asking /\ request'.at = "begun" /\ request.at = "asked"
    BY <1>2, <1>3 DEF Admit, Asking
  <2>2. tardy \subseteq tardy' /\ tardy' \subseteq {"agent", "service"} /\ (agentRun = "done" => "agent" \in tardy')
    BY <1>2, <1>3 DEF Admit
  <2> QED
    BY <1>1, <1>2, <1>3, <2>1, <2>2, RequestMoves DEF Admit, HolderIsKnown, LateOnly, Admitted
<1>4. CASE RefuseRequest
  BY <1>1, <1>2, <1>4, NobodyAsks, RequestMoves DEF RefuseRequest, HolderIsKnown, LateOnly, Admitted
<1>5. ASSUME EndRequest, Admitted, windows' \in [proxy : BOOLEAN, network : BOOLEAN], windows'.proxy => windows.proxy,
             windows'.network => windows.network, UNCHANGED tardy PROVE LifeInv'
  BY <1>1, <1>2, <1>5, NobodyAsks, RequestMoves DEF EndRequest, HolderIsKnown, LateOnly, Admitted
<1>6. CASE Call
  <2>1. Admitted /\ holder = "request" /\ request.at = "begun" /\ UNCHANGED windows
    BY <1>6 DEF Call, Admitted, HolderIsKnown
  <2>2. CASE EndRequest /\ UNCHANGED tardy
    BY <1>2, <1>5, <2>1, <2>2
  <2>3. CASE /\ request' = [request EXCEPT !.at = "preparing", !.mode = Mode] /\ UNCHANGED holder
             /\ tardy' = IF serviceRun = "done" THEN tardy \cup {"service"} ELSE tardy
    <3>1. Mode \in {"off", "proxy", "tun"}
      BY <1>2 DEF Mode, Asking
    <3>2. request' \in Asking /\ request'.at = "preparing"
      BY <1>2, <2>3, <3>1 DEF Asking
    <3>3. tardy \subseteq tardy' /\ tardy' \subseteq {"agent", "service"} /\ (serviceRun = "done" => "service" \in tardy')
      BY <1>2, <2>3
    <3> QED
      BY <1>1, <1>2, <2>1, <2>3, <3>2, <3>3, RequestMoves DEF HolderIsKnown, LateOnly, Admitted
  <2> QED
    BY <1>6, <2>2, <2>3 DEF Call
<1>7. ASSUME NEW a \in {"prepared", "enabled", "recover"}, request' = [request EXCEPT !.at = a], Admitted, UNCHANGED <<holder, tardy>>,
             windows' \in [proxy : BOOLEAN, network : BOOLEAN],
             windows'.network => windows.network \/ request.at = "preparing"
      PROVE  LifeInv'
  <2>1. request' \in Asking /\ request'.at = a
    BY <1>2, <1>7 DEF Asking
  <2> QED
    BY <1>1, <1>2, <1>7, <2>1, RequestMoves DEF HolderIsKnown, LateOnly, Admitted
<1>8. CASE PrepareCapture
  <2> DEFINE routes == request.mode = "tun"
  <2>1. /\ Admitted /\ request.at = "preparing" /\ UNCHANGED <<holder, tardy>>
        /\ windows' = [proxy |-> FALSE, network |-> routes] \/ windows' = Clean
    BY <1>8 DEF PrepareCapture, Admitted
  <2>2. windows' \in [proxy : BOOLEAN, network : BOOLEAN]
    <3>1. routes \in BOOLEAN
      OBVIOUS
    <3> HIDE DEF routes
    <3>2. [proxy |-> FALSE, network |-> routes] \in [proxy : BOOLEAN, network : BOOLEAN]
      BY <3>1
    <3> QED
      BY <2>1, <3>2, NobodyAsks
  <2> QED
    BY <1>7, <1>8, <2>1, <2>2 DEF PrepareCapture, Failing
<1>9. CASE EnableCapture
  <2>1. /\ Admitted /\ UNCHANGED <<holder, tardy>> /\ windows' \in [proxy : BOOLEAN, network : BOOLEAN]
        /\ windows'.network = windows.network
    BY <1>2, <1>9 DEF EnableCapture, Admitted
  <2> QED
    BY <1>7, <1>9, <2>1 DEF EnableCapture, Failing
<1>10. CASE VerifyCapture
  <2>1. Admitted /\ UNCHANGED <<windows, tardy>>
    BY <1>10 DEF VerifyCapture, Admitted
  <2> QED
    BY <1>2, <1>5, <1>7, <1>10, <2>1 DEF VerifyCapture, Failing
<1>11. CASE RecoverCapture
  <2>1. /\ Admitted /\ UNCHANGED tardy /\ windows' = Clean
        /\ windows' \in [proxy : BOOLEAN, network : BOOLEAN] /\ ~windows'.proxy /\ ~windows'.network
    BY <1>11, NobodyAsks DEF RecoverCapture, Admitted
  <2>2. CASE request' = [request EXCEPT !.by = "restore", !.at = "begun", !.switch = FALSE] /\ UNCHANGED holder
    <3>1. request' \in Asking /\ request'.at = "begun"
      BY <1>2, <2>2 DEF Asking
    <3> QED
      BY <1>1, <1>2, <2>1, <2>2, <3>1, RequestMoves DEF HolderIsKnown, LateOnly, Admitted
  <2>3. CASE EndRequest
    BY <1>5, <2>1, <2>3
  <2> QED
    BY <1>11, <2>2, <2>3 DEF RecoverCapture
<1> QED
  BY <1>3, <1>4, <1>6, <1>8, <1>9, <1>10, <1>11 DEF RequestRuns

LEMMA AskKeepsLife == ASSUME LifeInv, AskCapture PROVE LifeInv'
<1> USE DEF LifeInv
<1>1. /\ UNCHANGED <<launcher, serviceRun, agentRun, tray, ended, holder, windows, window, tardy>> /\ request.at = "none"
      /\ agentRun # "absent" \/ tray # "absent"
      /\ request' \in Asking /\ request'.at = "asked"
  BY DEF AskCapture, Asking
<1>2. Served /\ launcher # "service"
  BY <1>1 DEF ServedFirst
<1>3. LifeTyped' /\ JoinedFirst'
  BY <1>1 DEF LifeTyped, LifeTypeOK, JoinedFirst
<1>4. ServedFirst' /\ HolderIsKnown' /\ LateOnly'
  BY <1>1, <1>2 DEF ServedFirst, HolderIsKnown, LateOnly, Served, Admitted
<1> QED
  BY <1>1, <1>3, <1>4, SameWindow

LEMMA LifeNextInv == LifeInv /\ [LifeNext]_lifeVars => LifeInv'
<1> SUFFICES ASSUME LifeInv, [LifeNext]_lifeVars PROVE LifeInv'
  OBVIOUS
<1>1. CASE UNCHANGED lifeVars
  BY <1>1, WindowMoves, SameWindow DEF lifeVars
<1>2. CASE Main
  BY <1>2, StartKeepsLife, StopKeepsLife DEF Main
<1>3. CASE ForceExit \/ StartAgain \/ Interrupt \/ RequestExit
  BY <1>3, StopKeepsLife, StartAgainKeeps
<1>4. CASE ServiceRuns \/ AgentRuns \/ AskCapture \/ RequestRuns
  BY <1>4, ServiceKeepsLife, AgentKeepsLife, AskKeepsLife, RequestKeepsLife
<1>5. CASE AskWindow \/ WindowAppears \/ WindowCloses \/ Observe
  BY <1>5, WindowKeeps
<1> QED
  BY <1>1, <1>2, <1>3, <1>4, <1>5 DEF LifeNext

LEMMA LifeSafe == LifeInv => LifeTypeOK /\ OneWindow /\ RecoveredFirst /\ ExitIsClean
<1> SUFFICES ASSUME LifeInv PROVE LifeTypeOK /\ OneWindow /\ RecoveredFirst /\ ExitIsClean
  OBVIOUS
<1>1. LifeTypeOK
  BY DEF LifeInv, LifeTyped
<1>2. OneWindow
  BY DEF LifeInv, OnlyInSlot, OurWindow, OneWindow
<1>3. RecoveredFirst
  BY DEF LifeInv, ServedFirst, Served, RecoveredFirst
<1>4. ExitIsClean
  <2> SUFFICES ASSUME launcher = "exited"
               PROVE  (windows.proxy => "agent" \in tardy \/ agentRun = "failed") /\ (windows.network => "service" \in tardy)
    BY DEF ExitIsClean
  <2>1. agentRun \in {"done", "failed"} /\ serviceRun = "done"
    BY DEF LifeInv, JoinedFirst, ServedFirst, Served, Finished
  <2> QED
    BY <2>1 DEF LifeInv, LateOnly
<1> QED
  BY <1>1, <1>2, <1>3, <1>4

-----------------------------------------------------------------------------
(* What Navo changes in Windows: one component runs, the others rest.      *)

WindowsInv == part \in WindowsParts /\ TypedInv /\ NetInv /\ LifeInv /\ DeviceInv

LEMMA WindowsBegin == WindowsInit => WindowsInv
  BY InitInv, InvIsTyped, InitiallyNetInv, LifeInitInv, InitHolds DEF WindowsInit, WindowsInv

\* What one component does is a step of it, and a stutter of the others.
LEMMA OneWindowsPartMoves ==
    [WindowsNext]_windowsVars =>
        /\ UNCHANGED part
        /\ [Next]_vars /\ [NetworkNext]_networkVars /\ [LifeNext]_lifeVars /\ [DeviceNext]_deviceVars
  BY DEF WindowsNext, windowsVars, ProxyPart, NetworkPart, LifePart, DevicePart

LEMMA WindowsKeep == WindowsInv /\ [WindowsNext]_windowsVars => WindowsInv'
  BY OneWindowsPartMoves, TypedStep, NetworkNextKeeps, LifeNextInv, NextKeeps DEF WindowsInv

\* The invariant of every component holds in every state.
THEOREM WindowsInvariant == WindowsSpec => []WindowsInv
  BY WindowsBegin, WindowsKeep, PTL DEF WindowsSpec

\* Once the program runs there is one window, the Service has recovered the network before
\* anybody reaches Windows, nothing of another context is left in the files of a reset, and
\* an exit that was not forced leaves neither proxy nor route, except of a request that was
\* taken after the shutdown of who serves it or of an Agent without a pipe; for any number of
\* requests, windows, launchers and starts (cmd/navo, internal/initialization, agent.go,
\* service.go).
THEOREM ProgramStaysSafe == WindowsSpec => []ProgramIsSafe
<1>1. WindowsInv => ProgramIsSafe
  BY LifeSafe, InvImpliesForeignIsGone DEF WindowsInv, ProgramIsSafe
<1> QED
  BY <1>1, WindowsInvariant, PTL

\* Every component keeps the types of its state, whichever runs
\* (internal/agent/systemproxy, internal/network, internal/initialization, cmd/navo).
THEOREM WindowsTypeCorrect == WindowsSpec => []WindowsTypeOK
<1>1. WindowsInv => WindowsTypeOK
  <2> SUFFICES ASSUME WindowsInv PROVE WindowsTypeOK
    OBVIOUS
  <2>1. TypeOK /\ NetworkTypeOK /\ LifeTypeOK /\ DeviceTypeOK
    BY LifeSafe DEF WindowsInv, TypedInv, NetInv, DeviceInv
  <2>2. part \in WindowsParts
    BY DEF WindowsInv
  <2> QED
    BY <2>1, <2>2 DEF WindowsTypeOK, WindowsParts
<1> QED
  BY <1>1, WindowsInvariant, PTL
=============================================================================
