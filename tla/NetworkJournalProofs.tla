------------------------ MODULE NetworkJournalProofs ------------------------
(* Theorems about NetworkJournal, for every plan, every number of sessions *)
(* and adapters and every number of failing commands, writes and crashes.  *)
EXTENDS NetworkJournal, SequenceTheorems, TLAPS

ResourceOf(entry) == [kind |-> entry.kind, id |-> entry.id]

-----------------------------------------------------------------------------
(* The inductive invariant.                                                *)

(* Whatever is in the system is on disk.                                   *)
Covered == place \subseteq Recorded

(* The rollback works on what it has in memory: that covers the system too *)
(* and, as long as nothing has failed, ends where the rollback is.  An     *)
(* entry is forgotten only when its resource is gone.                      *)
RollbackCovers ==
    /\ pc \in {"undo", "forget"} =>
          /\ index \in 0 .. Len(value) /\ place \subseteq Created(value)
          /\ ~failed => index = Len(value)
    /\ pc = "forget" =>
          /\ index # 0
          /\ value[index].own => ResourceOf(value[index]) \notin place

(* Orphans are looked for, and an activation begins, with nothing left.    *)
NothingLeft == pc \in {"orphans", "adapter"} => place = {} /\ disk = NoJournal

(* While a plan is installed the journal in memory is the one on disk, and *)
(* what is about to be applied is its last entry.                          *)
JournalIsAhead ==
    /\ pc \in {"inspect", "apply", "verify"} => disk # NoJournal /\ disk.actions = value
    /\ pc \in {"inspect", "apply"} => index \in DOMAIN PlanOperations
    /\ pc = "apply" =>
          /\ value # <<>>
          /\ value[Len(value)] = [kind |-> PlanOperations[index],
                                  id |-> IdOf(PlanOperations[index]), own |-> TRUE]

(* An activation has a session, and an adapter once it was waited for.     *)
ManagerReady ==
    /\ pc \in {"adapter", "inspect", "apply", "verify"} => manager # NoManager /\ manager.session # 0
    /\ pc \in {"inspect", "apply", "verify"} => manager.adapter # 0
    /\ pc \in {"read", "undo", "forget", "orphans"} /\ call \in {"activate", "rebind"}
          => manager # NoManager /\ manager.session # 0

(* What is written down as Navo's is not another program's.                *)
Untwinned(actions) == \A i \in DOMAIN actions : actions[i].own => actions[i].kind \notin twin

NotTheirs == Untwinned(value) /\ (disk # NoJournal => Untwinned(disk.actions))

NetInv ==
    /\ NetworkTypeOK /\ Covered /\ RollbackCovers /\ NothingLeft
    /\ JournalIsAhead /\ ManagerReady /\ NotTheirs

-----------------------------------------------------------------------------
(* Facts about journals.                                                   *)

LEMMA RemoveAtProperties ==
  ASSUME NEW S, NEW s \in Seq(S), NEW i \in 1 .. Len(s)
  PROVE  /\ RemoveAt(s, i) \in Seq(S)
         /\ Len(RemoveAt(s, i)) = Len(s) - 1
         /\ \A j \in 1 .. Len(s) - 1 : RemoveAt(s, i)[j] = IF j < i THEN s[j] ELSE s[j + 1]
<1>. DEFINE before == SubSeq(s, 1, i - 1)
            after == SubSeq(s, i + 1, Len(s))
<1>1. Len(s) \in Nat /\ i \in Int /\ i - 1 \in Int /\ i + 1 \in Int /\ \A j \in 1 .. Len(s) : s[j] \in S
  BY LenProperties, ElementOfSeq
<1>2. /\ before \in Seq(S) /\ Len(before) = i - 1
      /\ \A j \in 1 .. i - 1 : before[j] = s[j]
  BY <1>1, SubSeqProperties
<1>3. /\ after \in Seq(S) /\ Len(after) = Len(s) - i
      /\ \A j \in 1 .. Len(s) - i : after[j] = s[i + j]
  <2>1. \A j \in i + 1 .. Len(s) : s[j] \in S
    BY <1>1
  <2>2. /\ after \in Seq(S)
        /\ Len(after) = IF i + 1 <= Len(s) THEN Len(s) - (i + 1) + 1 ELSE 0
        /\ \A j \in 1 .. Len(s) - (i + 1) + 1 : after[j] = s[i + 1 + j - 1]
    BY <1>1, <2>1, SubSeqProperties
  <2>. HIDE DEF after
  <2>3. Len(after) = Len(s) - i
    BY <1>1, <2>2
  <2>4. ASSUME NEW j \in 1 .. Len(s) - i PROVE after[j] = s[i + j]
    <3>1. j \in 1 .. Len(s) - (i + 1) + 1 /\ i + 1 + j - 1 = i + j
      BY <1>1
    <3>. QED
      BY <2>2, <3>1
  <2>. QED
    BY <2>2, <2>3, <2>4
<1>. HIDE DEF before, after
<1>4. /\ before \o after \in Seq(S)
      /\ Len(before \o after) = Len(before) + Len(after)
      /\ \A j \in 1 .. Len(before) + Len(after) : (before \o after)[j] =
                  IF j <= Len(before) THEN before[j] ELSE after[j - Len(before)]
  BY <1>2, <1>3, ConcatProperties
<1>5. RemoveAt(s, i) = before \o after
  BY DEF RemoveAt, before, after
<1>6. Len(before) + Len(after) = Len(s) - 1
  BY <1>1, <1>2, <1>3
<1>7. ASSUME NEW j \in 1 .. Len(s) - 1
      PROVE  (before \o after)[j] = IF j < i THEN s[j] ELSE s[j + 1]
  <2>1. CASE j < i
    <3>1. j <= Len(before) /\ j \in 1 .. i - 1 /\ j \in 1 .. Len(before) + Len(after)
      BY <1>1, <1>2, <1>6, <2>1
    <3>. QED
      BY <1>2, <1>4, <2>1, <3>1
  <2>2. CASE j >= i
    <3>. j \in Int /\ ~(j < i)
      BY <1>1, <2>2
    <3>1. ~(j <= Len(before)) /\ j - Len(before) \in 1 .. Len(s) - i /\ i + (j - Len(before)) = j + 1
      BY <1>1, <1>2, <2>2
    <3>2. after[j - Len(before)] = s[j + 1]
      BY <1>3, <3>1
    <3>. QED
      BY <1>1, <1>4, <1>6, <2>2, <3>1, <3>2
  <2>3. j < i \/ j >= i
    BY <1>1
  <2>. QED
    BY <2>1, <2>2, <2>3
<1>. QED
  BY <1>4, <1>5, <1>6, <1>7

LEMMA EntryType ==
  ASSUME NEW actions \in Seq(Entries), NEW i \in 1 .. Len(actions)
  PROVE  /\ actions[i] \in Entries /\ ResourceOf(actions[i]) \in Resources
         /\ actions[i].own \in BOOLEAN /\ actions[i].kind \in Kinds
<1>1. actions[i] \in Entries
  BY ElementOfSeq
<1>. QED
  BY <1>1 DEF Entries, Resources, ResourceOf

LEMMA CreatedType ==
  ASSUME NEW actions \in Seq(Entries)
  PROVE  Created(actions) \subseteq Resources
<1>1. DOMAIN actions = 1 .. Len(actions)
  BY LenProperties
<1>. QED
  BY <1>1, EntryType DEF Created, ResourceOf

LEMMA CreatedBy ==
  ASSUME NEW actions \in Seq(Entries), NEW r
  PROVE  r \in Created(actions)
           <=> \E i \in 1 .. Len(actions) : actions[i].own /\ r = ResourceOf(actions[i])
BY LenProperties DEF Created, ResourceOf

LEMMA CreatedNothing == Created(<<>>) = {}
<1>1. DOMAIN <<>> = {}
  BY EmptySeq, LenProperties, DOMAIN <<>> = 1 .. Len(<<>>)
<1>. QED
  BY <1>1 DEF Created

(* A journal that grows covers what it covered, and the new entry.         *)
LEMMA CreatedGrows ==
  ASSUME NEW actions \in Seq(Entries), NEW entry \in Entries
  PROVE  /\ Created(actions) \subseteq Created(Append(actions, entry))
         /\ entry.own => ResourceOf(entry) \in Created(Append(actions, entry))
<1>. DEFINE longer == Append(actions, entry)
<1>1. /\ longer \in Seq(Entries) /\ Len(longer) = Len(actions) + 1 /\ Len(actions) \in Nat
      /\ \A i \in 1 .. Len(actions) : longer[i] = actions[i]
      /\ longer[Len(actions) + 1] = entry
  BY AppendProperties, LenProperties
<1>. HIDE DEF longer
<1>2. ASSUME NEW r \in Created(actions) PROVE r \in Created(longer)
  <2>1. PICK i \in 1 .. Len(actions) : actions[i].own /\ r = ResourceOf(actions[i])
    BY <1>2, CreatedBy
  <2>2. i \in 1 .. Len(longer) /\ longer[i] = actions[i]
    BY <1>1
  <2>. QED
    BY <1>1, <2>1, <2>2, CreatedBy
<1>3. entry.own => ResourceOf(entry) \in Created(longer)
  <2>1. Len(actions) + 1 \in 1 .. Len(longer)
    BY <1>1
  <2>. QED
    BY <1>1, <2>1, CreatedBy
<1>. QED
  BY <1>2, <1>3 DEF longer

(* Forgetting an entry drops at most its own resource.                     *)
LEMMA CreatedShrinks ==
  ASSUME NEW actions \in Seq(Entries), NEW i \in 1 .. Len(actions), NEW r \in Created(actions),
         actions[i].own => r # ResourceOf(actions[i])
  PROVE  r \in Created(RemoveAt(actions, i))
<1>. DEFINE shorter == RemoveAt(actions, i)
<1>1. /\ shorter \in Seq(Entries) /\ Len(shorter) = Len(actions) - 1 /\ Len(actions) \in Nat
      /\ \A j \in 1 .. Len(actions) - 1 : shorter[j] = IF j < i THEN actions[j] ELSE actions[j + 1]
  BY RemoveAtProperties, LenProperties
<1>. HIDE DEF shorter
<1>2. PICK k \in 1 .. Len(actions) : actions[k].own /\ r = ResourceOf(actions[k])
  BY CreatedBy
<1>3. k # i
  BY <1>2
<1>4. PICK j \in 1 .. Len(shorter) : shorter[j] = actions[k]
  <2>1. CASE k < i
    <3>1. k \in 1 .. Len(shorter) /\ k \in 1 .. Len(actions) - 1
      BY <1>1, <2>1
    <3>. QED
      BY <1>1, <2>1, <3>1
  <2>2. CASE k > i
    <3>1. k - 1 \in 1 .. Len(shorter) /\ k - 1 \in 1 .. Len(actions) - 1 /\ ~(k - 1 < i) /\ k - 1 + 1 = k
      BY <1>1, <2>2
    <3>. QED
      BY <1>1, <3>1
  <2>. QED
    BY <1>1, <1>3, <2>1, <2>2
<1>. QED
  BY <1>1, <1>2, <1>4, CreatedBy DEF shorter

(* What holds of the entries is kept when one leaves or one is added.      *)
LEMMA UntwinnedShrinks ==
  ASSUME NEW actions \in Seq(Entries), NEW i \in 1 .. Len(actions), Untwinned(actions)
  PROVE  Untwinned(RemoveAt(actions, i))
<1>. DEFINE shorter == RemoveAt(actions, i)
<1>1. /\ shorter \in Seq(Entries) /\ Len(shorter) = Len(actions) - 1 /\ Len(actions) \in Nat
      /\ \A j \in 1 .. Len(actions) - 1 : shorter[j] = IF j < i THEN actions[j] ELSE actions[j + 1]
  BY RemoveAtProperties, LenProperties
<1>. HIDE DEF shorter
<1>2. DOMAIN shorter = 1 .. Len(actions) - 1 /\ DOMAIN actions = 1 .. Len(actions)
  BY <1>1, LenProperties
<1>3. ASSUME NEW j \in DOMAIN shorter PROVE \E k \in DOMAIN actions : shorter[j] = actions[k]
  <2>1. j \in 1 .. Len(actions) /\ j + 1 \in 1 .. Len(actions)
    BY <1>1, <1>2
  <2>. QED
    BY <1>1, <1>2, <2>1
<1>. QED
  BY <1>3 DEF Untwinned, shorter

LEMMA UntwinnedGrows ==
  ASSUME NEW actions \in Seq(Entries), NEW entry \in Entries, Untwinned(actions),
         entry.own => entry.kind \notin twin
  PROVE  Untwinned(Append(actions, entry))
<1>. DEFINE longer == Append(actions, entry)
<1>1. /\ longer \in Seq(Entries) /\ Len(longer) = Len(actions) + 1 /\ Len(actions) \in Nat
      /\ \A i \in 1 .. Len(actions) : longer[i] = actions[i]
      /\ longer[Len(actions) + 1] = entry
  BY AppendProperties, LenProperties
<1>. HIDE DEF longer
<1>2. DOMAIN longer = 1 .. Len(actions) + 1 /\ DOMAIN actions = 1 .. Len(actions)
  BY <1>1, LenProperties
<1>3. ASSUME NEW j \in DOMAIN longer PROVE longer[j] = entry \/ \E k \in DOMAIN actions : longer[j] = actions[k]
  BY <1>1, <1>2
<1>. QED
  BY <1>3 DEF Untwinned, longer

LEMMA NothingUntwinned == Untwinned(<<>>)
<1>1. DOMAIN <<>> = 1 .. Len(<<>>) /\ Len(<<>>) = 0
  BY EmptySeq, LenProperties
<1>. QED
  BY <1>1 DEF Untwinned

-----------------------------------------------------------------------------
(* The pieces the steps are made of.                                       *)

LEMMA ManagerType ==
  /\ RecoveryManager \in Manager /\ RecoveryManager # NoManager
  /\ \A m \in Manager : m # NoManager
  /\ \A d \in Journal : d # NoJournal
  /\ \A actions \in Seq(Entries) : [actions |-> actions] \in Journal
<1>1. RecoveryManager \in Manager
  BY PlanAssumption DEF RecoveryManager, Manager
<1>2. \A actions \in Seq(Entries) : [actions |-> actions] \in Journal
  BY DEF Journal
<1>. QED
  BY <1>1, <1>2, AbsenceAssumption

LEMMA FaultType ==
  ASSUME faults \in 0 .. MaxNetworkFaults, Fault \/ NoFault
  PROVE  faults' \in 0 .. MaxNetworkFaults
BY PlanAssumption DEF Fault, NoFault

(* After a recovery a call has ended, or the activation it was made for    *)
(* goes on; only a recovery that went well drops the manager and leaves    *)
(* the Service alive.                                                      *)
LEMMA RecoveredLeads ==
  ASSUME NetworkTypeOK, NEW ok \in BOOLEAN, Recovered(ok), call = "rebind" => manager \in Manager
  PROVE  /\ manager' = NoManager \/ manager' \in Manager
         /\ alive' \in BOOLEAN /\ index' = 0 /\ failed' = FALSE /\ value' = <<>> /\ call' = call
         /\ \/ pc' = "idle"
            \/ /\ pc' = "adapter" /\ ok /\ call \in {"activate", "rebind"}
               /\ manager # NoManager => manager' # NoManager /\ manager'.session = manager.session
         /\ manager # NoManager /\ manager' = NoManager /\ alive' => ok
<1>1. (manager = NoManager \/ manager \in Manager) /\ alive \in BOOLEAN
  BY DEF NetworkTypeOK
<1>2. CASE call = "activate" /\ ok
  <2>1. GoOn("adapter", 0, FALSE) /\ value' = <<>> /\ UNCHANGED <<manager, alive>>
    BY <1>2 DEF Recovered
  <2>. QED
    BY <1>1, <1>2, <2>1 DEF GoOn
<1>3. CASE call = "rebind" /\ ok
  <2>1. manager' = [manager EXCEPT !.active = FALSE] /\ GoOn("adapter", 0, FALSE) /\ value' = <<>>
        /\ UNCHANGED alive
    BY <1>3 DEF Recovered
  <2>2. manager \in Manager => manager' \in Manager /\ manager'.session = manager.session
    BY <2>1 DEF Manager
  <2>. QED
    BY <1>1, <1>3, <2>1, <2>2, ManagerType DEF GoOn
<1>4. CASE call = "recover"
  <2>1. EndCall /\ manager' = NoManager /\ alive' = ok
    BY <1>4 DEF Recovered
  <2>. QED
    BY <1>4, <2>1 DEF EndCall
<1>5. CASE call = "shutdown"
  <2>1. EndCall /\ manager' = NoManager /\ alive' = FALSE
    BY <1>5 DEF Recovered
  <2>. QED
    BY <2>1 DEF EndCall
<1>6. CASE call \in {"prepare", "deactivate"} /\ ok
  <2>1. EndCall /\ manager' = NoManager /\ UNCHANGED alive
    BY <1>6 DEF Recovered
  <2>. QED
    BY <1>1, <1>6, <2>1 DEF EndCall
<1>7. CASE call \notin {"recover", "shutdown"} /\ ~(call \in {"activate", "rebind", "prepare", "deactivate"} /\ ok)
  <2>1. EndCall /\ UNCHANGED <<manager, alive>>
    BY <1>7 DEF Recovered
  <2>. QED
    BY <1>1, <2>1 DEF EndCall
<1>. QED
  BY <1>2, <1>3, <1>4, <1>5, <1>6, <1>7

(* The resources and the file are left alone, or lose what they may lose.  *)
LEMMA CoveredKept ==
  ASSUME Covered, place' \subseteq place, disk' = disk
  PROVE  Covered'
BY DEF Covered, Recorded, Created

LEMMA NotTheirsKept ==
  ASSUME NotTheirs, twin' \subseteq twin, value' = value \/ value' = <<>>,
         disk' = disk \/ disk' = NoJournal
  PROVE  NotTheirs'
<1>1. \A actions : Untwinned(actions) => \A i \in DOMAIN actions : actions[i].own => actions[i].kind \notin twin'
  BY DEF Untwinned
<1>2. \A i \in DOMAIN value' : value'[i].own => value'[i].kind \notin twin'
  BY <1>1, NothingUntwinned DEF NotTheirs
<1>3. disk' # NoJournal => \A i \in DOMAIN disk'.actions : disk'.actions[i].own => disk'.actions[i].kind \notin twin'
  BY <1>1 DEF NotTheirs
<1>. QED
  BY <1>2, <1>3 DEF NotTheirs, Untwinned

(* A call that has returned, or that has just been made, claims nothing.   *)
LEMMA ReturnedKeeps ==
  ASSUME NetInv, NetworkTypeOK', pc' = "idle", place' \subseteq place, twin' \subseteq twin,
         value' = value \/ value' = <<>>, disk' = disk
  PROVE  NetInv'
<1>1. Covered' /\ NotTheirs'
  BY CoveredKept, NotTheirsKept DEF NetInv
<1>2. RollbackCovers' /\ NothingLeft' /\ JournalIsAhead' /\ ManagerReady'
  BY DEF RollbackCovers, NothingLeft, JournalIsAhead, ManagerReady
<1>. QED
  BY <1>1, <1>2 DEF NetInv

LEMMA BeginKeeps ==
  ASSUME NetInv, NetworkTypeOK', NEW why, Begin(why), place' \subseteq place, twin' = twin, disk' = disk,
         why \in {"activate", "rebind"} => manager' # NoManager /\ manager'.session # 0
  PROVE  NetInv'
<1>1. pc' = "read" /\ call' = why /\ value' = <<>>
  BY DEF Begin
<1>2. Covered' /\ NotTheirs'
  BY <1>1, CoveredKept, NotTheirsKept DEF NetInv
<1>3. RollbackCovers' /\ NothingLeft' /\ JournalIsAhead'
  BY <1>1 DEF RollbackCovers, NothingLeft, JournalIsAhead
<1>4. ManagerReady'
  BY <1>1 DEF ManagerReady
<1>. QED
  BY <1>2, <1>3, <1>4 DEF NetInv

(* A recovery that has ended leaves nothing behind when it went well.      *)
LEMMA RecoveredKeeps ==
  ASSUME NetInv, NEW ok \in BOOLEAN, Recovered(ok), pc \in {"read", "undo", "orphans"},
         place' \subseteq place, UNCHANGED <<twin, conflict, adapter, disk, sessions, adapters>>,
         faults' \in 0 .. MaxNetworkFaults,
         ok => place' = {} /\ disk = NoJournal
  PROVE  NetInv'
<1>1. NetworkTypeOK /\ (call \in {"activate", "rebind"} => manager # NoManager /\ manager.session # 0)
  BY DEF NetInv, ManagerReady
<1>2. call \in {"activate", "rebind"} => manager \in Manager
  BY <1>1 DEF NetworkTypeOK
<1>3. /\ manager' = NoManager \/ manager' \in Manager
      /\ alive' \in BOOLEAN /\ index' = 0 /\ failed' = FALSE /\ value' = <<>> /\ call' = call
      /\ \/ pc' = "idle"
         \/ /\ pc' = "adapter" /\ ok /\ call \in {"activate", "rebind"}
            /\ manager' # NoManager /\ manager'.session = manager.session
  BY <1>1, <1>2, RecoveredLeads
<1>4. NetworkTypeOK'
  BY <1>1, <1>3, EmptySeq DEF NetworkTypeOK
<1>5. Covered' /\ NotTheirs'
  BY <1>3, CoveredKept, NotTheirsKept DEF NetInv
<1>6. RollbackCovers' /\ NothingLeft' /\ JournalIsAhead'
  BY <1>3 DEF RollbackCovers, NothingLeft, JournalIsAhead
<1>7. ManagerReady'
  BY <1>1, <1>3 DEF ManagerReady
<1>. QED
  BY <1>4, <1>5, <1>6, <1>7 DEF NetInv

-----------------------------------------------------------------------------
(* The recovery keeps the invariant.                                       *)

LEMMA ReadJournalKeeps ==
  ASSUME NetInv, ReadJournal
  PROVE  NetInv'
<1>1. NetworkTypeOK /\ Covered /\ NotTheirs /\ ManagerReady /\ pc = "read"
      /\ UNCHANGED <<system, disk, sessions, adapters>>
  BY DEF NetInv, ReadJournal
<1>2. CASE /\ disk = NoJournal
           /\ GoOn("orphans", 0, FALSE) /\ UNCHANGED <<value, manager, alive>> /\ NoFault
  <2>1. NetworkTypeOK'
    BY <1>1, <1>2 DEF NetworkTypeOK, GoOn, NoFault, system
  <2>2. Covered' /\ NotTheirs'
    BY <1>1, <1>2, CoveredKept, NotTheirsKept DEF system
  <2>3. RollbackCovers' /\ NothingLeft' /\ JournalIsAhead' /\ ManagerReady'
    BY <1>1, <1>2 DEF GoOn, RollbackCovers, NothingLeft, JournalIsAhead, ManagerReady, Covered,
       Recorded, system
  <2>. QED
    BY <2>1, <2>2, <2>3 DEF NetInv
<1>3. CASE /\ disk # NoJournal
           /\ value' = disk.actions
           /\ GoOn("undo", Len(disk.actions), FALSE)
           /\ UNCHANGED <<manager, alive>> /\ NoFault
  <2>1. disk.actions \in Seq(Entries) /\ Len(disk.actions) \in Nat
    BY <1>1, <1>3, LenProperties DEF NetworkTypeOK, Journal
  <2>2. NetworkTypeOK'
    BY <1>1, <1>3, <2>1 DEF NetworkTypeOK, GoOn, NoFault, system
  <2>3. Covered'
    BY <1>1, <1>3, CoveredKept DEF system
  <2>4. NotTheirs'
    BY <1>1, <1>3 DEF NotTheirs, Untwinned, system
  <2>5. RollbackCovers'
    BY <1>1, <1>3, <2>1 DEF GoOn, RollbackCovers, Covered, Recorded, Created, system
  <2>6. NothingLeft' /\ JournalIsAhead' /\ ManagerReady'
    BY <1>1, <1>3 DEF GoOn, NothingLeft, JournalIsAhead, ManagerReady
  <2>. QED
    BY <2>2, <2>3, <2>4, <2>5, <2>6 DEF NetInv
<1>4. CASE Fault /\ Recovered(FALSE)
  <2>1. faults' \in 0 .. MaxNetworkFaults
    BY <1>1, <1>4, PlanAssumption DEF NetworkTypeOK, Fault
  <2>. QED
    BY <1>1, <1>4, <2>1, RecoveredKeeps DEF system
<1>. QED
  BY <1>2, <1>3, <1>4 DEF ReadJournal

LEMMA UndoKeeps ==
  ASSUME NetInv, Undo
  PROVE  NetInv'
<1>1. /\ NetworkTypeOK /\ Covered /\ NotTheirs /\ ManagerReady /\ RollbackCovers
      /\ pc = "undo" /\ index > 0
      /\ UNCHANGED <<conflict, adapter, disk, manager, value, alive, sessions, adapters>>
  BY DEF NetInv, Undo
<1>2. index \in 1 .. Len(value) /\ place \subseteq Created(value) /\ (~failed => index = Len(value))
      /\ value \in Seq(Entries) /\ Len(value) \in Nat /\ index \in Nat /\ failed \in BOOLEAN
  BY <1>1, LenProperties DEF RollbackCovers, NetworkTypeOK
<1>3. /\ \/ GoOn("forget", index, failed) /\ (value[index].own = FALSE \/ ResourceOf(value[index]) \notin place')
         \/ GoOn("undo", index - 1, TRUE)
      /\ place' \subseteq place /\ twin' \subseteq twin /\ (Fault \/ NoFault)
  <2>. DEFINE entry == value[index]
              resource == [kind |-> entry.kind, id |-> entry.id]
  <2>1. entry.own = TRUE \/ entry.own = FALSE
    BY <1>2, EntryType
  <2>2. CASE entry.own = FALSE
    <3>1. GoOn("forget", index, failed) /\ UNCHANGED <<place, twin>> /\ NoFault
      BY <2>2 DEF Undo
    <3>. QED
      BY <2>2, <3>1
  <2>3. CASE TakeAway(resource) /\ GoOn("forget", index, failed) /\ NoFault
    BY <2>3 DEF TakeAway, ResourceOf
  <2>4. CASE KeepEntry(index) /\ UNCHANGED <<place, twin>> /\ NoFault
    BY <2>4 DEF KeepEntry
  <2>5. CASE Fault /\ (TakeAway(resource) \/ UNCHANGED <<place, twin>>) /\ KeepEntry(index)
    BY <2>5 DEF KeepEntry, TakeAway
  <2>. QED
    BY <2>1, <2>2, <2>3, <2>4, <2>5 DEF Undo
<1>4. pc' \in {"forget", "undo"} /\ index' \in Nat /\ failed' \in BOOLEAN /\ call' = call
      /\ faults' \in 0 .. MaxNetworkFaults
  <2>1. faults' \in 0 .. MaxNetworkFaults
    BY <1>1, <1>3, FaultType DEF NetworkTypeOK
  <2>2. CASE GoOn("forget", index, failed)
    BY <1>2, <2>1, <2>2 DEF GoOn
  <2>3. CASE GoOn("undo", index - 1, TRUE)
    BY <1>2, <2>1, <2>3 DEF GoOn
  <2>. QED
    BY <1>3, <2>2, <2>3
<1>5. NetworkTypeOK'
  BY <1>1, <1>3, <1>4 DEF NetworkTypeOK
<1>6. Covered' /\ NotTheirs'
  BY <1>1, <1>3, CoveredKept, NotTheirsKept
<1>7. RollbackCovers'
  <2>1. Created(value)' = Created(value) /\ Len(value') = Len(value)
    BY <1>1 DEF Created
  <2>2. CASE GoOn("forget", index, failed) /\ (value[index].own = FALSE \/ ResourceOf(value[index]) \notin place')
    BY <1>1, <1>2, <1>3, <2>1, <2>2 DEF GoOn, RollbackCovers
  <2>3. CASE GoOn("undo", index - 1, TRUE)
    BY <1>1, <1>2, <1>3, <2>1, <2>3 DEF GoOn, RollbackCovers
  <2>. QED
    BY <1>3, <2>2, <2>3
<1>8. NothingLeft' /\ JournalIsAhead' /\ ManagerReady'
  BY <1>1, <1>4 DEF NothingLeft, JournalIsAhead, ManagerReady
<1>. QED
  BY <1>5, <1>6, <1>7, <1>8 DEF NetInv

LEMMA ForgetKeeps ==
  ASSUME NetInv, ForgetEntry
  PROVE  NetInv'
<1>1. /\ NetworkTypeOK /\ Covered /\ NotTheirs /\ ManagerReady /\ RollbackCovers
      /\ pc = "forget" /\ value' = RemoveAt(value, index)
      /\ UNCHANGED <<system, manager, alive, sessions, adapters>>
  BY DEF NetInv, ForgetEntry
<1>2. /\ index \in 1 .. Len(value) /\ place \subseteq Created(value) /\ (~failed => index = Len(value))
      /\ value \in Seq(Entries) /\ Len(value) \in Nat /\ failed \in BOOLEAN
      /\ value[index].own => ResourceOf(value[index]) \notin place
  BY <1>1, LenProperties DEF RollbackCovers, NetworkTypeOK
<1>3. value' \in Seq(Entries) /\ Len(value') = Len(value) - 1 /\ Untwinned(value') /\ index - 1 \in Nat
  BY <1>1, <1>2, RemoveAtProperties, UntwinnedShrinks DEF NotTheirs
<1>4. place \subseteq Created(value')
  BY <1>1, <1>2, CreatedShrinks
<1>5. \/ /\ disk' = [actions |-> value'] /\ GoOn("undo", index - 1, failed) /\ NoFault
      \/ /\ Len(value) = 1 /\ disk' = disk /\ GoOn("undo", index - 1, failed) /\ NoFault
      \/ /\ disk' = disk /\ GoOn("undo", 0, TRUE) /\ Fault
  BY DEF ForgetEntry, WriteJournal
<1>6. /\ pc' = "undo" /\ call' = call /\ index' \in 0 .. Len(value') /\ failed' \in BOOLEAN
      /\ ~failed' => index' = Len(value')
      /\ disk' = disk \/ disk' = [actions |-> value']
      /\ faults' \in 0 .. MaxNetworkFaults
  <2>1. faults' \in 0 .. MaxNetworkFaults
    BY <1>1, <1>5, FaultType DEF NetworkTypeOK
  <2>2. CASE disk' = [actions |-> value'] /\ GoOn("undo", index - 1, failed)
    BY <1>2, <1>3, <2>1, <2>2 DEF GoOn
  <2>3. CASE disk' = disk /\ GoOn("undo", index - 1, failed)
    BY <1>2, <1>3, <2>1, <2>3 DEF GoOn
  <2>4. CASE disk' = disk /\ GoOn("undo", 0, TRUE)
    BY <1>2, <1>3, <2>1, <2>4 DEF GoOn
  <2>. QED
    BY <1>5, <2>2, <2>3, <2>4
<1>7. place' = place /\ twin' = twin
  BY <1>1 DEF system
<1>8. NetworkTypeOK'
  BY <1>1, <1>3, <1>6, ManagerType DEF NetworkTypeOK, system
<1>9. Covered'
  <2>1. CASE disk' = disk
    BY <1>1, <1>7, <2>1, CoveredKept
  <2>2. CASE disk' = [actions |-> value']
    BY <1>3, <1>4, <1>7, <2>2, ManagerType DEF Covered, Recorded, Created
  <2>. QED
    BY <1>6, <2>1, <2>2
<1>10. NotTheirs'
  <2>1. Untwinned(value)' /\ (disk' # NoJournal => \A i \in DOMAIN disk'.actions :
                                 disk'.actions[i].own => disk'.actions[i].kind \notin twin)
    BY <1>1, <1>3, <1>6, <1>7 DEF NotTheirs, Untwinned
  <2>. QED
    BY <1>7, <2>1 DEF NotTheirs, Untwinned
<1>11. RollbackCovers'
  BY <1>4, <1>6, <1>7 DEF RollbackCovers, Created
<1>12. NothingLeft' /\ JournalIsAhead' /\ ManagerReady'
  BY <1>1, <1>6 DEF NothingLeft, JournalIsAhead, ManagerReady
<1>. QED
  BY <1>8, <1>9, <1>10, <1>11, <1>12 DEF NetInv

LEMMA EndRollbackKeeps ==
  ASSUME NetInv, EndRollback
  PROVE  NetInv'
<1>1. /\ NetworkTypeOK /\ Covered /\ NotTheirs /\ ManagerReady /\ RollbackCovers
      /\ pc = "undo" /\ index = 0
      /\ UNCHANGED <<system, sessions, adapters>>
  BY DEF NetInv, EndRollback
<1>2. place' = place /\ twin' = twin
  BY <1>1 DEF system
<1>3. ASSUME EndCall, UNCHANGED <<manager, alive, disk>>, faults' \in 0 .. MaxNetworkFaults
      PROVE  NetInv'
  <2>1. NetworkTypeOK'
    BY <1>1, <1>3, EmptySeq DEF NetworkTypeOK, EndCall, system
  <2>. QED
    BY <1>2, <1>3, <2>1, ReturnedKeeps DEF EndCall
<1>4. ASSUME Recovered(FALSE), disk' = disk, faults' \in 0 .. MaxNetworkFaults
      PROVE  NetInv'
  BY <1>1, <1>4, RecoveredKeeps DEF system
<1>5. ~failed => place = {}
  <2>1. ~failed => Len(value) = 0 /\ value \in Seq(Entries)
    BY <1>1 DEF RollbackCovers, NetworkTypeOK
  <2>2. ~failed => value = <<>>
    BY <2>1, EmptySeq
  <2>. QED
    BY <1>1, <2>2, CreatedNothing DEF RollbackCovers
<1>6. CASE ~failed /\ disk' = NoJournal /\ NoFault /\ UNCHANGED <<manager, alive>>
           /\ (EndCall \/ (GoOn("orphans", 0, FALSE) /\ UNCHANGED value))
  <2>1. pc' \in {"idle", "orphans"} /\ (value' = value \/ value' = <<>>) /\ index' = 0 /\ failed' = FALSE
        /\ call' = call
    BY <1>6 DEF EndCall, GoOn
  <2>2. NetworkTypeOK'
    BY <1>1, <1>6, <2>1, EmptySeq DEF NetworkTypeOK, NoFault, system
  <2>3. Covered'
    BY <1>2, <1>5, <1>6 DEF Covered
  <2>4. NotTheirs'
    BY <1>1, <1>2, <1>6, <2>1, NotTheirsKept
  <2>5. RollbackCovers' /\ NothingLeft' /\ JournalIsAhead' /\ ManagerReady'
    BY <1>1, <1>2, <1>5, <1>6, <2>1 DEF RollbackCovers, NothingLeft, JournalIsAhead, ManagerReady
  <2>. QED
    BY <2>2, <2>3, <2>4, <2>5 DEF NetInv
<1>7. /\ NoFault => faults' \in 0 .. MaxNetworkFaults
      /\ Fault => faults' \in 0 .. MaxNetworkFaults
  BY <1>1, PlanAssumption DEF NetworkTypeOK, NoFault, Fault
<1>. QED
  BY <1>3, <1>4, <1>6, <1>7 DEF EndRollback

LEMMA CleanOrphansKeeps ==
  ASSUME NetInv, CleanOrphans
  PROVE  NetInv'
<1>1. /\ NetworkTypeOK /\ pc = "orphans" /\ place = {} /\ disk = NoJournal
      /\ UNCHANGED <<twin, conflict, adapter, disk, sessions, adapters>>
  BY DEF NetInv, NothingLeft, CleanOrphans
<1>2. faults' \in 0 .. MaxNetworkFaults
  BY <1>1, FaultType DEF CleanOrphans, NetworkTypeOK
<1>3. place' = {} /\ (Recovered(TRUE) \/ Recovered(FALSE))
  BY <1>1 DEF CleanOrphans
<1>. QED
  BY <1>1, <1>2, <1>3, RecoveredKeeps

-----------------------------------------------------------------------------
(* So does an activation.                                                  *)

LEMMA FailActivationKeeps ==
  ASSUME NetInv, NEW actions \in Seq(Entries), FailActivation(actions), Untwinned(actions),
         place' \subseteq Created(actions), place' \subseteq Recorded,
         UNCHANGED <<twin, conflict, adapter, disk, manager, alive, sessions, adapters>>,
         Fault \/ NoFault
  PROVE  NetInv'
<1>1. NetworkTypeOK /\ NotTheirs
  BY DEF NetInv
<1>2. /\ value' = actions /\ pc' = "undo" /\ index' = Len(actions) /\ failed' = FALSE
      /\ call' = "failing" /\ Len(actions) \in Nat
  BY LenProperties DEF FailActivation
<1>3. place' \subseteq Resources
  BY CreatedType
<1>4. NetworkTypeOK'
  BY <1>1, <1>2, <1>3, FaultType DEF NetworkTypeOK, Calls
<1>5. Covered'
  BY DEF Covered, Recorded, Created
<1>6. NotTheirs'
  BY <1>1, <1>2 DEF NotTheirs, Untwinned
<1>7. RollbackCovers'
  BY <1>2 DEF RollbackCovers, Created
<1>8. NothingLeft' /\ JournalIsAhead' /\ ManagerReady'
  BY <1>2 DEF NothingLeft, JournalIsAhead, ManagerReady
<1>. QED
  BY <1>4, <1>5, <1>6, <1>7, <1>8 DEF NetInv

LEMMA AdapterReadyKeeps ==
  ASSUME NetInv, AdapterReady
  PROVE  NetInv'
<1>1. /\ NetworkTypeOK /\ NotTheirs /\ place = {} /\ disk = NoJournal /\ pc = "adapter"
      /\ manager \in Manager /\ manager.session # 0
      /\ UNCHANGED <<system, alive, sessions, adapters>>
  BY DEF NetInv, NothingLeft, ManagerReady, AdapterReady, NetworkTypeOK
<1>2. faults' \in 0 .. MaxNetworkFaults
  BY <1>1, FaultType DEF AdapterReady, NetworkTypeOK
<1>3. CASE EndCall /\ UNCHANGED <<disk, manager>>
  <2>1. NetworkTypeOK'
    BY <1>1, <1>2, <1>3, EmptySeq DEF NetworkTypeOK, EndCall, system
  <2>. QED
    BY <1>1, <1>3, <2>1, ReturnedKeeps DEF EndCall, system
<1>4. CASE /\ adapter # 0
           /\ manager' = [manager EXCEPT !.adapter = adapter]
           /\ WriteJournal(<<>>) /\ value' = <<>>
           /\ GoOn("inspect", 1, FALSE) /\ NoFault
  <2>1. manager' \in Manager /\ manager'.session # 0 /\ manager'.adapter # 0 /\ manager' # NoManager
    <3>1. adapter \in 0 .. MaxAdapter
      BY <1>1 DEF NetworkTypeOK
    <3>2. manager' \in Manager /\ manager'.session # 0 /\ manager'.adapter # 0
      BY <1>1, <1>4, <3>1 DEF Manager
    <3>. QED
      BY <3>2, ManagerType
  <2>2. disk' = [actions |-> <<>>] /\ disk' \in Journal /\ disk' # NoJournal /\ <<>> \in Seq(Entries)
    BY <1>4, EmptySeq, ManagerType DEF WriteJournal
  <2>3. NetworkTypeOK'
    BY <1>1, <1>2, <1>4, <2>1, <2>2 DEF NetworkTypeOK, GoOn, system
  <2>4. 1 \in DOMAIN PlanOperations
    <3>1. Len(PlanOperations) \in Nat /\ DOMAIN PlanOperations = 1 .. Len(PlanOperations)
          /\ Len(PlanOperations) # 0
      BY PlanAssumption, LenProperties, EmptySeq
    <3>. QED
      BY <3>1
  <2>5. Covered' /\ NotTheirs'
    BY <1>1, <1>4, <2>2, NothingUntwinned DEF Covered, NotTheirs, Untwinned, system
  <2>6. RollbackCovers' /\ NothingLeft' /\ JournalIsAhead' /\ ManagerReady'
    BY <1>4, <2>1, <2>2, <2>4 DEF GoOn, RollbackCovers, NothingLeft, JournalIsAhead, ManagerReady
  <2>. QED
    BY <2>3, <2>5, <2>6 DEF NetInv
<1>. QED
  BY <1>3, <1>4 DEF AdapterReady

(* What is written down is a resource of the plan, under this session's or *)
(* this adapter's identity; Navo's only when nobody else's is there.       *)
LEMMA NotedType ==
  ASSUME NetInv, pc \in {"inspect", "apply"}, NEW found
  PROVE  /\ PlanOperations[index] \in Kinds
         /\ Resource(PlanOperations[index]) \in Resources
         /\ Noted(PlanOperations[index], found) \in Entries
<1>1. index \in DOMAIN PlanOperations /\ manager \in Manager /\ manager.session # 0 /\ manager.adapter # 0
  BY DEF NetInv, JournalIsAhead, ManagerReady, NetworkTypeOK
<1>2. PlanOperations[index] \in Kinds
  BY <1>1 DEF Kinds
<1>3. manager.session \in 1 .. MaxSession /\ manager.adapter \in 1 .. MaxAdapter
  BY <1>1 DEF Manager
<1>4. IdOf(PlanOperations[index]) \in Identities
  BY <1>3, PlanAssumption DEF IdOf, Identities
<1>5. (found = "MISSING") \in BOOLEAN
  OBVIOUS
<1>. QED
  BY <1>2, <1>4, <1>5 DEF Resource, Resources, Noted, Entries

LEMMA InspectKeeps ==
  ASSUME NetInv, Inspect
  PROVE  NetInv'
<1>. DEFINE kind == PlanOperations[index]
            found == Inspection(kind)
            entry == Noted(kind, found)
            noted == Append(value, entry)
<1>1. /\ NetworkTypeOK /\ Covered /\ NotTheirs /\ pc = "inspect" /\ disk # NoJournal /\ disk.actions = value
      /\ index \in DOMAIN PlanOperations /\ value \in Seq(Entries) /\ Len(value) \in Nat
      /\ manager # NoManager /\ manager.session # 0 /\ manager.adapter # 0
      /\ place' = place /\ twin' = twin
      /\ UNCHANGED <<system, manager, alive, sessions, adapters>>
  BY LenProperties DEF NetInv, JournalIsAhead, ManagerReady, Inspect, NetworkTypeOK, system
<1>2. entry \in Entries /\ kind \in Kinds
  BY <1>1, NotedType
<1>3. entry = [kind |-> kind, id |-> IdOf(kind), own |-> found = "MISSING"]
  BY DEF Noted
<1>4. entry.own => entry.kind \notin twin
  <2>1. ASSUME kind \in twin PROVE Inspection(kind) # "MISSING"
    BY <2>1 DEF Inspection
  <2>2. entry.own = (found = "MISSING") /\ entry.kind = kind
    BY <1>3
  <2>. QED
    BY <2>1, <2>2
<1>5. /\ noted \in Seq(Entries) /\ noted # <<>> /\ Len(noted) = Len(value) + 1
      /\ noted[Len(value) + 1] = entry
  BY <1>1, <1>2, AppendProperties
<1>6. Untwinned(noted) /\ place \subseteq Created(noted)
  BY <1>1, <1>2, <1>4, UntwinnedGrows, CreatedGrows DEF NotTheirs, Covered, Recorded
<1>7. place \subseteq Created(value) /\ place \subseteq Recorded /\ Untwinned(value)
  BY <1>1 DEF Covered, Recorded, NotTheirs
<1>8. /\ DOMAIN PlanOperations = 1 .. Len(PlanOperations) /\ Len(PlanOperations) \in Nat
  BY PlanAssumption, LenProperties
<1>. HIDE DEF noted, entry
<1>9. CASE FailActivation(noted) /\ UNCHANGED disk /\ Fault
  BY <1>1, <1>5, <1>6, <1>7, <1>9, FailActivationKeeps DEF system
<1>10. CASE FailActivation(value) /\ UNCHANGED disk /\ NoFault
  BY <1>1, <1>7, <1>10, FailActivationKeeps DEF system
<1>11. CASE /\ value' = noted /\ WriteJournal(noted)
            /\ IF found = "EXACT" THEN NextOperation(index) ELSE GoOn("apply", index, FALSE)
            /\ found # "error" /\ NoFault
  <2>1. found \in {"EXACT", "MISSING", "error"}
    BY DEF Inspection
  <2>2. /\ pc' \in {"inspect", "apply", "verify"} /\ index' \in Nat /\ failed' = FALSE /\ call' = call
        /\ pc' \in {"inspect", "apply"} => index' \in DOMAIN PlanOperations
        /\ pc' = "apply" => index' = index /\ found = "MISSING"
    <3>1. CASE found = "EXACT" /\ index < Len(PlanOperations)
      BY <1>1, <1>8, <1>11, <3>1 DEF NextOperation, GoOn
    <3>2. CASE found = "EXACT" /\ ~(index < Len(PlanOperations))
      BY <1>1, <1>8, <1>11, <3>2 DEF NextOperation, GoOn
    <3>3. CASE found = "MISSING"
      BY <1>1, <1>8, <1>11, <3>3 DEF GoOn
    <3>. QED
      BY <1>11, <2>1, <3>1, <3>2, <3>3
  <2>3. disk' = [actions |-> noted] /\ disk' \in Journal /\ disk' # NoJournal /\ disk'.actions = noted
    BY <1>5, <1>11, ManagerType DEF WriteJournal
  <2>4. NetworkTypeOK'
    BY <1>1, <1>5, <1>11, <2>2, <2>3, FaultType DEF NetworkTypeOK, system
  <2>5. Covered'
    BY <1>1, <1>6, <2>3 DEF Covered, Recorded, Created
  <2>6. NotTheirs'
    BY <1>1, <1>6, <1>11, <2>3 DEF NotTheirs, Untwinned
  <2>7. RollbackCovers' /\ NothingLeft' /\ ManagerReady'
    BY <1>1, <2>2 DEF RollbackCovers, NothingLeft, ManagerReady
  <2>8. JournalIsAhead'
    <3>1. value' = noted /\ noted[Len(noted)] = entry /\ noted # <<>>
      BY <1>5, <1>11
    <3>2. ASSUME pc' = "apply"
          PROVE  value'[Len(value')] = [kind |-> PlanOperations[index'],
                                        id |-> IF PlanOperations[index'] \in AdapterBound
                                               THEN manager'.adapter ELSE manager'.session, own |-> TRUE]
      <4>1. (found = "MISSING") = TRUE /\ index' = index /\ manager' = manager
        BY <1>1, <2>2, <3>2
      <4>2. entry = [kind |-> kind, id |-> IdOf(kind), own |-> TRUE]
        BY <1>3, <4>1
      <4>. QED
        BY <3>1, <4>1, <4>2 DEF IdOf
    <3>3. /\ pc' \in {"inspect", "apply", "verify"} => disk' # NoJournal /\ disk'.actions = value'
          /\ pc' \in {"inspect", "apply"} => index' \in DOMAIN PlanOperations
      BY <2>2, <2>3, <3>1
    <3>. QED
      BY <3>1, <3>2, <3>3 DEF JournalIsAhead, IdOf
  <2>. QED
    BY <2>4, <2>5, <2>6, <2>7, <2>8 DEF NetInv
<1>. QED
  BY <1>9, <1>10, <1>11 DEF Inspect, noted, entry

LEMMA ApplyKeeps ==
  ASSUME NetInv, Apply
  PROVE  NetInv'
<1>. DEFINE kind == PlanOperations[index]
            installed == place \cup {Resource(kind)}
<1>1. /\ NetworkTypeOK /\ Covered /\ NotTheirs /\ pc = "apply" /\ disk # NoJournal /\ disk.actions = value
      /\ index \in DOMAIN PlanOperations /\ value \in Seq(Entries) /\ Len(value) \in Nat
      /\ manager # NoManager /\ manager.session # 0 /\ manager.adapter # 0
      /\ value # <<>> /\ value[Len(value)] = [kind |-> kind, id |-> IdOf(kind), own |-> TRUE]
      /\ UNCHANGED <<twin, conflict, adapter, disk, manager, alive, sessions, adapters>>
  BY LenProperties DEF NetInv, JournalIsAhead, ManagerReady, Apply, NetworkTypeOK
<1>2. Resource(kind) \in Recorded
  <2>1. Len(value) \in 1 .. Len(value)
    BY <1>1, EmptySeq
  <2>. QED
    BY <1>1, <2>1, CreatedBy DEF Recorded, Resource, ResourceOf
<1>3. installed \subseteq Recorded /\ place \subseteq Recorded /\ Recorded = Created(value)
  BY <1>1, <1>2 DEF Covered, Recorded
<1>4. Recorded \subseteq Resources
  BY <1>1, <1>3, CreatedType
<1>. HIDE DEF installed
<1>5. CASE FailActivation(value) /\ place' \in {place, installed} /\ (Fault \/ NoFault)
  BY <1>1, <1>3, <1>5, FailActivationKeeps DEF NotTheirs
<1>6. CASE place' = installed /\ NextOperation(index) /\ UNCHANGED value /\ NoFault
  <2>1. /\ pc' \in {"inspect", "verify"} /\ index' \in Nat /\ failed' = FALSE /\ call' = call
        /\ pc' = "inspect" => index' \in DOMAIN PlanOperations
    <3>1. DOMAIN PlanOperations = 1 .. Len(PlanOperations) /\ Len(PlanOperations) \in Nat
      BY PlanAssumption, LenProperties
    <3>2. CASE index < Len(PlanOperations)
      BY <1>1, <1>6, <3>1, <3>2 DEF NextOperation, GoOn
    <3>3. CASE ~(index < Len(PlanOperations))
      BY <1>1, <1>6, <3>1, <3>3 DEF NextOperation, GoOn
    <3>. QED
      BY <3>2, <3>3
  <2>2. NetworkTypeOK'
    BY <1>1, <1>3, <1>4, <1>6, <2>1, FaultType DEF NetworkTypeOK
  <2>3. Covered'
    BY <1>1, <1>3, <1>6 DEF Covered, Recorded, Created
  <2>4. NotTheirs'
    BY <1>1, <1>6, NotTheirsKept
  <2>5. RollbackCovers' /\ NothingLeft' /\ JournalIsAhead' /\ ManagerReady'
    BY <1>1, <1>6, <2>1 DEF RollbackCovers, NothingLeft, JournalIsAhead, ManagerReady
  <2>. QED
    BY <2>2, <2>3, <2>4, <2>5 DEF NetInv
<1>. QED
  BY <1>5, <1>6 DEF Apply, installed

LEMMA VerifyKeeps ==
  ASSUME NetInv, Verify
  PROVE  NetInv'
<1>1. /\ NetworkTypeOK /\ Covered /\ NotTheirs /\ pc = "verify" /\ disk # NoJournal /\ disk.actions = value
      /\ manager \in Manager /\ value \in Seq(Entries) /\ place' = place /\ twin' = twin
      /\ UNCHANGED <<system, disk, alive, sessions, adapters>>
  BY DEF NetInv, JournalIsAhead, ManagerReady, Verify, NetworkTypeOK, system
<1>2. CASE manager' = [manager EXCEPT !.active = TRUE] /\ EndCall /\ NoFault
  <2>1. manager' \in Manager
    BY <1>1, <1>2 DEF Manager
  <2>2. NetworkTypeOK'
    BY <1>1, <1>2, <2>1, EmptySeq, FaultType DEF NetworkTypeOK, EndCall, system
  <2>. QED
    BY <1>1, <1>2, <2>2, ReturnedKeeps DEF EndCall
<1>3. CASE FailActivation(value) /\ UNCHANGED manager /\ Fault
  <2>1. place' \subseteq Created(value) /\ place' \subseteq Recorded /\ Untwinned(value)
    BY <1>1 DEF Covered, Recorded, NotTheirs
  <2>. QED
    BY <1>1, <1>3, <2>1, FailActivationKeeps DEF system
<1>. QED
  BY <1>2, <1>3 DEF Verify
-----------------------------------------------------------------------------
(* The calls of the Service and the environment keep the invariant.        *)

LEMMA StartKeeps ==
  ASSUME NetInv, Start
  PROVE  NetInv'
<1>1. NetworkTypeOK /\ Begin("recover") /\ UNCHANGED <<system, disk, alive, counters>>
      /\ manager' \in Manager
  BY ManagerType DEF NetInv, Start
<1>2. NetworkTypeOK'
  BY <1>1, EmptySeq DEF NetworkTypeOK, Begin, Calls, system, counters
<1>. QED
  BY <1>1, <1>2, BeginKeeps DEF system

LEMMA PrepareKeeps ==
  ASSUME NetInv, Prepare
  PROVE  NetInv'
<1>1. /\ NetworkTypeOK /\ Begin("prepare") /\ UNCHANGED <<twin, conflict, disk, alive, counters>>
      /\ manager' = (IF manager = NoManager THEN RecoveryManager ELSE manager)
      /\ (adapter' = 0 /\ place' = Unbound) \/ UNCHANGED <<adapter, place>>
  BY DEF NetInv, Prepare
<1>2. manager' \in Manager
  BY <1>1, ManagerType DEF NetworkTypeOK
<1>3. place' \subseteq place /\ adapter' \in 0 .. MaxAdapter
  BY <1>1, PlanAssumption DEF NetworkTypeOK, Unbound
<1>4. NetworkTypeOK'
  BY <1>1, <1>2, <1>3, EmptySeq DEF NetworkTypeOK, Begin, Calls, counters
<1>. QED
  BY <1>1, <1>3, <1>4, BeginKeeps

LEMMA PrepareTunKeeps ==
  ASSUME NetInv, PrepareTUN
  PROVE  NetInv'
<1>1. /\ NetworkTypeOK /\ pc = "idle" /\ UNCHANGED <<place, twin, conflict, disk, alive, faults>>
      /\ sessions < MaxSession /\ sessions' = sessions + 1
  BY DEF NetInv, PrepareTUN, ServiceIdle
<1>2. sessions' \in 0 .. MaxSession /\ sessions' # 0
  BY <1>1, PlanAssumption DEF NetworkTypeOK
<1>3. [RecoveryManager EXCEPT !.session = sessions'] \in Manager
      /\ [RecoveryManager EXCEPT !.session = sessions'].session # 0
  BY <1>2, ManagerType DEF RecoveryManager, Manager
<1>4. CASE /\ manager' \in {RecoveryManager, [RecoveryManager EXCEPT !.session = sessions']}
           /\ UNCHANGED <<progress, value, adapter, adapters>>
  <2>1. manager' \in Manager
    BY <1>3, <1>4, ManagerType
  <2>2. NetworkTypeOK'
    BY <1>1, <1>2, <1>4, <2>1 DEF NetworkTypeOK, progress
  <2>. QED
    BY <1>1, <1>4, <2>2, ReturnedKeeps DEF progress
<1>5. CASE /\ adapters < MaxAdapter
           /\ manager' = [RecoveryManager EXCEPT !.session = sessions']
           /\ adapters' = adapters + 1 /\ adapter' = adapters'
           /\ Begin("activate")
  <2>1. adapters' \in 0 .. MaxAdapter
    BY <1>1, <1>5, PlanAssumption DEF NetworkTypeOK
  <2>2. manager' \in Manager /\ manager' # NoManager /\ manager'.session # 0
    BY <1>3, <1>5, ManagerType
  <2>3. NetworkTypeOK'
    BY <1>1, <1>2, <1>5, <2>1, <2>2, EmptySeq DEF NetworkTypeOK, Begin, Calls
  <2>. QED
    BY <1>1, <1>5, <2>2, <2>3, BeginKeeps
<1>. QED
  BY <1>4, <1>5 DEF PrepareTUN

LEMMA DeactivateKeeps ==
  ASSUME NetInv, Deactivate
  PROVE  NetInv'
<1>1. NetworkTypeOK /\ Begin("deactivate") /\ UNCHANGED <<system, disk, manager, alive, counters>>
  BY DEF NetInv, Deactivate
<1>2. NetworkTypeOK'
  BY <1>1, EmptySeq DEF NetworkTypeOK, Begin, Calls, system, counters
<1>. QED
  BY <1>1, <1>2, BeginKeeps DEF system

LEMMA RebindKeeps ==
  ASSUME NetInv, Rebind
  PROVE  NetInv'
<1>1. /\ NetworkTypeOK /\ manager # NoManager /\ manager.session # 0 /\ adapters < MaxAdapter
      /\ adapters' = adapters + 1 /\ adapter' \in {0, adapters'} /\ place' = Unbound
      /\ Begin("rebind")
      /\ UNCHANGED <<twin, conflict, disk, manager, alive, sessions, faults>>
  BY DEF NetInv, Rebind
<1>2. adapters' \in 0 .. MaxAdapter /\ adapter' \in 0 .. MaxAdapter
  BY <1>1, PlanAssumption DEF NetworkTypeOK
<1>3. place' \subseteq place
  BY <1>1 DEF Unbound
<1>4. NetworkTypeOK'
  BY <1>1, <1>2, <1>3, EmptySeq DEF NetworkTypeOK, Begin, Calls
<1>. QED
  BY <1>1, <1>3, <1>4, BeginKeeps

LEMMA ShutdownKeeps ==
  ASSUME NetInv, Shutdown
  PROVE  NetInv'
<1>1. NetworkTypeOK /\ pc = "idle" /\ UNCHANGED <<system, disk, counters>>
  BY DEF NetInv, Shutdown, ServiceIdle
<1>2. CASE Begin("shutdown") /\ UNCHANGED <<manager, alive>>
  <2>1. NetworkTypeOK'
    BY <1>1, <1>2, EmptySeq DEF NetworkTypeOK, Begin, Calls, system, counters
  <2>. QED
    BY <1>1, <1>2, <2>1, BeginKeeps DEF system
<1>3. CASE alive' = FALSE /\ UNCHANGED <<progress, value, manager>>
  <2>1. NetworkTypeOK'
    BY <1>1, <1>3 DEF NetworkTypeOK, progress, system, counters
  <2>. QED
    BY <1>1, <1>3, <2>1, ReturnedKeeps DEF system, progress
<1>. QED
  BY <1>2, <1>3 DEF Shutdown

LEMMA CrashKeeps ==
  ASSUME NetInv, ServiceCrashes
  PROVE  NetInv'
<1>1. NetworkTypeOK /\ EndCall /\ manager' = NoManager /\ alive' = FALSE
      /\ UNCHANGED <<system, disk, sessions, adapters>>
  BY DEF NetInv, ServiceCrashes
<1>2. faults' \in 0 .. MaxNetworkFaults
  BY <1>1, FaultType DEF ServiceCrashes, NetworkTypeOK
<1>3. NetworkTypeOK'
  BY <1>1, <1>2, EmptySeq DEF NetworkTypeOK, EndCall, system
<1>. QED
  BY <1>1, <1>3, ReturnedKeeps DEF EndCall, system

(* What others do, and what goes with the adapter, disturbs no claim: the  *)
(* system only loses resources.                                            *)
LEMMA EnvironmentKeeps ==
  ASSUME NetInv, place' \subseteq place, twin' \subseteq twin, conflict' \subseteq Kinds,
         adapter' \in {0, adapter},
         UNCHANGED <<disk, manager, value, progress, alive, counters>>
  PROVE  NetInv'
<1>1. /\ NetworkTypeOK /\ Covered /\ NotTheirs /\ RollbackCovers /\ NothingLeft /\ JournalIsAhead
      /\ ManagerReady /\ pc' = pc /\ index' = index /\ failed' = failed /\ call' = call
  BY DEF NetInv, progress
<1>2. adapter' \in 0 .. MaxAdapter
  BY <1>1, PlanAssumption DEF NetworkTypeOK
<1>3. NetworkTypeOK'
  BY <1>1, <1>2 DEF NetworkTypeOK, counters
<1>4. Covered' /\ NotTheirs'
  BY <1>1, CoveredKept, NotTheirsKept
<1>5. RollbackCovers'
  BY <1>1 DEF RollbackCovers, Created, ResourceOf
<1>6. NothingLeft' /\ JournalIsAhead' /\ ManagerReady'
  BY <1>1 DEF NothingLeft, JournalIsAhead, ManagerReady, IdOf
<1>. QED
  BY <1>3, <1>4, <1>5, <1>6 DEF NetInv

LEMMA NetworkNextKeeps ==
  ASSUME NetInv, [NetworkNext]_networkVars
  PROVE  NetInv'
<1>1. CASE Step
  BY <1>1, ReadJournalKeeps, UndoKeeps, ForgetKeeps, EndRollbackKeeps, CleanOrphansKeeps,
     AdapterReadyKeeps, InspectKeeps, ApplyKeeps, VerifyKeeps DEF Step
<1>2. CASE Request
  BY <1>2, StartKeeps, PrepareKeeps, PrepareTunKeeps, DeactivateKeeps, RebindKeeps, ShutdownKeeps
     DEF Request
<1>3. CASE ServiceCrashes
  BY <1>3, CrashKeeps
<1>4. CASE AdapterGone
  <2>1. adapter' = 0 /\ place' \subseteq place /\ twin' = twin /\ conflict' = conflict
        /\ UNCHANGED <<disk, manager, value, progress, alive, counters>>
    BY <1>4 DEF AdapterGone, Unbound
  <2>2. conflict' \subseteq Kinds
    BY <2>1 DEF NetInv, NetworkTypeOK
  <2>. QED
    BY <2>1, <2>2, EnvironmentKeeps
<1>5. CASE OtherProgram
  <2>1. UNCHANGED <<place, adapter, disk, manager, value, progress, alive, counters>>
    BY <1>5 DEF OtherProgram
  <2>2. conflict \subseteq Kinds
    BY DEF NetInv, NetworkTypeOK
  <2>3. twin' \subseteq twin /\ conflict' \subseteq Kinds
    BY <1>5, <2>2 DEF OtherProgram
  <2>. QED
    BY <2>1, <2>3, EnvironmentKeeps
<1>6. CASE UNCHANGED networkVars
  <2>1. conflict' \subseteq Kinds
    BY <1>6 DEF NetInv, NetworkTypeOK, networkVars, system
  <2>. QED
    BY <1>6, <2>1, EnvironmentKeeps DEF networkVars, system
<1>. QED
  BY <1>1, <1>2, <1>3, <1>4, <1>5, <1>6 DEF NetworkNext

LEMMA InitiallyNetInv ==
  ASSUME NetworkInit
  PROVE  NetInv
<1>1. /\ 0 \in 0 .. MaxSession /\ 0 \in 0 .. MaxAdapter /\ 0 \in 0 .. MaxNetworkFaults
  BY PlanAssumption
<1>2. NetworkTypeOK
  BY <1>1, EmptySeq DEF NetworkInit, NetworkTypeOK, Calls
<1>3. Covered /\ NotTheirs
  BY NothingUntwinned DEF NetworkInit, Covered, NotTheirs
<1>4. RollbackCovers /\ NothingLeft /\ JournalIsAhead /\ ManagerReady
  BY DEF NetworkInit, RollbackCovers, NothingLeft, JournalIsAhead, ManagerReady
<1>. QED
  BY <1>2, <1>3, <1>4 DEF NetInv

THEOREM NetworkInvariant == NetworkSpec => []NetInv
<1>1. NetworkInit => NetInv
  BY InitiallyNetInv
<1>2. NetInv /\ [NetworkNext]_networkVars => NetInv'
  BY NetworkNextKeeps
<1>. QED
  BY <1>1, <1>2, PTL DEF NetworkSpec

(* Type correctness of the network manager, its journal and the system.    *)
THEOREM NetworkTypeCorrect == NetworkSpec => []NetworkTypeOK
<1>1. NetInv => NetworkTypeOK
  BY DEF NetInv
<1>. QED
  BY <1>1, NetworkInvariant, PTL

-----------------------------------------------------------------------------
(* What the steps of the manager may do.                                   *)

(* A script takes whatever bears the identity: that is never another       *)
(* program's, for nothing of theirs is written down as Navo's.             *)
LEMMA StepsLeaveTwins ==
  ASSUME NetInv, Step
  PROVE  twin' = twin
<1>1. CASE Undo
  <2>. DEFINE entry == value[index]
              resource == [kind |-> entry.kind, id |-> entry.id]
  <2>1. NetworkTypeOK /\ Untwinned(value) /\ pc = "undo" /\ index > 0
        /\ index \in 0 .. Len(value) /\ value \in Seq(Entries)
    BY <1>1 DEF NetInv, NotTheirs, RollbackCovers, Undo, NetworkTypeOK
  <2>2. index \in DOMAIN value
    BY <2>1, LenProperties
  <2>3. entry.own => entry.kind \notin twin
    BY <2>1, <2>2 DEF Untwinned
  <2>4. CASE entry.own /\ TakeAway(resource)
    BY <2>3, <2>4 DEF TakeAway
  <2>5. CASE twin' = twin
    BY <2>5
  <2>. QED
    BY <1>1, <2>4, <2>5 DEF Undo
<1>2. CASE ReadJournal \/ ForgetEntry \/ EndRollback
  BY <1>2 DEF ReadJournal, ForgetEntry, EndRollback, system
<1>3. CASE CleanOrphans \/ AdapterReady \/ Inspect \/ Apply \/ Verify
  BY <1>3 DEF CleanOrphans, AdapterReady, Inspect, Apply, Verify, system
<1>. QED
  BY <1>1, <1>2, <1>3 DEF Step

LEMMA RecoveredDrops ==
  ASSUME NetInv, NEW ok \in BOOLEAN, Recovered(ok), pc \in {"read", "undo", "orphans"},
         manager # NoManager, manager' = NoManager, alive'
  PROVE  ok
<1>1. NetworkTypeOK /\ (call \in {"activate", "rebind"} => manager # NoManager /\ manager.session # 0)
  BY DEF NetInv, ManagerReady
<1>2. call \in {"activate", "rebind"} => manager \in Manager
  BY <1>1 DEF NetworkTypeOK
<1>. QED
  BY <1>1, <1>2, RecoveredLeads

(* The manager is dropped, and the Service goes on, only where the orphans *)
(* were looked for, and there the file is gone and the system clean.       *)
LEMMA DropsClean ==
  ASSUME NetInv, [NetworkNext]_networkVars, manager # NoManager, manager' = NoManager, alive'
  PROVE  place' = {} /\ disk' = NoJournal
<1>1. NetworkTypeOK /\ manager \in Manager
  BY DEF NetInv, NetworkTypeOK
<1>2. CASE ReadJournal
  BY <1>2, RecoveredDrops DEF ReadJournal
<1>3. CASE EndRollback
  BY <1>3, RecoveredDrops DEF EndRollback
<1>4. CASE CleanOrphans
  <2>1. pc = "orphans" /\ disk' = disk /\ place = {} /\ disk = NoJournal
    BY <1>4 DEF CleanOrphans, NetInv, NothingLeft
  <2>2. place' = {}
    BY <1>4, <2>1, RecoveredDrops DEF CleanOrphans
  <2>. QED
    BY <2>1, <2>2
<1>5. CASE Undo \/ ForgetEntry \/ Inspect \/ Apply
  BY <1>5 DEF Undo, ForgetEntry, Inspect, Apply
<1>6. CASE AdapterReady
  <2>1. manager' = manager \/ manager' = [manager EXCEPT !.adapter = adapter]
    BY <1>6 DEF AdapterReady
  <2>2. [manager EXCEPT !.adapter = adapter] \in Manager
    BY <1>1 DEF Manager, NetworkTypeOK
  <2>. QED
    BY <2>1, <2>2, ManagerType
<1>7. CASE Verify
  <2>1. manager' = manager \/ manager' = [manager EXCEPT !.active = TRUE]
    BY <1>7 DEF Verify
  <2>2. [manager EXCEPT !.active = TRUE] \in Manager
    BY <1>1 DEF Manager
  <2>. QED
    BY <2>1, <2>2, ManagerType
<1>8. CASE Start \/ Prepare \/ PrepareTUN
  BY <1>8, ManagerType DEF Start, Prepare, PrepareTUN
<1>9. CASE Deactivate \/ Rebind \/ Shutdown
  BY <1>9 DEF Deactivate, Rebind, Shutdown
<1>10. CASE ServiceCrashes \/ AdapterGone \/ OtherProgram \/ UNCHANGED networkVars
  BY <1>10 DEF ServiceCrashes, AdapterGone, OtherProgram, networkVars
<1>. QED
  BY <1>2, <1>3, <1>4, <1>5, <1>6, <1>7, <1>8, <1>9, <1>10 DEF NetworkNext, Step, Request

(* No step of the manager removes what another program had installed, and  *)
(* a call that reports success leaves nothing of Navo's behind             *)
(* (manager.go:121-134, 238-270, 343).                                     *)
THEOREM NetworkStaysClean == NetworkSpec => NetworkIsClean
<1>1. NetInv /\ [NetworkNext]_networkVars => [Step => twin' = twin]_networkVars
  BY StepsLeaveTwins
<1>2. NetInv /\ [NetworkNext]_networkVars
         => [manager # NoManager /\ manager' = NoManager /\ alive'
                => place' = {} /\ disk' = NoJournal]_networkVars
  BY DropsClean
<1>. QED
  BY <1>1, <1>2, NetworkInvariant, PTL DEF NetworkSpec, NetworkIsClean, OthersKept, CleanIsClean

-----------------------------------------------------------------------------
(* The journal and the system are a ledger.                                *)

LEMMA RecordedType ==
  ASSUME NetworkTypeOK
  PROVE  Recorded \subseteq Resources
BY CreatedType DEF Recorded, NetworkTypeOK, Journal

LedgerStep == Ledger!LedgerNext \/ UNCHANGED <<Recorded, place>>

(* The file is replaced while the system stands still.                     *)
LEMMA FileIsRewritten ==
  ASSUME NetInv, NetInv', place' = place
  PROVE  LedgerStep
<1>1. Recorded' \in SUBSET Resources
  <2>1. disk' # NoJournal => disk'.actions \in Seq(Entries)
    BY DEF NetInv, NetworkTypeOK, Journal
  <2>2. \A actions \in Seq(Entries) : Created(actions) \subseteq Resources
    BY CreatedType
  <2>. QED
    BY <2>1, <2>2 DEF Recorded, Created
<1>2. place \subseteq Recorded'
  BY DEF NetInv, Covered
<1>3. Ledger!Rewrite(Recorded')
  BY <1>2 DEF Ledger!Rewrite
<1>. QED
  BY <1>1, <1>3 DEF LedgerStep, Ledger!LedgerNext

(* Resources go while the file is left alone.                              *)
LEMMA ResourcesVanish ==
  ASSUME NetInv, place' \subseteq place, disk' = disk
  PROVE  LedgerStep
<1>1. place \ place' \in SUBSET Resources
  BY DEF NetInv, NetworkTypeOK
<1>2. Recorded' = Recorded
  BY DEF Recorded, Created
<1>3. Ledger!Vanish(place \ place')
  BY <1>2 DEF Ledger!Vanish
<1>. QED
  BY <1>1, <1>3 DEF LedgerStep, Ledger!LedgerNext

(* What is applied is the last entry of the journal on disk.               *)
LEMMA ApplyInstalls ==
  ASSUME NetInv, Apply
  PROVE  LedgerStep
<1>. DEFINE kind == PlanOperations[index]
<1>1. /\ NetworkTypeOK /\ pc = "apply" /\ disk # NoJournal /\ disk.actions = value
      /\ index \in DOMAIN PlanOperations /\ value \in Seq(Entries) /\ Len(value) \in Nat
      /\ value # <<>> /\ value[Len(value)] = [kind |-> kind, id |-> IdOf(kind), own |-> TRUE]
      /\ disk' = disk
  BY LenProperties DEF NetInv, JournalIsAhead, Apply, NetworkTypeOK
<1>2. Resource(kind) \in Recorded
  <2>1. Len(value) \in 1 .. Len(value)
    BY <1>1, EmptySeq
  <2>. QED
    BY <1>1, <2>1, CreatedBy DEF Recorded, Resource, ResourceOf
<1>3. Resource(kind) \in Resources
  BY <1>1, <1>2, RecordedType
<1>4. CASE place' = place \cup {Resource(kind)}
  <2>1. Recorded' = Recorded
    BY <1>1 DEF Recorded, Created
  <2>2. Ledger!Install(Resource(kind))
    BY <1>2, <1>4, <2>1 DEF Ledger!Install
  <2>. QED
    BY <1>3, <2>2 DEF LedgerStep, Ledger!LedgerNext
<1>5. CASE place' = place
  BY <1>1, <1>5, ResourcesVanish
<1>. QED
  BY <1>4, <1>5 DEF Apply

LEMMA StepsAreOfTheLedger ==
  ASSUME NetInv, NetInv', [NetworkNext]_networkVars
  PROVE  LedgerStep
<1>1. CASE Apply
  BY <1>1, ApplyInstalls
<1>2. CASE Undo
  <2>1. place' \subseteq place /\ disk' = disk
    BY <1>2 DEF Undo, TakeAway
  <2>. QED
    BY <2>1, ResourcesVanish
<1>3. CASE CleanOrphans
  <2>1. place' \subseteq place /\ disk' = disk
    BY <1>3 DEF CleanOrphans
  <2>. QED
    BY <2>1, ResourcesVanish
<1>4. CASE ReadJournal \/ ForgetEntry \/ EndRollback \/ AdapterReady \/ Inspect \/ Verify
  <2>1. place' = place
    BY <1>4 DEF ReadJournal, ForgetEntry, EndRollback, AdapterReady, Inspect, Verify, system
  <2>. QED
    BY <2>1, FileIsRewritten
<1>5. CASE Start \/ PrepareTUN \/ Deactivate \/ Shutdown \/ ServiceCrashes \/ OtherProgram
           \/ UNCHANGED networkVars
  <2>1. place' = place
    BY <1>5 DEF Start, PrepareTUN, Deactivate, Shutdown, ServiceCrashes, OtherProgram, networkVars, system
  <2>. QED
    BY <2>1, FileIsRewritten
<1>6. CASE Prepare \/ Rebind \/ AdapterGone
  <2>1. place' \subseteq place /\ disk' = disk
    BY <1>6 DEF Prepare, Rebind, AdapterGone, Unbound
  <2>. QED
    BY <2>1, ResourcesVanish
<1>. QED
  BY <1>1, <1>2, <1>3, <1>4, <1>5, <1>6 DEF NetworkNext, Step, Request

(* The journal on disk and the resources in the system implement the       *)
(* ledger: what is installed was recorded before, and no rewrite of the    *)
(* file drops what is still there (manager.go:118-160, 315-374).           *)
THEOREM JournalImplementsLedger == NetworkSpec => LedgerRefined
<1>1. NetworkInit => Ledger!LedgerInit
  BY DEF NetworkInit, Ledger!LedgerInit, Recorded
<1>2. NetInv /\ NetInv' /\ [NetworkNext]_networkVars => [Ledger!LedgerNext]_<<Recorded, place>>
  BY StepsAreOfTheLedger DEF LedgerStep
<1>. QED
  BY <1>1, <1>2, NetworkInvariant, PTL DEF NetworkSpec, LedgerRefined, Ledger!LedgerSpec

=============================================================================
