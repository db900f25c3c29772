------------------------- MODULE CoordinatorProofs -------------------------
(* Theorems about Coordinator, for every set of callers, identifiers and   *)
(* request bodies.                                                         *)
EXTENDS Coordinator, FiniteSetTheorems, TLAPS

-----------------------------------------------------------------------------
(* The inductive invariant behind SingleOwner.                             *)

InBegin(c) == pc[c] \in {"notifying", "selecting", "draining"}

(* A queued waiter is inside Begin and nothing has been decided for it.    *)
WaitersUndecided ==
  \A c \in waiters :
    /\ pc[c] \in {"notifying", "selecting"}
    /\ ready[c] = "empty"
    /\ \A d \in Clients : \A m \in outbox[d] : m.to # c

(* A message on its way goes to a client that waits for it.                *)
MessagesAwaited ==
  \A d \in Clients : \A m \in outbox[d] :
    InBegin(m.to) /\ ready[m.to] = "empty" /\ m.to \notin waiters

(* No client is owed two messages. *)
MessagesUnique ==
  \A d, e \in Clients : \A m \in outbox[d], n \in outbox[e] :
    m.to = n.to => d = e /\ m = n

(* Who may owe what. *)
OutboxShape ==
  \A d \in Clients : \A m \in outbox[d] :
    \/ pc[d] = "notifying" /\ m.result = "superseded"
    \/ pc[d] = "granting" /\ outbox[d] = {m}

(* A received message is for a client inside Begin that is queued no more. *)
ReadyAwaited ==
  \A c \in Clients : ready[c] # "empty" => InBegin(c) /\ c \notin waiters

(* A client inside Begin, or holding the transaction, has a request. *)
RequestKept ==
  \A c \in Clients : InBegin(c) \/ pc[c] = "owning" => request[c] # None

BusyHasWork == snapshot.busy => snapshot.body # None

AheadQueued == \A c \in Clients : ahead[c] \subseteq waiters

IInv ==
  /\ TypeOK
  /\ WaitersUndecided
  /\ MessagesAwaited
  /\ MessagesUnique
  /\ OutboxShape
  /\ ReadyAwaited
  /\ RequestKept
  /\ BusyHasWork
  /\ AheadQueued
  /\ NoLostWaiter
  /\ SnapshotNamesOwner
  /\ SingleOwner

-----------------------------------------------------------------------------
(* Facts about the pieces of the critical sections.                        *)

(* A transaction's identifier is an identifier. *)
LEMMA TransactionIdType ==
  ASSUME NEW c \in Clients, NEW r \in Requests
  PROVE  TransactionId(c, r) \in Ids /\ TransactionId(c, r) # None
BY NoneAssumption DEF TransactionId, Requests, Ids

(* The snapshot that startLocked leaves is a snapshot. *)
LEMMA StartedType ==
  ASSUME NEW c \in Clients, NEW r \in Requests, NEW n \in Nat
  PROVE  /\ Started(c, r, n) \in Snapshots
         /\ Started(c, r, n).busy
         /\ Started(c, r, n).id = TransactionId(c, r)
         /\ Started(c, r, n).body = r.body
         /\ Started(c, r, n).queued = n
         /\ r.body \in Bodies
BY TransactionIdType DEF Started, Snapshots, Phases, Requests

(* A request has a numeric rank. *)
LEMMA RankType ==
  ASSUME NEW r \in Requests
  PROVE  Rank(r.body) \in Nat
BY BodiesAssumption DEF Rank, IntentOf, IntentRank, OriginIntent, Requests, RequestBodies, Origins

(* Counting waiters gives a number. *)
LEMMA WaiterCount ==
  ASSUME NEW S \in SUBSET Clients
  PROVE  Cardinality(S) \in Nat
<1>1. IsFiniteSet(S)
  BY ClientsAssumption, FS_Subset
<1>. QED
  BY <1>1, FS_CardinalityType

-----------------------------------------------------------------------------
(* The invariant holds initially and every action keeps it.                *)

LEMMA InitIInv == Init => IInv
<1>. SUFFICES ASSUME Init PROVE IInv
  OBVIOUS
<1>1. TypeOK
  BY DEF Init, Free, TypeOK, Snapshots, Locations
<1>2. /\ WaitersUndecided /\ MessagesAwaited /\ MessagesUnique
      /\ OutboxShape /\ ReadyAwaited /\ RequestKept /\ BusyHasWork /\ AheadQueued
  BY DEF Init, WaitersUndecided, MessagesAwaited, MessagesUnique, OutboxShape,
         ReadyAwaited, RequestKept, BusyHasWork, AheadQueued, InBegin, Free
<1>3. NoLostWaiter
  BY FS_EmptySet DEF Init, Free, NoLostWaiter
<1>4. SnapshotNamesOwner /\ SingleOwner
  BY DEF Init, Free, SnapshotNamesOwner, SingleOwner, Granted
<1>. QED
  BY <1>1, <1>2, <1>3, <1>4 DEF IInv

LEMMA BeginImmediateKeepsIInv ==
  ASSUME IInv, NEW c \in Clients, NEW r \in Requests, BeginImmediate(c, r)
  PROVE  IInv' /\ \A d \in Clients : Granted(d)' <=> d = c
<1>. USE DEF BeginImmediate
<1>0. r # None /\ r.body \in Bodies /\ r.body # None
  BY NoneAssumption DEF Requests
<1>1. TypeOK'
  BY StartedType DEF IInv, TypeOK, Snapshots, Locations
<1>2. WaitersUndecided' /\ MessagesAwaited' /\ MessagesUnique' /\ OutboxShape' /\ ReadyAwaited'
  BY DEF IInv, WaitersUndecided, MessagesAwaited, MessagesUnique, OutboxShape,
         ReadyAwaited, InBegin, TypeOK, Messages
<1>3. RequestKept' /\ BusyHasWork' /\ AheadQueued'
  BY <1>0 DEF IInv, RequestKept, BusyHasWork, AheadQueued, InBegin, TypeOK, Started
<1>4. NoLostWaiter'
  BY FS_EmptySet DEF IInv, NoLostWaiter, Started
<1>5. \A d \in Clients : ~Granted(d)
  BY DEF IInv, SnapshotNamesOwner
<1>6. \A d \in Clients : Granted(d)' <=> d = c
  BY <1>5 DEF IInv, Granted, TypeOK
<1>7. request'[c] = r /\ snapshot' = Started(c, r, 0)
  BY DEF IInv, TypeOK
<1>8. SnapshotNamesOwner'
  BY <1>0, <1>6, <1>7 DEF SnapshotNamesOwner, Started, TransactionId
<1>9. SingleOwner'
  BY <1>6 DEF SingleOwner
<1>. QED
  BY <1>1, <1>2, <1>3, <1>4, <1>6, <1>8, <1>9 DEF IInv

LEMMA BeginQueuedKeepsIInv ==
  ASSUME IInv, NEW c \in Clients, NEW r \in Requests, BeginQueued(c, r)
  PROVE  IInv' /\ ~Granted(c) /\ \A d \in Clients : Granted(d)' <=> Granted(d)
<1>. USE DEF BeginQueued
<1>. DEFINE dropped == Superseded(r)
            kept    == waiters \ dropped
            queue   == kept \cup {c}
<1>1. /\ dropped \subseteq waiters /\ waiters \subseteq Clients
      /\ queue \subseteq Clients /\ Cardinality(queue) \in Nat
      /\ c \notin waiters
  BY WaiterCount DEF Superseded, IInv, TypeOK, WaitersUndecided
<1>2. /\ waiters' = queue
      /\ ahead' = [w \in Clients |-> IF w = c THEN kept
                                     ELSE IF w \in dropped THEN {}
                                     ELSE ahead[w] \ dropped]
      /\ snapshot' = [snapshot EXCEPT !.queued = Cardinality(queue)]
      /\ outbox' = [outbox EXCEPT ![c] = [to : dropped, result : {"superseded"}]]
      /\ pc' = [pc EXCEPT ![c] = IF dropped = {} THEN "selecting" ELSE "notifying"]
      /\ request' = [request EXCEPT ![c] = r]
      /\ ready' = ready /\ cancelled' = cancelled
  BY DEF Superseded
<1>. HIDE DEF dropped, BeginQueued
<1>3. outbox[c] = {} /\ ready[c] = "empty" /\ pc[c] = "idle" /\ snapshot.busy
  BY DEF BeginQueued, IInv, OutboxShape, ReadyAwaited, InBegin, NoLostWaiter, TypeOK
<1>4. r # None
  BY NoneAssumption
<1>5. TypeOK'
  BY <1>1, <1>2 DEF IInv, TypeOK, Snapshots, Locations, Messages
<1>6. \A d \in Clients : \A m \in outbox'[d] :
        \/ d # c /\ m \in outbox[d]
        \/ d = c /\ m.to \in dropped /\ m.result = "superseded" /\ pc'[c] = "notifying"
  BY <1>1, <1>2 DEF IInv, TypeOK
<1>7. WaitersUndecided'
  BY <1>1, <1>2, <1>3, <1>6 DEF IInv, WaitersUndecided, MessagesAwaited, InBegin, TypeOK
<1>8. MessagesAwaited'
  BY <1>1, <1>2, <1>3, <1>6 DEF IInv, WaitersUndecided, MessagesAwaited, InBegin, TypeOK
<1>9. MessagesUnique'
  BY <1>1, <1>2, <1>3, <1>6 DEF IInv, WaitersUndecided, MessagesUnique, TypeOK, Messages
<1>10. OutboxShape'
  BY <1>1, <1>2, <1>3, <1>6 DEF IInv, OutboxShape, TypeOK
<1>11. ReadyAwaited' /\ RequestKept' /\ BusyHasWork' /\ AheadQueued'
  BY <1>1, <1>2, <1>3, <1>4 DEF IInv, ReadyAwaited, RequestKept, BusyHasWork,
     AheadQueued, InBegin, TypeOK, Snapshots
<1>12. NoLostWaiter'
  BY <1>1, <1>2, <1>3 DEF IInv, NoLostWaiter, TypeOK, Snapshots
<1>13. \A d \in Clients : Granted(d)' <=> Granted(d)
  BY <1>1, <1>2, <1>3, <1>6 DEF IInv, Granted, TypeOK
<1>14. ~Granted(c)
  BY <1>3 DEF Granted, IInv, MessagesAwaited, InBegin
<1>15. SnapshotNamesOwner'
  BY <1>2, <1>3, <1>13, <1>14 DEF IInv, SnapshotNamesOwner, TransactionId, TypeOK, Snapshots
<1>16. SingleOwner'
  BY <1>13 DEF IInv, SingleOwner
<1>. QED
  BY <1>5, <1>7, <1>8, <1>9, <1>10, <1>11, <1>12, <1>13, <1>14, <1>15, <1>16 DEF IInv

LEMMA NotifyKeepsIInv ==
  ASSUME IInv, NEW c \in Clients, Notify(c)
  PROVE  IInv' /\ \A d \in Clients : Granted(d)' <=> Granted(d)
<1>1. PICK m \in outbox[c] :
        /\ ready[m.to] = "empty"
        /\ ready' = [ready EXCEPT ![m.to] = m.result]
        /\ outbox' = [outbox EXCEPT ![c] = @ \ {m}]
        /\ IF outbox[c] = {m}
           THEN pc' = [pc EXCEPT ![c] = IF @ = "notifying" THEN "selecting" ELSE "idle"]
           ELSE pc' = pc
  BY DEF Notify
<1>2. /\ pc[c] \in {"notifying", "granting"}
      /\ UNCHANGED <<snapshot, waiters, ahead, cancelled, request>>
  BY DEF Notify
<1>3. /\ m \in Messages /\ m.to \in Clients /\ m.result \in {"transaction", "superseded"}
      /\ m.result # "empty"
      /\ m = [to |-> m.to, result |-> m.result]
  BY DEF IInv, TypeOK, Messages
<1>4. TypeOK'
  BY <1>1, <1>2, <1>3 DEF IInv, TypeOK, Locations
<1>5. \A d \in Clients : outbox'[d] = IF d = c THEN outbox[c] \ {m} ELSE outbox[d]
  BY <1>1 DEF IInv, TypeOK
<1>6. InBegin(m.to) /\ m.to \notin waiters
  BY <1>3 DEF IInv, MessagesAwaited
<1>7. \A d \in Clients : /\ d # c => pc'[d] = pc[d]
                         /\ InBegin(d)' <=> InBegin(d)
                         /\ pc'[d] = "owning" <=> pc[d] = "owning"
  BY <1>1, <1>2 DEF InBegin, IInv, TypeOK
<1>8. WaitersUndecided'
  BY <1>1, <1>2, <1>3, <1>5, <1>6 DEF IInv, WaitersUndecided, TypeOK
<1>9. \A d \in Clients : \A n \in outbox'[d] : n \in outbox[d] /\ n.to # m.to
  BY <1>1, <1>3, <1>5 DEF IInv, MessagesUnique
<1>10. MessagesAwaited'
  BY <1>1, <1>2, <1>3, <1>5, <1>7, <1>9 DEF IInv, MessagesAwaited, TypeOK, Messages
<1>11. MessagesUnique'
  BY <1>5 DEF IInv, MessagesUnique
<1>12. OutboxShape'
  BY <1>1, <1>2, <1>5 DEF IInv, OutboxShape, TypeOK
<1>13. ReadyAwaited'
  BY <1>1, <1>2, <1>3, <1>6, <1>7 DEF IInv, ReadyAwaited, TypeOK
<1>14. RequestKept' /\ BusyHasWork' /\ AheadQueued' /\ NoLostWaiter'
  BY <1>2, <1>7 DEF IInv, RequestKept, BusyHasWork, AheadQueued, NoLostWaiter
<1>15. \A d \in Clients : Granted(d)' => Granted(d)
  BY <1>1, <1>3, <1>5, <1>7 DEF Granted, IInv, TypeOK
<1>16. ASSUME NEW d \in Clients, Granted(d) PROVE Granted(d)'
  <2>1. CASE pc[d] = "owning"
    BY <2>1, <1>7 DEF Granted
  <2>2. CASE ready[d] = "transaction"
    BY <2>2, <1>1, <1>3 DEF Granted, IInv, TypeOK
  <2>3. CASE \E e \in Clients : [to |-> d, result |-> "transaction"] \in outbox[e]
    <3>1. PICK e \in Clients : [to |-> d, result |-> "transaction"] \in outbox[e]
      BY <2>3
    <3>2. CASE [to |-> d, result |-> "transaction"] = m
      <4>1. m.to = d /\ m.result = "transaction"
        BY <3>2
      <4>2. ready'[d] = "transaction"
        BY <4>1, <1>1 DEF IInv, TypeOK
      <4>. QED
        BY <4>2 DEF Granted
    <3>3. CASE [to |-> d, result |-> "transaction"] # m
      <4>1. [to |-> d, result |-> "transaction"] \in outbox'[e]
        BY <3>1, <3>3, <1>5
      <4>. QED
        BY <4>1 DEF Granted
    <3>. QED
      BY <3>2, <3>3
  <2>. QED
    BY <1>16, <2>1, <2>2, <2>3 DEF Granted
<1>17. SnapshotNamesOwner' /\ SingleOwner'
  BY <1>2, <1>15, <1>16 DEF IInv, SnapshotNamesOwner, SingleOwner, TransactionId
<1>. QED
  BY <1>4, <1>8, <1>10, <1>11, <1>12, <1>13, <1>14, <1>15, <1>16, <1>17 DEF IInv

LEMMA CancelKeepsIInv ==
  ASSUME IInv, NEW c \in Clients, Cancel(c)
  PROVE  IInv' /\ \A d \in Clients : Granted(d)' <=> Granted(d)
<1>1. UNCHANGED <<snapshot, waiters, ahead, ready, outbox, request, pc>>
  BY DEF Cancel
<1>2. TypeOK'
  BY DEF Cancel, IInv, TypeOK
<1>3. WaitersUndecided' /\ MessagesAwaited' /\ MessagesUnique' /\ OutboxShape' /\ ReadyAwaited'
  BY <1>1 DEF IInv, WaitersUndecided, MessagesAwaited, MessagesUnique, OutboxShape,
     ReadyAwaited, InBegin
<1>4. RequestKept' /\ BusyHasWork' /\ AheadQueued' /\ NoLostWaiter'
  BY <1>1 DEF IInv, RequestKept, BusyHasWork, AheadQueued, NoLostWaiter, InBegin
<1>5. SnapshotNamesOwner' /\ SingleOwner'
  BY <1>1 DEF IInv, SnapshotNamesOwner, SingleOwner, Granted, TransactionId
<1>6. \A d \in Clients : Granted(d)' <=> Granted(d)
  BY <1>1 DEF Granted
<1>. QED
  BY <1>2, <1>3, <1>4, <1>5, <1>6 DEF IInv

LEMMA ReceiveReadyKeepsIInv ==
  ASSUME IInv, NEW c \in Clients, ReceiveReady(c)
  PROVE  IInv' /\ \A d \in Clients : Granted(d)' <=> Granted(d)
<1>1. /\ pc[c] = "selecting" /\ ready[c] # "empty"
      /\ ready' = [ready EXCEPT ![c] = "empty"]
      /\ pc' = [pc EXCEPT ![c] = IF ready[c] = "transaction" THEN "owning" ELSE "idle"]
      /\ request' = [request EXCEPT ![c] = IF ready[c] = "transaction" THEN @ ELSE None]
      /\ cancelled' \subseteq cancelled
      /\ UNCHANGED <<snapshot, waiters, ahead, outbox>>
  BY DEF ReceiveReady, Forget, IInv, TypeOK
<1>2. /\ c \notin waiters
      /\ \A d \in Clients : \A m \in outbox[d] : m.to # c
      /\ outbox[c] = {}
  BY <1>1 DEF IInv, ReadyAwaited, MessagesAwaited, OutboxShape
<1>3. TypeOK'
  BY <1>1 DEF IInv, TypeOK, Locations
<1>4. WaitersUndecided' /\ MessagesAwaited' /\ MessagesUnique' /\ OutboxShape' /\ ReadyAwaited'
  BY <1>1, <1>2 DEF IInv, WaitersUndecided, MessagesAwaited, MessagesUnique, OutboxShape,
     ReadyAwaited, InBegin, TypeOK, Messages
<1>5. RequestKept' /\ BusyHasWork' /\ AheadQueued' /\ NoLostWaiter'
  BY <1>1 DEF IInv, RequestKept, BusyHasWork, AheadQueued, NoLostWaiter, InBegin, TypeOK
<1>6. \A d \in Clients : Granted(d)' <=> Granted(d)
  BY <1>1, <1>2 DEF IInv, Granted, TypeOK, Messages
<1>7. \A d \in Clients : Granted(d) => request'[d] = request[d]
  BY <1>1, <1>2 DEF IInv, Granted, TypeOK, Messages
<1>8. SnapshotNamesOwner' /\ SingleOwner'
  BY <1>1, <1>6, <1>7 DEF IInv, SnapshotNamesOwner, SingleOwner, TransactionId
<1>. QED
  BY <1>3, <1>4, <1>5, <1>6, <1>8 DEF IInv

LEMMA GiveUpKeepsIInv ==
  ASSUME IInv, NEW c \in Clients, GiveUp(c)
  PROVE  IInv' /\ \A d \in Clients : Granted(d)' <=> Granted(d)
<1>1. /\ pc[c] = "selecting" /\ outbox[c] = {}
      /\ UNCHANGED <<ready, outbox>>
  BY DEF GiveUp, IInv, OutboxShape
<1>2. CASE c \in waiters
  <2>1. /\ waiters' = waiters \ {c}
        /\ ahead' = [d \in Clients |-> IF d \in {c} THEN {} ELSE ahead[d] \ {c}]
        /\ snapshot' = [snapshot EXCEPT !.queued = Cardinality(waiters \ {c})]
        /\ pc' = [pc EXCEPT ![c] = "idle"]
        /\ request' = [request EXCEPT ![c] = None]
        /\ cancelled' = cancelled \ {c}
    BY <1>2 DEF GiveUp, Forget, Unqueue
  <2>2. Cardinality(waiters \ {c}) \in Nat
    BY WaiterCount DEF IInv, TypeOK
  <2>3. /\ ready[c] = "empty"
        /\ \A d \in Clients : \A m \in outbox[d] : m.to # c
    BY <1>2 DEF IInv, WaitersUndecided
  <2>4. TypeOK'
    BY <2>1, <2>2, <1>1 DEF IInv, TypeOK, Snapshots, Locations
  <2>5. WaitersUndecided' /\ MessagesAwaited' /\ MessagesUnique' /\ OutboxShape' /\ ReadyAwaited'
    BY <1>1, <2>1, <2>3 DEF IInv, WaitersUndecided, MessagesAwaited, MessagesUnique,
       OutboxShape, ReadyAwaited, InBegin, TypeOK, Messages
  <2>6. RequestKept' /\ BusyHasWork' /\ AheadQueued' /\ NoLostWaiter'
    BY <2>1, <2>2 DEF IInv, RequestKept, BusyHasWork, AheadQueued, NoLostWaiter, InBegin,
       TypeOK, Snapshots
  <2>7. \A d \in Clients : /\ Granted(d)' <=> Granted(d)
                           /\ Granted(d) => request'[d] = request[d]
    BY <1>1, <2>1, <2>3 DEF IInv, Granted, TypeOK, Messages
  <2>8. SnapshotNamesOwner' /\ SingleOwner'
    BY <2>1, <2>7 DEF IInv, SnapshotNamesOwner, SingleOwner, TransactionId, TypeOK, Snapshots
  <2>. QED
    BY <2>4, <2>5, <2>6, <2>7, <2>8 DEF IInv
<1>3. CASE c \notin waiters
  <2>1. /\ pc' = [pc EXCEPT ![c] = "draining"]
        /\ UNCHANGED <<snapshot, waiters, ahead, cancelled, request>>
    BY <1>3 DEF GiveUp
  <2>2. TypeOK'
    BY <1>1, <2>1 DEF IInv, TypeOK, Locations
  <2>3. WaitersUndecided' /\ MessagesAwaited' /\ MessagesUnique' /\ OutboxShape' /\ ReadyAwaited'
    BY <1>1, <1>3, <2>1 DEF IInv, WaitersUndecided, MessagesAwaited, MessagesUnique,
       OutboxShape, ReadyAwaited, InBegin, TypeOK, Messages
  <2>4. RequestKept' /\ BusyHasWork' /\ AheadQueued' /\ NoLostWaiter'
    BY <1>1, <2>1 DEF IInv, RequestKept, BusyHasWork, AheadQueued, NoLostWaiter, InBegin, TypeOK
  <2>5. \A d \in Clients : Granted(d)' <=> Granted(d)
    BY <1>1, <2>1 DEF IInv, Granted, TypeOK
  <2>6. SnapshotNamesOwner' /\ SingleOwner'
    BY <2>1, <2>5 DEF IInv, SnapshotNamesOwner, SingleOwner, TransactionId
  <2>. QED
    BY <2>2, <2>3, <2>4, <2>5, <2>6 DEF IInv
<1>. QED
  BY <1>2, <1>3

(* What Finish does to the gate: it is left free, or a waiter gets it.     *)
HandedOver ==
  \/ waiters = {} /\ waiters' = {} /\ \A d \in Clients : ~Granted(d)'
  \/ \E w \in waiters : /\ IsNext(w) /\ waiters' = waiters \ {w}
                        /\ \A d \in Clients : Granted(d)' <=> d = w

(* The critical section of Finish, entered by whoever has the transaction  *)
(* in its hands: from Finish, or from Begin when cancellation lost.        *)
LEMMA ReleaseKeepsIInv ==
  ASSUME IInv, NEW c \in Clients, Granted(c), pc[c] \in {"owning", "draining"},
         \A d \in Clients : \A m \in outbox[d] : m.to # c,
         ready' = [ready EXCEPT ![c] = "empty"],
         Release(c)
  PROVE  IInv' /\ HandedOver
<1>. DEFINE left == Cleared(c)
<1>1. /\ request[c] \in Requests /\ snapshot.busy
      /\ snapshot.id = TransactionId(c, request[c])
      /\ c \notin waiters /\ outbox[c] = {}
  BY DEF IInv, SnapshotNamesOwner, TypeOK, WaitersUndecided, OutboxShape, ReadyAwaited, Granted
<1>2. left \in Snapshots /\ ~left.busy /\ left.queued = Cardinality(waiters)
  BY <1>1, WaiterCount DEF IInv, TypeOK, Cleared, Free, Snapshots
<1>3. /\ request' = [request EXCEPT ![c] = None]
      /\ cancelled' = cancelled \ {c}
  BY DEF Release, Forget
<1>4. \A d \in Clients : Granted(d) => d = c
  BY DEF IInv, SingleOwner
<1>. HIDE DEF left
<1>5. CASE /\ waiters = {} /\ snapshot' = left /\ pc' = [pc EXCEPT ![c] = "idle"]
           /\ UNCHANGED <<waiters, ahead, outbox>>
  <2>1. TypeOK'
    BY <1>2, <1>3, <1>5 DEF IInv, TypeOK, Locations
  <2>2. WaitersUndecided' /\ MessagesAwaited' /\ MessagesUnique' /\ OutboxShape' /\ ReadyAwaited'
    BY <1>1, <1>5 DEF IInv, WaitersUndecided, MessagesAwaited, MessagesUnique,
       OutboxShape, ReadyAwaited, InBegin, TypeOK, Messages
  <2>3. RequestKept' /\ BusyHasWork' /\ AheadQueued' /\ NoLostWaiter'
    BY <1>2, <1>3, <1>5 DEF IInv, RequestKept, BusyHasWork, AheadQueued, NoLostWaiter,
       InBegin, TypeOK
  <2>4. \A d \in Clients : ~Granted(d)'
    BY <1>4, <1>5 DEF IInv, Granted, TypeOK, Messages
  <2>5. SnapshotNamesOwner' /\ SingleOwner'
    BY <1>2, <1>5, <2>4 DEF SnapshotNamesOwner, SingleOwner
  <2>. QED
    BY <1>5, <2>1, <2>2, <2>3, <2>4, <2>5 DEF IInv, HandedOver
<1>6. ASSUME NEW w \in waiters, IsNext(w), Unqueue({w}),
             snapshot' = Started(w, request[w], Cardinality(waiters \ {w})),
             outbox' = [outbox EXCEPT ![c] = {[to |-> w, result |-> "transaction"]}],
             pc' = [pc EXCEPT ![c] = "granting"]
      PROVE  IInv' /\ HandedOver
  <2>1. /\ w \in Clients /\ w # c /\ request[w] \in Requests /\ InBegin(w)
        /\ ready[w] = "empty"
        /\ \A d \in Clients : \A m \in outbox[d] : m.to # w
    BY <1>1 DEF IInv, TypeOK, WaitersUndecided, RequestKept, InBegin
  <2>2. /\ waiters' = waiters \ {w}
        /\ ahead' = [d \in Clients |-> IF d \in {w} THEN {} ELSE ahead[d] \ {w}]
        /\ Cardinality(waiters \ {w}) \in Nat
    BY <1>6, WaiterCount DEF Unqueue, IInv, TypeOK
  <2>3. /\ snapshot' \in Snapshots /\ snapshot'.busy
        /\ snapshot'.id = TransactionId(w, request[w])
        /\ snapshot'.body = request[w].body /\ request[w].body \in Bodies
        /\ snapshot'.queued = Cardinality(waiters')
    BY <1>2, <1>6, <2>1, <2>2, StartedType
  <2>4. TypeOK'
    BY <1>3, <1>6, <2>1, <2>2, <2>3 DEF IInv, TypeOK, Locations, Messages
  <2>5. \A d \in Clients : \A m \in outbox'[d] :
          \/ d # c /\ m \in outbox[d]
          \/ d = c /\ m = [to |-> w, result |-> "transaction"]
    BY <1>6 DEF IInv, TypeOK
  <2>6. \A d \in Clients : d # c => pc'[d] = pc[d] /\ ready'[d] = ready[d]
    BY <1>6 DEF IInv, TypeOK
  <2>7. WaitersUndecided'
    BY <1>1, <2>1, <2>2, <2>5, <2>6 DEF IInv, TypeOK, WaitersUndecided
  <2>8. MessagesAwaited'
    BY <1>1, <2>1, <2>2, <2>5, <2>6 DEF IInv, TypeOK, MessagesAwaited, Messages, InBegin
  <2>9. MessagesUnique'
    BY <2>1, <2>5 DEF IInv, MessagesUnique
  <2>10. OutboxShape'
    BY <1>6, <2>5, <2>6 DEF IInv, OutboxShape, TypeOK
  <2>11. ReadyAwaited' /\ RequestKept' /\ BusyHasWork' /\ AheadQueued'
    BY <1>3, <1>6, <2>1, <2>2, <2>3, <2>6, NoneAssumption DEF IInv, TypeOK, ReadyAwaited,
       RequestKept, BusyHasWork, AheadQueued, InBegin
  <2>12. NoLostWaiter'
    BY <2>3 DEF NoLostWaiter
  <2>13. Granted(w)'
    BY <1>6, <2>1 DEF Granted, IInv, TypeOK
  <2>14. \A d \in Clients : Granted(d)' => d = w
    <3>1. ASSUME NEW d \in Clients, Granted(d)', d # w PROVE FALSE
      <4>1. ~(\E e \in Clients : [to |-> d, result |-> "transaction"] \in outbox'[e])
               \/ \E e \in Clients : [to |-> d, result |-> "transaction"] \in outbox[e]
        BY <2>5, <3>1
      <4>2. pc'[d] = "owning" => pc[d] = "owning" /\ d # c
        BY <1>6 DEF IInv, TypeOK
      <4>3. ready'[d] = "transaction" => ready[d] = "transaction" /\ d # c
        BY DEF IInv, TypeOK
      <4>4. d = c
        BY <1>4, <3>1, <4>1, <4>2, <4>3 DEF Granted
      <4>. QED
        BY <3>1, <4>1, <4>2, <4>3, <4>4 DEF Granted
    <3>. QED
      BY <3>1
  <2>15. request'[w] = request[w] /\ request[w] # None
    BY <1>3, <2>1, NoneAssumption DEF IInv, TypeOK
  <2>16. SnapshotNamesOwner' /\ SingleOwner'
    BY <2>1, <2>3, <2>13, <2>14, <2>15 DEF SnapshotNamesOwner, SingleOwner, TransactionId
  <2>17. HandedOver
    BY <1>6, <2>2, <2>13, <2>14 DEF HandedOver
  <2>. QED
    BY <2>4, <2>7, <2>8, <2>9, <2>10, <2>11, <2>12, <2>16, <2>17 DEF IInv
<1>. QED
  BY <1>5, <1>6 DEF Release, left

LEMMA FinishKeepsIInv ==
  ASSUME IInv, NEW c \in Clients, Finish(c)
  PROVE  IInv' /\ HandedOver /\ Granted(c)
<1>1. /\ Granted(c) /\ Release(c) /\ ready' = ready /\ pc[c] = "owning"
      /\ ready[c] = "empty"
      /\ \A d \in Clients : \A m \in outbox[d] : m.to # c
  BY DEF Finish, Granted, IInv, ReadyAwaited, MessagesAwaited, InBegin
<1>2. ready' = [ready EXCEPT ![c] = "empty"]
  BY <1>1 DEF IInv, TypeOK
<1>. QED
  BY <1>1, <1>2, ReleaseKeepsIInv

LEMMA DrainKeepsIInv ==
  ASSUME IInv, NEW c \in Clients, Drain(c)
  PROVE  /\ IInv'
         /\ \/ HandedOver /\ Granted(c)
            \/ waiters' = waiters /\ \A d \in Clients : Granted(d)' <=> Granted(d)
<1>1. /\ pc[c] = "draining" /\ ready[c] # "empty"
      /\ ready' = [ready EXCEPT ![c] = "empty"]
      /\ c \notin waiters /\ outbox[c] = {}
      /\ \A d \in Clients : \A m \in outbox[d] : m.to # c
  BY DEF Drain, IInv, ReadyAwaited, MessagesAwaited, OutboxShape
<1>2. CASE ready[c] = "transaction"
  <2>1. Granted(c) /\ Release(c)
    BY <1>2 DEF Drain, Granted
  <2>. QED
    BY <1>1, <2>1, ReleaseKeepsIInv
<1>3. CASE ready[c] # "transaction"
  <2>1. /\ pc' = [pc EXCEPT ![c] = "idle"]
        /\ request' = [request EXCEPT ![c] = None] /\ cancelled' = cancelled \ {c}
        /\ UNCHANGED <<snapshot, waiters, ahead, outbox>>
    BY <1>3 DEF Drain, Forget
  <2>2. TypeOK'
    BY <1>1, <2>1 DEF IInv, TypeOK, Locations
  <2>3. WaitersUndecided' /\ MessagesAwaited' /\ MessagesUnique' /\ OutboxShape' /\ ReadyAwaited'
    BY <1>1, <2>1 DEF IInv, WaitersUndecided, MessagesAwaited, MessagesUnique,
       OutboxShape, ReadyAwaited, InBegin, TypeOK, Messages
  <2>4. RequestKept' /\ BusyHasWork' /\ AheadQueued' /\ NoLostWaiter'
    BY <1>1, <2>1 DEF IInv, RequestKept, BusyHasWork, AheadQueued, NoLostWaiter, InBegin, TypeOK
  <2>5. \A d \in Clients : /\ Granted(d)' <=> Granted(d)
                           /\ Granted(d) => request'[d] = request[d]
    BY <1>1, <1>3, <2>1 DEF IInv, Granted, TypeOK, Messages
  <2>6. SnapshotNamesOwner' /\ SingleOwner'
    BY <2>1, <2>5 DEF IInv, SnapshotNamesOwner, SingleOwner, TransactionId
  <2>. QED
    BY <2>1, <2>2, <2>3, <2>4, <2>5, <2>6 DEF IInv
<1>. QED
  BY <1>2, <1>3

LEMMA SetPhaseKeepsIInv ==
  ASSUME IInv, NEW c \in Clients, NEW phase \in Phases, SetPhase(c, phase)
  PROVE  IInv' /\ \A d \in Clients : Granted(d)' <=> Granted(d)
<1>1. /\ snapshot' = [snapshot EXCEPT !.phase = phase]
      /\ UNCHANGED <<waiters, ahead, ready, outbox, cancelled, request, pc>>
  BY DEF SetPhase
<1>2. TypeOK'
  BY <1>1 DEF IInv, TypeOK, Snapshots
<1>3. WaitersUndecided' /\ MessagesAwaited' /\ MessagesUnique' /\ OutboxShape' /\ ReadyAwaited'
  BY <1>1 DEF IInv, WaitersUndecided, MessagesAwaited, MessagesUnique, OutboxShape,
     ReadyAwaited, InBegin
<1>4. RequestKept' /\ BusyHasWork' /\ AheadQueued' /\ NoLostWaiter'
  BY <1>1 DEF IInv, RequestKept, BusyHasWork, AheadQueued, NoLostWaiter, InBegin, TypeOK, Snapshots
<1>5. SnapshotNamesOwner' /\ SingleOwner'
  BY <1>1 DEF IInv, SnapshotNamesOwner, SingleOwner, Granted, TransactionId, TypeOK, Snapshots
<1>6. \A d \in Clients : Granted(d)' <=> Granted(d)
  BY <1>1 DEF Granted
<1>. QED
  BY <1>2, <1>3, <1>4, <1>5, <1>6 DEF IInv

LEMMA NextKeepsIInv == IInv /\ [Next]_vars => IInv'
<1>. SUFFICES ASSUME IInv, [Next]_vars PROVE IInv'
  OBVIOUS
<1>1. CASE UNCHANGED vars
  <2>1. TypeOK' /\ WaitersUndecided' /\ MessagesAwaited' /\ MessagesUnique' /\ OutboxShape'
    BY <1>1 DEF vars, IInv, TypeOK, WaitersUndecided, MessagesAwaited, MessagesUnique,
       OutboxShape, InBegin
  <2>2. ReadyAwaited' /\ RequestKept' /\ BusyHasWork' /\ AheadQueued' /\ NoLostWaiter'
    BY <1>1 DEF vars, IInv, ReadyAwaited, RequestKept, BusyHasWork, AheadQueued,
       NoLostWaiter, InBegin
  <2>3. SnapshotNamesOwner' /\ SingleOwner'
    BY <1>1 DEF vars, IInv, SnapshotNamesOwner, SingleOwner, Granted, TransactionId
  <2>. QED
    BY <2>1, <2>2, <2>3 DEF IInv
<1>2. CASE Next
  BY <1>2, BeginImmediateKeepsIInv, BeginQueuedKeepsIInv, NotifyKeepsIInv, CancelKeepsIInv,
     ReceiveReadyKeepsIInv, GiveUpKeepsIInv, FinishKeepsIInv, DrainKeepsIInv,
     SetPhaseKeepsIInv DEF Next
<1>. QED
  BY <1>1, <1>2

(* IInv is an invariant of the coordinator. *)
THEOREM InductiveInvariant == Spec => []IInv
BY InitIInv, NextKeepsIInv, PTL DEF Spec

(* Every variable keeps its type, for any number of callers. *)
THEOREM TypeCorrect == Spec => []TypeOK
BY InductiveInvariant, PTL DEF IInv

(* At most one caller holds the connection transaction, counting a grant   *)
(* that is still on its way, and the snapshot names that caller.           *)
THEOREM MutualExclusion == Spec => [](SingleOwner /\ SnapshotNamesOwner)
BY InductiveInvariant, PTL DEF IInv

(* A waiter always has an owner ahead of it whose Finish will serve it.    *)
THEOREM QueueServed == Spec => []NoLostWaiter
BY InductiveInvariant, PTL DEF IInv

-----------------------------------------------------------------------------
(* Nobody who waits is forgotten, and nobody is answered twice.            *)

(* A client inside Begin is queued, or has its answer, or is owed one.     *)
WaitersOwed ==
  \A c \in Clients : InBegin(c) =>
    \/ c \in waiters \/ ready[c] # "empty"
    \/ \E d \in Clients : \E m \in outbox[d] : m.to = c

(* Finish and Drain take one waiter off the list and owe it a message.     *)
LEMMA ReleaseKeepsWaitersOwed ==
  ASSUME IInv, WaitersOwed, NEW c \in Clients, Release(c), outbox[c] = {},
         ready' \in {ready, [ready EXCEPT ![c] = "empty"]}
  PROVE  WaitersOwed'
<1>1. CASE waiters = {} /\ pc' = [pc EXCEPT ![c] = "idle"] /\ UNCHANGED <<waiters, ahead, outbox>>
  BY <1>1 DEF WaitersOwed, InBegin, IInv, TypeOK
<1>2. ASSUME NEW w \in waiters, Unqueue({w}), pc' = [pc EXCEPT ![c] = "granting"],
             outbox' = [outbox EXCEPT ![c] = {[to |-> w, result |-> "transaction"]}]
      PROVE  WaitersOwed'
  <2>1. ASSUME NEW d \in Clients, InBegin(d)'
        PROVE  \/ d \in waiters' \/ ready'[d] # "empty"
               \/ \E e \in Clients : \E m \in outbox'[e] : m.to = d
    <3>1. d # c /\ InBegin(d) /\ ready'[d] = ready[d] /\ waiters' = waiters \ {w}
      BY <1>2, <2>1 DEF InBegin, Unqueue, IInv, TypeOK
    <3>2. CASE d = w
      <4>1. [to |-> w, result |-> "transaction"] \in outbox'[c]
        BY <1>2 DEF IInv, TypeOK
      <4>. QED
        BY <3>2, <4>1
    <3>3. CASE d # w
      BY <1>2, <3>1, <3>3 DEF WaitersOwed, IInv, TypeOK
    <3>. QED
      BY <3>2, <3>3
  <2>. QED
    BY <2>1 DEF WaitersOwed
<1>. QED
  BY <1>1, <1>2 DEF Release

LEMMA WaitersOwedKept ==
  ASSUME IInv, WaitersOwed, [Next]_vars
  PROVE  WaitersOwed'
<1>1. CASE UNCHANGED vars
  BY <1>1 DEF vars, WaitersOwed, InBegin
<1>2. ASSUME NEW c \in Clients, NEW r \in Requests, BeginImmediate(c, r)
      PROVE  WaitersOwed'
  BY <1>2 DEF BeginImmediate, WaitersOwed, InBegin, IInv, TypeOK
<1>3. ASSUME NEW c \in Clients, NEW r \in Requests, BeginQueued(c, r)
      PROVE  WaitersOwed'
  <2>1. /\ waiters' = (waiters \ Superseded(r)) \cup {c}
        /\ outbox' = [outbox EXCEPT ![c] = [to : Superseded(r), result : {"superseded"}]]
        /\ ready' = ready /\ outbox[c] = {}
        /\ \A d \in Clients : d # c => pc'[d] = pc[d]
    BY <1>3 DEF BeginQueued, IInv, TypeOK, OutboxShape
  <2>2. ASSUME NEW d \in Clients, InBegin(d)'
        PROVE  \/ d \in waiters' \/ ready'[d] # "empty"
               \/ \E e \in Clients : \E m \in outbox'[e] : m.to = d
    <3>1. CASE d \in Superseded(r) /\ d # c
      <4>1. [to |-> d, result |-> "superseded"] \in outbox'[c]
        BY <2>1, <3>1 DEF IInv, TypeOK
      <4>. QED
        BY <4>1
    <3>2. CASE d \notin Superseded(r) /\ d # c
      <4>1. InBegin(d)
        BY <2>1, <2>2, <3>2 DEF InBegin
      <4>. QED
        BY <2>1, <3>2, <4>1 DEF WaitersOwed, IInv, TypeOK
    <3>. QED
      BY <2>1, <3>1, <3>2
  <2>. QED
    BY <2>2 DEF WaitersOwed
<1>4. ASSUME NEW c \in Clients, Notify(c)
      PROVE  WaitersOwed'
  <2>1. PICK m \in outbox[c] : /\ ready' = [ready EXCEPT ![m.to] = m.result]
                               /\ outbox' = [outbox EXCEPT ![c] = @ \ {m}]
    BY <1>4 DEF Notify
  <2>2. m.to \in Clients /\ m.result # "empty" /\ waiters' = waiters
    BY <1>4, <2>1 DEF Notify, IInv, TypeOK, Messages
  <2>3. \A d \in Clients : InBegin(d)' => InBegin(d)
    BY <1>4 DEF Notify, InBegin, IInv, TypeOK
  <2>4. ASSUME NEW d \in Clients, InBegin(d)'
        PROVE  \/ d \in waiters' \/ ready'[d] # "empty"
               \/ \E e \in Clients : \E n \in outbox'[e] : n.to = d
    <3>1. CASE d = m.to
      BY <2>1, <2>2, <3>1 DEF IInv, TypeOK
    <3>2. CASE d # m.to
      BY <2>1, <2>2, <2>3, <2>4, <3>2 DEF WaitersOwed, IInv, TypeOK
    <3>. QED
      BY <3>1, <3>2
  <2>. QED
    BY <2>4 DEF WaitersOwed
<1>5. ASSUME NEW c \in Clients, ReceiveReady(c) \/ GiveUp(c)
      PROVE  WaitersOwed'
  BY <1>5 DEF ReceiveReady, GiveUp, Unqueue, WaitersOwed, InBegin, IInv, TypeOK
<1>6. ASSUME NEW c \in Clients, Finish(c)
      PROVE  WaitersOwed'
  BY <1>6, ReleaseKeepsWaitersOwed DEF Finish, IInv, OutboxShape
<1>7. ASSUME NEW c \in Clients, Drain(c)
      PROVE  WaitersOwed'
  <2>1. CASE ready[c] = "transaction"
    BY <1>7, <2>1, ReleaseKeepsWaitersOwed DEF Drain, IInv, OutboxShape
  <2>2. CASE ready[c] # "transaction"
    BY <1>7, <2>2 DEF Drain, WaitersOwed, InBegin, IInv, TypeOK
  <2>. QED
    BY <2>1, <2>2
<1>8. ASSUME NEW c \in Clients, Cancel(c) \/ \E phase \in Phases : SetPhase(c, phase)
      PROVE  WaitersOwed'
  BY <1>8 DEF Cancel, SetPhase, WaitersOwed, InBegin
<1>. QED
  BY <1>1, <1>2, <1>3, <1>4, <1>5, <1>6, <1>7, <1>8 DEF Next

(* One message, one received answer or one place in the list: never two.   *)
LEMMA AnsweredOnce ==
  ASSUME IInv, WaitersOwed
  PROVE  EveryWaiterAnsweredOnce
<1>. SUFFICES ASSUME NEW c \in Clients
     PROVE LET owed == {p \in Clients \X Messages : p[2] \in outbox[p[1]] /\ p[2].to = c}
           IN IF pc[c] \in {"notifying", "selecting", "draining"}
              THEN Cardinality(owed) + (IF ready[c] = "empty" THEN 0 ELSE 1)
                     + (IF c \in waiters THEN 1 ELSE 0) = 1
              ELSE owed = {} /\ ready[c] = "empty" /\ c \notin waiters
  BY DEF EveryWaiterAnsweredOnce
<1>. DEFINE owed == {p \in Clients \X Messages : p[2] \in outbox[p[1]] /\ p[2].to = c}
<1>1. CASE ~InBegin(c)
  <2>1. \A d \in Clients : \A m \in outbox[d] : m.to # c
    BY <1>1 DEF IInv, MessagesAwaited
  <2>2. owed = {}
    BY <2>1
  <2>3. ready[c] = "empty" /\ c \notin waiters
    BY <1>1 DEF IInv, ReadyAwaited, WaitersUndecided, InBegin
  <2>. QED
    BY <1>1, <2>2, <2>3 DEF InBegin
<1>2. CASE InBegin(c) /\ \E d \in Clients : \E m \in outbox[d] : m.to = c
  <2>0. PICK d \in Clients : \E m \in outbox[d] : m.to = c
    BY <1>2
  <2>1. PICK m \in outbox[d] : m.to = c
    BY <2>0
  <2>2. ready[c] = "empty" /\ c \notin waiters /\ m \in Messages
    BY <2>1 DEF IInv, MessagesAwaited, TypeOK
  <2>3. \A p \in owed : p = <<d, m>>
    <3>1. ASSUME NEW p \in owed PROVE p = <<d, m>>
      <4>1. p[1] \in Clients /\ p[2] \in outbox[p[1]] /\ p[2].to = c /\ p = <<p[1], p[2]>>
        OBVIOUS
      <4>2. p[1] = d /\ p[2] = m
        BY <2>1, <4>1 DEF IInv, MessagesUnique
      <4>. QED
        BY <4>1, <4>2
    <3>. QED
      BY <3>1
  <2>4. <<d, m>> \in owed
    BY <2>1, <2>2
  <2>5. owed = {<<d, m>>}
    BY <2>3, <2>4
  <2>6. Cardinality(owed) = 1
    BY <2>5, FS_Singleton
  <2>. QED
    BY <1>2, <2>2, <2>6 DEF InBegin
<1>3. CASE InBegin(c) /\ ~\E d \in Clients : \E m \in outbox[d] : m.to = c
  <2>1. owed = {}
    BY <1>3
  <2>2. Cardinality(owed) = 0
    BY <2>1, FS_EmptySet
  <2>3. c \in waiters \/ ready[c] # "empty"
    BY <1>3 DEF WaitersOwed
  <2>4. ~(c \in waiters /\ ready[c] # "empty")
    BY DEF IInv, WaitersUndecided
  <2>. QED
    BY <1>3, <2>2, <2>3, <2>4 DEF InBegin
<1>. QED
  BY <1>1, <1>2, <1>3

(* The transaction never leaks: the snapshot names whoever holds it, and a *)
(* client inside Begin is queued, answered or owed exactly one message.    *)
THEOREM NothingIsLost == Spec => []NothingLeaks
<1>1. Init => WaitersOwed
  BY DEF Init, WaitersOwed, InBegin
<1>2. IInv /\ WaitersOwed /\ [Next]_vars => WaitersOwed'
  BY WaitersOwedKept
<1>3. IInv /\ WaitersOwed => NothingLeaks
  BY AnsweredOnce DEF IInv, NothingLeaks
<1>. QED
  BY <1>1, <1>2, <1>3, InductiveInvariant, PTL DEF Spec

-----------------------------------------------------------------------------
(* Arrival order inside a domain.                                          *)

(* Supersession keeps the waiters of a domain in descending rank.          *)
LEMMA DomainsDescendKept ==
  ASSUME IInv, IInv', DomainsDescend, [Next]_vars
  PROVE  DomainsDescend'
<1>1. CASE UNCHANGED vars
  BY <1>1 DEF vars, DomainsDescend
<1>2. ASSUME NEW c \in Clients, NEW r \in Requests, BeginImmediate(c, r)
      PROVE  DomainsDescend'
  BY <1>2 DEF BeginImmediate, DomainsDescend
<1>3. ASSUME NEW c \in Clients, NEW r \in Requests, BeginQueued(c, r)
      PROVE  DomainsDescend'
  <2>1. /\ waiters' = (waiters \ Superseded(r)) \cup {c}
        /\ \A w \in waiters' : w # c => ahead'[w] \subseteq ahead[w] /\ request'[w] = request[w]
        /\ ahead'[c] = waiters \ Superseded(r)
        /\ request'[c] = r /\ c \notin waiters
    BY <1>3 DEF BeginQueued, IInv, TypeOK, WaitersUndecided
  <2>2. ASSUME NEW w \in waiters', NEW v \in ahead'[w],
               Domain(request'[v].body) = Domain(request'[w].body)
        PROVE  Rank(request'[v].body) >= Rank(request'[w].body)
    <3>1. CASE w = c
      <4>1. v \in waiters /\ v \notin Superseded(r) /\ request'[v] = request[v]
        BY <2>1, <3>1
      <4>2. ~(Rank(request[v].body) < Rank(r.body))
        BY <2>1, <2>2, <3>1, <4>1 DEF Superseded
      <4>3. Rank(request[v].body) \in Nat /\ Rank(r.body) \in Nat
        BY <4>1, RankType DEF IInv, TypeOK, WaitersUndecided, RequestKept, InBegin
      <4>. QED
        BY <2>1, <3>1, <4>1, <4>2, <4>3
    <3>2. CASE w # c
      <4>1. w \in waiters /\ v \in ahead[w] /\ v \in waiters /\ v # c
        BY <2>1, <3>2 DEF IInv, AheadQueued, TypeOK
      <4>2. request'[v] = request[v] /\ request'[w] = request[w]
        BY <1>3, <3>2, <4>1 DEF BeginQueued, IInv, TypeOK
      <4>. QED
        BY <2>2, <4>1, <4>2 DEF DomainsDescend
    <3>. QED
      BY <3>1, <3>2
  <2>. QED
    BY <2>2 DEF DomainsDescend
<1>4. ASSUME waiters' \subseteq waiters,
             \A w \in waiters' : ahead'[w] \subseteq ahead[w] /\ request'[w] = request[w]
      PROVE  DomainsDescend'
  BY <1>4 DEF DomainsDescend, IInv, AheadQueued, TypeOK
<1>5. ASSUME NEW c \in Clients,
             \/ Notify(c) \/ Cancel(c) \/ ReceiveReady(c) \/ GiveUp(c) \/ Drain(c)
             \/ Finish(c)
             \/ \E phase \in Phases : SetPhase(c, phase)
      PROVE  DomainsDescend'
  <2>1. waiters' \subseteq waiters
    BY <1>5 DEF Notify, Cancel, ReceiveReady, GiveUp, Drain, Finish, SetPhase, Release, Unqueue
  <2>2. ASSUME NEW w \in waiters' PROVE ahead'[w] \subseteq ahead[w] /\ request'[w] = request[w]
    <3>1. w \in Clients /\ w \in waiters /\ ready[w] = "empty" /\ pc[w] \in {"notifying", "selecting"}
      BY <2>1 DEF IInv, TypeOK, WaitersUndecided
    <3>2. ahead'[w] \subseteq ahead[w]
      BY <1>5, <2>1, <3>1 DEF Notify, Cancel, ReceiveReady, GiveUp, Drain, Finish, SetPhase,
         Release, Unqueue
    <3>3. request'[w] = request[w]
      BY <1>5, <3>1 DEF Notify, Cancel, ReceiveReady, GiveUp, Drain, Finish,
         SetPhase, Release, Unqueue, Forget, IInv, TypeOK
    <3>. QED
      BY <3>2, <3>3
  <2>. QED
    BY <1>4, <2>1, <2>2
<1>. QED
  BY <1>1, <1>2, <1>3, <1>5 DEF Next

(* The waiters of a domain are in descending rank. *)
THEOREM DomainOrder == Spec => []DomainsDescend
<1>1. Init => DomainsDescend
  BY DEF Init, DomainsDescend
<1>2. IInv /\ IInv' /\ DomainsDescend /\ [Next]_vars => DomainsDescend'
  BY DomainsDescendKept
<1>. QED
  BY <1>1, <1>2, InductiveInvariant, PTL DEF Spec

(* Nobody waits for a free coordinator, and the waiters of a domain are in *)
(* descending rank.                                                        *)
THEOREM QueueIsSound == Spec => []QueueSound
BY QueueServed, DomainOrder, PTL DEF QueueSound

(* A queued client is granted only by the release that takes it off the    *)
(* list as the next one.                                                   *)
LEMMA GrantIsNext ==
  ASSUME IInv, [Next]_vars, NEW c \in waiters, Granted(c)'
  PROVE  IsNext(c)
<1>1. c \in Clients /\ ~Granted(c)
  BY DEF IInv, TypeOK, WaitersUndecided, Granted
<1>2. ASSUME \A d \in Clients : Granted(d)' <=> Granted(d) PROVE FALSE
  BY <1>1, <1>2
<1>3. ASSUME HandedOver PROVE IsNext(c)
  BY <1>1, <1>3 DEF HandedOver
<1>4. CASE UNCHANGED vars
  BY <1>1, <1>4 DEF vars, Granted
<1>5. ASSUME NEW d \in Clients, NEW r \in Requests, BeginImmediate(d, r) PROVE FALSE
  BY <1>5 DEF BeginImmediate
<1>6. ASSUME NEW d \in Clients, NEW r \in Requests, BeginQueued(d, r) PROVE FALSE
  BY <1>2, <1>6, BeginQueuedKeepsIInv
<1>7. ASSUME NEW d \in Clients,
             \/ Notify(d) \/ Cancel(d) \/ ReceiveReady(d) \/ GiveUp(d) \/ Drain(d)
             \/ Finish(d)
             \/ \E phase \in Phases : SetPhase(d, phase)
      PROVE  IsNext(c)
  BY <1>2, <1>3, <1>7, NotifyKeepsIInv, CancelKeepsIInv, ReceiveReadyKeepsIInv,
     GiveUpKeepsIInv, DrainKeepsIInv, FinishKeepsIInv, SetPhaseKeepsIInv
<1>. QED
  BY <1>4, <1>5, <1>6, <1>7 DEF Next

(* Within a domain nobody is admitted past an earlier waiter, although     *)
(* popNextLocked looks at ranks and arrival only.                          *)
THEOREM NoOvertaking == Spec => DomainFifo
<1>1. ASSUME IInv, DomainsDescend, [Next]_vars,
             NEW c \in waiters, Granted(c)', NEW d \in ahead[c]
      PROVE  Domain(request[d].body) # Domain(request[c].body)
  <2>1. Rank(request[d].body) < Rank(request[c].body)
    BY <1>1, GrantIsNext DEF IsNext
  <2>2. c \in Clients /\ d \in waiters /\ d \in Clients
    BY <1>1 DEF IInv, TypeOK, AheadQueued
  <2>3. Rank(request[d].body) \in Nat /\ Rank(request[c].body) \in Nat
    BY <1>1, <2>2, RankType DEF IInv, TypeOK, WaitersUndecided, RequestKept, InBegin
  <2>. QED
    BY <1>1, <2>1, <2>3 DEF DomainsDescend
<1>2. IInv /\ DomainsDescend /\ [Next]_vars
        => [\A c \in waiters : Granted(c)' =>
              \A d \in ahead[c] : Domain(request[d].body) # Domain(request[c].body)]_vars
  BY <1>1
<1>. QED
  BY <1>2, InductiveInvariant, DomainOrder, PTL DEF Spec, DomainFifo

(* Nobody drops out of the list in another way: a newcomer replaces a      *)
(* waiter only with a higher rank in its own domain, a release grants the  *)
(* one it takes off, and whoever withdraws has a context that is done      *)
(* (supersedeLowerPriorityLocked, popNextLocked, removeWaiter).            *)
LEMMA DroppedForAReason ==
  ASSUME IInv, [Next]_vars, NEW c \in waiters, c \notin waiters'
  PROVE  \/ c \in cancelled /\ pc'[c] = "idle"
         \/ Granted(c)'
         \/ \E d \in waiters' : /\ Domain(request'[d].body) = Domain(request[c].body)
                                /\ Rank(request'[d].body) > Rank(request[c].body)
<1>1. c \in Clients /\ pc \in [Clients -> Locations] /\ request \in [Clients -> Requests \cup {None}]
  BY DEF IInv, TypeOK
<1>2. CASE waiters' = waiters
  BY <1>2
<1>3. CASE HandedOver
  BY <1>1, <1>3 DEF HandedOver
<1>4. ASSUME NEW d \in Clients, NEW r \in Requests, BeginQueued(d, r)
      PROVE  \E e \in waiters' : /\ Domain(request'[e].body) = Domain(request[c].body)
                                /\ Rank(request'[e].body) > Rank(request[c].body)
  <2>1. c \in Superseded(r) /\ d \in waiters' /\ request'[d] = r
    BY <1>1, <1>4 DEF BeginQueued
  <2>2. Domain(request[c].body) = Domain(r.body) /\ Rank(request[c].body) < Rank(r.body)
    BY <2>1 DEF Superseded
  <2>3. request[c] \in Requests
    BY <1>1 DEF IInv, WaitersUndecided, RequestKept, InBegin
  <2>4. Rank(r.body) > Rank(request[c].body)
    BY <2>2, <2>3, RankType
  <2>. QED
    BY <2>1, <2>2, <2>4
<1>5. ASSUME NEW d \in Clients, GiveUp(d), waiters' # waiters
      PROVE  c \in cancelled /\ pc'[c] = "idle"
  BY <1>1, <1>5 DEF GiveUp, Unqueue
<1>6. ASSUME NEW d \in Clients, Drain(d) PROVE HandedOver \/ waiters' = waiters
  BY <1>6, DrainKeepsIInv
<1>7. ASSUME NEW d \in Clients, Finish(d) PROVE HandedOver
  BY <1>7, FinishKeepsIInv
<1>8. ASSUME NEW d \in Clients,
             \/ \E r \in Requests : BeginImmediate(d, r)
             \/ Notify(d) \/ Cancel(d) \/ ReceiveReady(d)
             \/ \E phase \in Phases : SetPhase(d, phase)
      PROVE  waiters' = waiters
  BY <1>8 DEF BeginImmediate, Notify, Cancel, ReceiveReady, SetPhase
<1>9. CASE UNCHANGED vars
  BY <1>2, <1>9 DEF vars
<1>. QED
  BY <1>2, <1>3, <1>4, <1>5, <1>6, <1>7, <1>8, <1>9 DEF Next

(* Every waiter that leaves the list gives up, is granted, or is outranked *)
(* in its domain; a shutdown, which nothing outranks, is never replaced    *)
(* (Begin, supersedeLowerPriorityLocked, Finish).                          *)
THEOREM NobodyIsDropped == Spec => OnlyOutrankedDropped
<1>1. IInv /\ [Next]_vars
        => [\A c \in waiters : c \notin waiters' =>
              \/ c \in cancelled /\ pc'[c] = "idle"
              \/ Granted(c)'
              \/ \E d \in waiters' : /\ Domain(request'[d].body) = Domain(request[c].body)
                                     /\ Rank(request'[d].body) > Rank(request[c].body)]_vars
  BY DroppedForAReason
<1>. QED
  BY <1>1, InductiveInvariant, PTL DEF Spec, OnlyOutrankedDropped

-----------------------------------------------------------------------------
(* The coordinator implements the gate.                                    *)

LEMMA OwnerIsGranted ==
  ASSUME IInv, NEW c \in Clients, Granted(c)
  PROVE  GateOwner = c /\ c # None
BY NoneAssumption DEF GateOwner, IInv, SingleOwner

LEMMA NoOwner ==
  ASSUME \A c \in Clients : ~Granted(c)
  PROVE  GateOwner = None
BY DEF GateOwner

LEMMA SameOwner ==
  ASSUME \A c \in Clients : Granted(c)' <=> Granted(c)
  PROVE  GateOwner' = GateOwner
<1>1. \A c \in Clients : Granted(c) <=> Granted(c)'
  OBVIOUS
<1>2. CASE \E c \in Clients : Granted(c)
  <2>1. (CHOOSE c \in Clients : Granted(c)) = CHOOSE c \in Clients : Granted(c)'
    BY <1>1
  <2>. QED
    BY <1>1, <1>2, <2>1 DEF GateOwner
<1>3. CASE ~\E c \in Clients : Granted(c)
  BY <1>1, <1>3 DEF GateOwner
<1>. QED
  BY <1>2, <1>3

(* A release is a Leave of the gate. *)
LEMMA HandedOverLeaves ==
  ASSUME IInv, IInv', HandedOver, NEW c \in Clients, Granted(c)
  PROVE  Gate!Leave
<1>1. GateOwner # None
  BY OwnerIsGranted
<1>2. CASE waiters = {} /\ waiters' = {} /\ \A d \in Clients : ~Granted(d)'
  <2>1. GateOwner' = None
    BY <1>2 DEF GateOwner
  <2>. QED
    BY <1>1, <1>2, <2>1 DEF Gate!Leave
<1>3. ASSUME NEW w \in waiters, waiters' = waiters \ {w},
             \A d \in Clients : Granted(d)' <=> d = w
      PROVE  Gate!Leave
  <2>1. w \in Clients
    BY DEF IInv, TypeOK
  <2>2. GateOwner' = w
    BY <1>3, <2>1 DEF GateOwner
  <2>. QED
    BY <1>1, <1>3, <2>2 DEF Gate!Leave
<1>. QED
  BY <1>2, <1>3 DEF HandedOver

(* Every step of the coordinator is a step of the gate, or leaves it alone. *)
LEMMA StepRefinesGate ==
  ASSUME IInv, IInv', [Next]_vars
  PROVE  [Gate!GateNext]_<<GateOwner, waiters>>
<1>1. CASE UNCHANGED vars
  <2>1. \A c \in Clients : Granted(c)' <=> Granted(c)
    BY <1>1 DEF vars, Granted
  <2>. QED
    BY <1>1, <2>1, SameOwner DEF vars
<1>2. ASSUME NEW c \in Clients, NEW r \in Requests, BeginImmediate(c, r)
      PROVE  Gate!Enter(c)
  <2>1. GateOwner = None
    BY <1>2, NoOwner DEF BeginImmediate, IInv, SnapshotNamesOwner
  <2>2. \A d \in Clients : Granted(d)' <=> d = c
    BY <1>2, BeginImmediateKeepsIInv
  <2>3. GateOwner' = c
    BY <2>2 DEF GateOwner
  <2>. QED
    BY <1>2, <2>1, <2>3 DEF BeginImmediate, Gate!Enter
<1>3. ASSUME NEW c \in Clients, NEW r \in Requests, BeginQueued(c, r)
      PROVE  Gate!Join(c)
  <2>1. ~Granted(c) /\ GateOwner' = GateOwner
    BY <1>3, BeginQueuedKeepsIInv, SameOwner
  <2>2. snapshot.busy /\ c \notin waiters
    BY <1>3 DEF BeginQueued, IInv, NoLostWaiter, WaitersUndecided
  <2>3. PICK o \in Clients : Granted(o)
    BY <2>2 DEF IInv, SnapshotNamesOwner
  <2>4. GateOwner # None /\ c # GateOwner
    BY <2>1, <2>3, OwnerIsGranted
  <2>5. waiters' = (waiters \ Superseded(r)) \cup {c} /\ Superseded(r) \in SUBSET waiters
    BY <1>3 DEF BeginQueued, Superseded
  <2>. QED
    BY <2>1, <2>2, <2>4, <2>5 DEF Gate!Join
<1>4. ASSUME NEW c \in Clients, GiveUp(c)
      PROVE  Gate!Withdraw(c) \/ UNCHANGED <<GateOwner, waiters>>
  <2>1. GateOwner' = GateOwner
    BY <1>4, GiveUpKeepsIInv, SameOwner
  <2>. QED
    BY <1>4, <2>1 DEF GiveUp, Unqueue, Gate!Withdraw
<1>5. ASSUME NEW c \in Clients, Drain(c)
      PROVE  Gate!Leave \/ UNCHANGED <<GateOwner, waiters>>
  BY <1>5, DrainKeepsIInv, HandedOverLeaves, SameOwner
<1>6. ASSUME NEW c \in Clients, Finish(c)
      PROVE  Gate!Leave
  BY <1>6, FinishKeepsIInv, HandedOverLeaves
<1>7. ASSUME NEW c \in Clients,
             \/ Notify(c) \/ Cancel(c) \/ ReceiveReady(c)
             \/ \E phase \in Phases : SetPhase(c, phase)
      PROVE  UNCHANGED <<GateOwner, waiters>>
  <2>1. GateOwner' = GateOwner
    BY <1>7, NotifyKeepsIInv, CancelKeepsIInv, ReceiveReadyKeepsIInv, SetPhaseKeepsIInv, SameOwner
  <2>. QED
    BY <1>7, <2>1 DEF Notify, Cancel, ReceiveReady, SetPhase
<1>. QED
  BY <1>1, <1>2, <1>3, <1>4, <1>5, <1>6, <1>7 DEF Next, Gate!GateNext

(* The coordinator is a gate with one holder that no newcomer walks past   *)
(* and whose release serves a waiter.                                      *)
THEOREM CoordinatorIsGate == Spec => GateRefined
<1>1. Init => Gate!GateInit
  BY InitIInv, NoOwner DEF Init, Gate!GateInit, Granted
<1>2. IInv /\ IInv' /\ [Next]_vars => [Gate!GateNext]_<<GateOwner, waiters>>
  BY StepRefinesGate
<1>. QED
  BY <1>1, <1>2, InductiveInvariant, PTL DEF Spec, GateRefined, Gate!GateSpec, Gate!gateVars
=============================================================================
