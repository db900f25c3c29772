---------------------------- MODULE Coordinator ----------------------------
(***************************************************************************)
(* The connection transaction coordinator, internal/connection/            *)
(* coordinator.go: one owner at a time, a queue ordered by rank and then   *)
(* by arrival, supersession of lower-ranked waiters of the same domain,    *)
(* and callers that give up while they wait.                               *)
(*                                                                         *)
(* A client is a goroutine in Begin, TryBegin or Finish.  An action is one *)
(* critical section of Coordinator.mu or one channel operation, so the     *)
(* window between unlocking and sending on waiter.ready is in the model.   *)
(*                                                                         *)
(* Abstractions.  A client waits at most once at a time, so it stands for  *)
(* its waiter record.  The sequence number a waiter draws is drawn in the  *)
(* critical section that appends it: only the order of the numbers is      *)
(* kept, as the set of waiters that were ahead when it arrived.  Times,    *)
(* error texts and the record of the transaction finished last (LastID,    *)
(* LastPhase, LastError), which no decision reads, are left out.  A        *)
(* generated identifier, unique by its counter, is the name of the client  *)
(* that owns it; an identifier given by the caller may be shared.          *)
(***************************************************************************)
EXTENDS ConnectionPolicy, FiniteSets

CONSTANTS
  Clients,     \* goroutines that ask for the transaction
  CallerIds,   \* identifiers a caller may put in a request
  Bodies,      \* request bodies the callers use
  None         \* no identifier, no request

ASSUME ClientsAssumption == IsFiniteSet(Clients)
ASSUME BodiesAssumption  == Bodies \subseteq RequestBodies

VARIABLES
  snapshot,   \* Coordinator.snapshot
  waiters,    \* Coordinator.waiters, as a set
  ahead,      \* for each waiter, the waiters with a smaller sequence number
  ready,      \* waiter.ready, a channel of capacity one
  outbox,     \* sends a client still owes after it released the mutex
  cancelled,  \* waiting clients whose context is done
  request,    \* the request a client is waiting or working for
  pc          \* where each client stands

vars == <<snapshot, waiters, ahead, ready, outbox, cancelled, request, pc>>

-----------------------------------------------------------------------------
(* Types *)

Ids == Clients \cup CallerIds

Phases == {"preparing", "applying", "verifying", "committing", "rolling_back"}

Requests == [id : CallerIds \cup {None}, body : Bodies]

ASSUME NoneAssumption == None \notin Clients \cup CallerIds \cup Bodies \cup Requests

(* Intent, Domain and Priority are the policy of the owner's body. *)
Snapshots == [busy : BOOLEAN, id : Ids \cup {None}, body : Bodies \cup {None},
              phase : Phases \cup {None}, queued : Nat]

(* The snapshot of a free coordinator with n waiters. *)
Free(n) == [busy |-> FALSE, id |-> None, body |-> None, phase |-> None, queued |-> n]

Messages == [to : Clients, result : {"transaction", "superseded"}]

Locations == {"idle", "notifying", "selecting", "draining", "owning", "granting"}

TypeOK ==
  /\ snapshot \in Snapshots
  /\ waiters \subseteq Clients
  /\ ahead \in [Clients -> SUBSET Clients]
  /\ ready \in [Clients -> {"empty", "transaction", "superseded"}]
  /\ outbox \in [Clients -> SUBSET Messages]
  /\ cancelled \subseteq Clients
  /\ request \in [Clients -> Requests \cup {None}]
  /\ pc \in [Clients -> Locations]

Init ==
  /\ snapshot = Free(0)
  /\ waiters = {}
  /\ ahead = [c \in Clients |-> {}]
  /\ ready = [c \in Clients |-> "empty"]
  /\ outbox = [c \in Clients |-> {}]
  /\ cancelled = {}
  /\ request = [c \in Clients |-> None]
  /\ pc = [c \in Clients |-> "idle"]

-----------------------------------------------------------------------------
(* Helpers: each is a piece of a critical section. *)

(* The identifier of the transaction that r starts for c: r's own, or a    *)
(* generated one.                                                          *)
TransactionId(c, r) == IF r.id = None THEN c ELSE r.id

(* Mutant of Started: the started waiter is subtracted from the queue twice. *)
StartedMiscounted(c, r, n) ==
  [busy |-> TRUE, id |-> TransactionId(c, r), body |-> r.body,
   phase |-> "preparing", queued |-> n - 1]

(* startLocked: the snapshot of c working on r, with n waiters behind it. *)
Started(c, r, n) ==
  [busy |-> TRUE, id |-> TransactionId(c, r), body |-> r.body,
   phase |-> "preparing", queued |-> n]

(* Mutant of Superseded: the rank test is turned round. *)
SupersededUpwards(r) ==
  {w \in waiters : /\ Domain(request[w].body) = Domain(r.body)
                   /\ Rank(request[w].body) > Rank(r.body)}

(* Mutant of Superseded: a newcomer replaces its equals. *)
SupersededEquals(r) ==
  {w \in waiters : /\ Domain(request[w].body) = Domain(r.body)
                   /\ Rank(request[w].body) <= Rank(r.body)}

(* The waiters that c's request r makes pointless: supersedeLowerPriorityLocked. *)
Superseded(r) ==
  {w \in waiters : /\ Domain(request[w].body) = Domain(r.body)
                   /\ Rank(request[w].body) < Rank(r.body)}

(* Mutant of IsNext: among equals the newest waiter goes first. *)
IsNewest(w) ==
  /\ w \in waiters
  /\ \A v \in waiters : /\ Rank(request[v].body) <= Rank(request[w].body)
                        /\ w \in ahead[v] => Rank(request[v].body) < Rank(request[w].body)

(* w is what popNextLocked takes: best rank, then smallest sequence number. *)
IsNext(w) ==
  /\ w \in waiters
  /\ \A v \in waiters : Rank(request[v].body) <= Rank(request[w].body)
  /\ \A v \in ahead[w] : Rank(request[v].body) < Rank(request[w].body)

(* The clients of S are no longer in the waiter list. *)
Unqueue(S) ==
  /\ waiters' = waiters \ S
  /\ ahead' = [c \in Clients |-> IF c \in S THEN {} ELSE ahead[c] \ S]

(* Finish clears the snapshot only of the transaction it names. *)
Cleared(c) ==
  IF snapshot.busy /\ snapshot.id = TransactionId(c, request[c])
  THEN Free(Cardinality(waiters))
  ELSE snapshot

(* c leaves Begin or Finish with nothing to do for the coordinator. *)
Forget(c) ==
  /\ request' = [request EXCEPT ![c] = None]
  /\ cancelled' = cancelled \ {c}

-----------------------------------------------------------------------------
(* Begin and TryBegin *)

(* Mutant of BeginImmediate: only the queue is tested. *)
BeginIgnoringBusy(c, r) ==
  /\ pc[c] = "idle"
  /\ waiters = {}
  /\ snapshot' = Started(c, r, 0)
  /\ request' = [request EXCEPT ![c] = r]
  /\ pc' = [pc EXCEPT ![c] = "owning"]
  /\ UNCHANGED <<waiters, ahead, ready, outbox, cancelled>>

(* Begin and TryBegin, free coordinator: c owns the transaction at once. *)
BeginImmediate(c, r) ==
  /\ pc[c] = "idle"
  /\ ~snapshot.busy /\ waiters = {}
  /\ snapshot' = Started(c, r, 0)
  /\ request' = [request EXCEPT ![c] = r]
  /\ pc' = [pc EXCEPT ![c] = "owning"]
  /\ UNCHANGED <<waiters, ahead, ready, outbox, cancelled>>

(* Begin, taken coordinator: c drops the waiters it supersedes, queues up, *)
(* and owes each of them a message.                                        *)
BeginQueued(c, r) ==
  /\ pc[c] = "idle"
  /\ snapshot.busy \/ waiters # {}
  /\ LET dropped == Superseded(r)
         kept    == waiters \ dropped
     IN /\ waiters' = kept \cup {c}
        /\ ahead' = [w \in Clients |-> IF w = c THEN kept
                                       ELSE IF w \in dropped THEN {}
                                       ELSE ahead[w] \ dropped]
        /\ snapshot' = [snapshot EXCEPT !.queued = Cardinality(kept \cup {c})]
        /\ outbox' = [outbox EXCEPT ![c] = [to : dropped, result : {"superseded"}]]
        /\ pc' = [pc EXCEPT ![c] = IF dropped = {} THEN "selecting" ELSE "notifying"]
  /\ request' = [request EXCEPT ![c] = r]
  /\ UNCHANGED <<ready, cancelled>>

(* A send that c owes: from Begin to a superseded waiter, or from Finish   *)
(* to the waiter that was granted.  It would block on a full channel.      *)
Notify(c) ==
  /\ pc[c] \in {"notifying", "granting"}
  /\ \E m \in outbox[c] :
       /\ ready[m.to] = "empty"
       /\ ready' = [ready EXCEPT ![m.to] = m.result]
       /\ outbox' = [outbox EXCEPT ![c] = @ \ {m}]
       /\ IF outbox[c] = {m}
          THEN pc' = [pc EXCEPT ![c] = IF @ = "notifying" THEN "selecting" ELSE "idle"]
          ELSE pc' = pc
  /\ UNCHANGED <<snapshot, waiters, ahead, cancelled, request>>

(* The context of a client inside Begin is cancelled or times out. *)
Cancel(c) ==
  /\ pc[c] \in {"notifying", "selecting"}
  /\ c \notin cancelled
  /\ cancelled' = cancelled \cup {c}
  /\ UNCHANGED <<snapshot, waiters, ahead, ready, outbox, request, pc>>

(* The result branch of Begin's select; it may be taken with the context done. *)
ReceiveReady(c) ==
  /\ pc[c] = "selecting"
  /\ ready[c] # "empty"
  /\ ready' = [ready EXCEPT ![c] = "empty"]
  /\ IF ready[c] = "transaction"
     THEN /\ pc' = [pc EXCEPT ![c] = "owning"]
          /\ cancelled' = cancelled \ {c}
          /\ UNCHANGED request
     ELSE pc' = [pc EXCEPT ![c] = "idle"] /\ Forget(c)
  /\ UNCHANGED <<snapshot, waiters, ahead, outbox>>

(* The ctx.Done branch of Begin's select: removeWaiter finds c and c       *)
(* leaves, or a result is on its way and c has to take it.                 *)
GiveUp(c) ==
  /\ pc[c] = "selecting"
  /\ c \in cancelled
  /\ IF c \in waiters
     THEN /\ Unqueue({c})
          /\ snapshot' = [snapshot EXCEPT !.queued = Cardinality(waiters \ {c})]
          /\ pc' = [pc EXCEPT ![c] = "idle"]
          /\ Forget(c)
     ELSE /\ pc' = [pc EXCEPT ![c] = "draining"]
          /\ UNCHANGED <<snapshot, waiters, ahead, cancelled, request>>
  /\ UNCHANGED <<ready, outbox>>

-----------------------------------------------------------------------------
(* Finish *)

(* Mutant of Release: the snapshot is cleared and nobody is admitted. *)
ReleaseOnly(c) ==
  /\ Forget(c)
  /\ snapshot' = Cleared(c)
  /\ pc' = [pc EXCEPT ![c] = "idle"]
  /\ UNCHANGED <<waiters, ahead, outbox>>

(* The critical section of Finish: the snapshot is cleared and, whatever   *)
(* it held, the next waiter is taken off the list and started.  c still    *)
(* owes that waiter its message.                                           *)
Release(c) ==
  /\ Forget(c)
  /\ \/ /\ waiters = {}
        /\ snapshot' = Cleared(c)
        /\ pc' = [pc EXCEPT ![c] = "idle"]
        /\ UNCHANGED <<waiters, ahead, outbox>>
     \/ \E w \in waiters :
        /\ IsNext(w)
        /\ Unqueue({w})
        /\ snapshot' = Started(w, request[w], Cardinality(waiters \ {w}))
        /\ outbox' = [outbox EXCEPT ![c] = {[to |-> w, result |-> "transaction"]}]
        /\ pc' = [pc EXCEPT ![c] = "granting"]

Finish(c) ==
  /\ pc[c] = "owning"
  /\ Release(c)
  /\ UNCHANGED ready

(* Mutant of Drain: a transaction granted too late is dropped. *)
DrainLeaking(c) ==
  /\ pc[c] = "draining"
  /\ ready[c] # "empty"
  /\ ready' = [ready EXCEPT ![c] = "empty"]
  /\ pc' = [pc EXCEPT ![c] = "idle"]
  /\ Forget(c)
  /\ UNCHANGED <<snapshot, waiters, ahead, outbox>>

(* Cancellation lost the race: the result is received, and a transaction   *)
(* among the results is finished at once.                                  *)
Drain(c) ==
  /\ pc[c] = "draining"
  /\ ready[c] # "empty"
  /\ ready' = [ready EXCEPT ![c] = "empty"]
  /\ IF ready[c] = "transaction"
     THEN Release(c)
     ELSE /\ pc' = [pc EXCEPT ![c] = "idle"]
          /\ Forget(c)
          /\ UNCHANGED <<snapshot, waiters, ahead, outbox>>

(* SetPhase is refused, without effect, to a transaction that is not the   *)
(* one in the snapshot.                                                    *)
SetPhase(c, phase) ==
  /\ pc[c] = "owning"
  /\ snapshot.busy /\ snapshot.id = TransactionId(c, request[c])
  /\ snapshot' = [snapshot EXCEPT !.phase = phase]
  /\ UNCHANGED <<waiters, ahead, ready, outbox, cancelled, request, pc>>

-----------------------------------------------------------------------------

Next ==
  \E c \in Clients :
    \/ \E r \in Requests : BeginImmediate(c, r) \/ BeginQueued(c, r)
    \/ Notify(c)
    \/ Cancel(c)
    \/ ReceiveReady(c)
    \/ GiveUp(c)
    \/ Finish(c)
    \/ Drain(c)
    \/ \E phase \in Phases \ {"preparing"} : SetPhase(c, phase)

Spec == Init /\ [][Next]_vars

(* Go runs every runnable goroutine, and every holder of a transaction     *)
(* finishes it: the callers defer Finish, and each step they take while    *)
(* they own it is bounded by a timeout of its own.  Nobody has to call     *)
(* Begin or to cancel.  A client whose context is done leaves its select   *)
(* whichever branch is taken.                                              *)
Fairness ==
  \A c \in Clients :
    /\ WF_vars(Notify(c))
    /\ WF_vars(ReceiveReady(c) \/ GiveUp(c))
    /\ WF_vars(Drain(c))
    /\ WF_vars(Finish(c))

FairSpec == Spec /\ Fairness

-----------------------------------------------------------------------------
(* Properties *)

(* c holds the transaction: in its hands, in its channel or on its way.    *)
Granted(c) ==
  \/ pc[c] = "owning"
  \/ ready[c] = "transaction"
  \/ \E d \in Clients : [to |-> c, result |-> "transaction"] \in outbox[d]

(* Two callers never hold the transaction together, not even while a grant *)
(* travels from Finish to a waiter that has given up (Begin, Finish).      *)
SingleOwner == \A c, d \in Clients : Granted(c) /\ Granted(d) => c = d

(* The read model says busy exactly while somebody holds the transaction,  *)
(* and names its holder, even when callers reuse identifiers.  The comment *)
(* in Begin calls this "ownership cannot leak".                            *)
SnapshotNamesOwner ==
  /\ snapshot.busy => \E c \in Clients : Granted(c)
  /\ \A c \in Clients : Granted(c) =>
       /\ snapshot.busy
       /\ request[c] # None
       /\ snapshot.id = TransactionId(c, request[c])
       /\ snapshot.body = request[c].body

(* Nobody waits for a free coordinator, which no Finish would ever serve,  *)
(* and the queue length shown to the user is the number of waiters.        *)
NoLostWaiter ==
  /\ waiters # {} => snapshot.busy
  /\ snapshot.queued = Cardinality(waiters)

(* A client that blocks in Begin is in the list or is owed exactly one     *)
(* message, so a sender never finds the channel of capacity one full: no   *)
(* Finish and no Begin hangs on a waiter that left.                        *)
EveryWaiterAnsweredOnce ==
  \A c \in Clients :
    LET owed == {p \in Clients \X Messages : p[2] \in outbox[p[1]] /\ p[2].to = c}
    IN IF pc[c] \in {"notifying", "selecting", "draining"}
       THEN Cardinality(owed) + (IF ready[c] = "empty" THEN 0 ELSE 1)
              + (IF c \in waiters THEN 1 ELSE 0) = 1
       ELSE owed = {} /\ ready[c] = "empty" /\ c \notin waiters

(* Supersession leaves the waiters of one domain in descending rank, in    *)
(* the order they arrived.                                                 *)
DomainsDescend ==
  \A c \in waiters : \A d \in ahead[c] :
    Domain(request[d].body) = Domain(request[c].body)
      => Rank(request[d].body) >= Rank(request[c].body)

(* So within a domain nothing overtakes: whoever is admitted, no waiter of *)
(* its domain that arrived earlier is still waiting (popNextLocked sees    *)
(* ranks and arrival only, not domains).                                   *)
DomainFifo ==
  [][\A c \in waiters : Granted(c)' =>
       \A d \in ahead[c] : Domain(request[d].body) # Domain(request[c].body)]_vars

(* A waiter leaves the list because it gives up, is granted, or a newcomer *)
(* of its domain and a higher rank replaces it; in particular shutdown is  *)
(* never replaced.                                                         *)
OnlyOutrankedDropped ==
  [][\A c \in waiters : c \notin waiters' =>
       \/ c \in cancelled /\ pc'[c] = "idle"
       \/ Granted(c)'
       \/ \E d \in waiters' : /\ Domain(request'[d].body) = Domain(request[c].body)
                              /\ Rank(request'[d].body) > Rank(request[c].body)]_vars

(* A shutdown that waits is served, whatever else keeps arriving: its rank *)
(* is the top one and equal ranks are served in arrival order.             *)
SafetyAdmitted ==
  \A c \in Clients :
    (c \in waiters /\ IntentOf(request[c].body) = "safety") ~> (c \notin waiters)

(* A caller whose context is done leaves Begin; it is never held by the    *)
(* race between its cancellation and its admission.                        *)
CancelledReturns ==
  \A c \in Clients : (c \in cancelled) ~> (pc[c] \in {"idle", "owning"})

(* The queue, the messages and the callers, each as a whole: what waits is *)
(* served in order, nothing that is granted leaks, everyone gets away.     *)
QueueSound == NoLostWaiter /\ DomainsDescend

NothingLeaks == SnapshotNamesOwner /\ EveryWaiterAnsweredOnce

WaitersServed == OnlyOutrankedDropped /\ SafetyAdmitted /\ CancelledReturns

(* The coordinator promises the gate of TransactionGate. *)
GateOwner == IF \E c \in Clients : Granted(c)
             THEN CHOOSE c \in Clients : Granted(c)
             ELSE None

Gate == INSTANCE TransactionGate WITH owner <- GateOwner, queue <- waiters

GateRefined == Gate!GateSpec
=============================================================================
