-------------------------- MODULE TransactionGate --------------------------
(***************************************************************************)
(* What internal/connection promises to the code that mutates the network: *)
(* at most one holder, a queue nobody walks past, and a release that hands *)
(* the gate to a waiter in the same step when there is one.  Which waiter, *)
(* and which waiters a newcomer makes pointless, is left open.             *)
(***************************************************************************)
CONSTANTS Clients, None

VARIABLES owner, queue

gateVars == <<owner, queue>>

GateInit == owner = None /\ queue = {}

(* The gate is free and nobody waits: c takes it. *)
Enter(c) ==
  /\ owner = None /\ queue = {}
  /\ owner' = c
  /\ queue' = {}

(* c waits; it may make some of those who wait already leave. *)
Join(c) ==
  /\ owner # None /\ c # owner /\ c \notin queue
  /\ \E dropped \in SUBSET queue : queue' = (queue \ dropped) \cup {c}
  /\ owner' = owner

(* c stops waiting. *)
Withdraw(c) ==
  /\ c \in queue
  /\ queue' = queue \ {c}
  /\ owner' = owner

(* The holder leaves and a waiter, if there is one, holds the gate. *)
Leave ==
  /\ owner # None
  /\ \/ queue = {} /\ owner' = None /\ queue' = {}
     \/ \E next \in queue : owner' = next /\ queue' = queue \ {next}

GateNext == Leave \/ \E c \in Clients : Enter(c) \/ Join(c) \/ Withdraw(c)

GateSpec == GateInit /\ [][GateNext]_gateVars
=============================================================================
