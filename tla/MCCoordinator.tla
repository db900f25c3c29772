--------------------------- MODULE MCCoordinator ---------------------------
(* Coordinator on three callers.                                           *)
EXTENDS Coordinator, TLC

CONSTANTS c1, c2, c3, shared

MCClients == {c1, c2, c3}

MCCallerIds == {shared}

Body(o, from, fault) == [operation |-> o, origin |-> from, faultDomain |-> fault]

(* Three ranks in the capture domain, two of them top-ranked requests, and *)
(* a request of a middle rank in another domain.                           *)
MCBodies == {Body("recovery", "shutdown", "capture"),
             Body("capture_switch", "user", "capture"),
             Body("self_heal", "self_heal", "capture"),
             Body("core_switch", "user", "capture")}

(* Fewer bodies for the temporal run. *)
MCLiveBodies == {Body("recovery", "shutdown", "capture"),
                 Body("capture_switch", "user", "capture")}

MCNoIds == {}

Symmetry == Permutations(MCClients)
=============================================================================
