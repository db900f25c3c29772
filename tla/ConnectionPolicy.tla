-------------------------- MODULE ConnectionPolicy --------------------------
(***************************************************************************)
(* The admission policy of internal/connection/policy.go: every request    *)
(* for the connection transaction is given an intent, a rank and a control *)
(* domain, from its operation, its origin and the fault domain it names.   *)
(*                                                                         *)
(* The free text of Request.FaultDomain is abstracted to the control       *)
(* domain its substrings select in domainFor; a text that names no core,   *)
(* node, policy, runtime or source selects "capture".                      *)
(***************************************************************************)
EXTENDS Naturals

Operations == {"capture_switch", "node_switch", "core_switch", "source_mutation",
               "policy_change", "core_update", "recovery", "self_heal"}

Origins == {"user", "tray", "scheduler", "self_heal", "startup", "shutdown"}

Domains == {"capture", "routing", "core", "source"}

Intents == {"safety", "interactive", "recovery", "startup", "background"}

(* A request as Begin validates it, without its identifier. *)
RequestBodies == [operation : Operations, origin : Origins, faultDomain : Domains]

-----------------------------------------------------------------------------

OriginIntent == [shutdown  |-> "safety",
                 user      |-> "interactive",
                 tray      |-> "interactive",
                 self_heal |-> "recovery",
                 startup   |-> "startup",
                 scheduler |-> "background"]

IntentRank == [safety      |-> 500,
               interactive |-> 400,
               recovery    |-> 300,
               startup     |-> 200,
               background  |-> 100]

OperationDomain == [capture_switch  |-> "capture",
                    node_switch     |-> "routing",
                    policy_change   |-> "routing",
                    core_switch     |-> "core",
                    core_update     |-> "core",
                    source_mutation |-> "source"]

IntentOf(r) == OriginIntent[r.origin]

Rank(r) == IntentRank[IntentOf(r)]

Domain(r) == IF r.operation \in {"recovery", "self_heal"}
             THEN r.faultDomain
             ELSE OperationDomain[r.operation]
=============================================================================
