--------------------------- MODULE ResourceLedger ---------------------------
(***************************************************************************)
(* What the network journal promises, without files, sessions or failures: *)
(* a resource is recorded before it is installed, and no rewrite of the    *)
(* record drops a resource that is still there.  A crash is a stuttering   *)
(* step here, because both sets outlive the process.                       *)
(***************************************************************************)
CONSTANT Resources

VARIABLES recorded, installed

LedgerInit == recorded = {} /\ installed = {}

\* The record is replaced as a whole; it must cover what is in place.
Rewrite(R) == installed \subseteq R /\ recorded' = R /\ UNCHANGED installed

\* Only what is recorded may be installed.
Install(r) == r \in recorded /\ installed' = installed \cup {r} /\ UNCHANGED recorded

\* Resources go by an undo, or with the adapter they are bound to.
Vanish(R) == installed' = installed \ R /\ UNCHANGED recorded

LedgerNext ==
    \/ \E R \in SUBSET Resources : Rewrite(R) \/ Vanish(R)
    \/ \E r \in Resources : Install(r)

LedgerSpec == LedgerInit /\ [][LedgerNext]_<<recorded, installed>>
=============================================================================
