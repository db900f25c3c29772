---------------------------- MODULE SystemProxy ----------------------------
(***************************************************************************)
(* The owner of Windows' current-user proxy setting,                       *)
(* internal/agent/systemproxy: a backup file, an ownership marker file and *)
(* five registry values that any other application may set as well.       *)
(*                                                                         *)
(* Enable and Disable hold the manager's mutex, so at most one runs; what  *)
(* interleaves with them is the death of the launcher and the writes of    *)
(* other applications.  Both files are replaced atomically (fsatomic), but *)
(* a replacement that reports an error may have happened.  A snapshot of   *)
(* the registry is read in one step.  Navo's endpoint never changes: the   *)
(* port is fixed when the launcher starts.                                 *)
(***************************************************************************)
EXTENDS Integers, Sequences

CONSTANTS
  Originals,  \* the settings a user may have had before Navo
  Others,     \* the settings other applications make
  Faults      \* the interferences of this instance, a subset of Interferences

(* crash: the launcher dies, but not between two registry values; torn: it *)
(* does die there; failure: a registry value after the first cannot be     *)
(* written; external: other applications write while no operation of Navo  *)
(* runs; overlap: they also write during one.                              *)
Interferences == {"crash", "torn", "failure", "external", "overlap"}

(* applySystemProxyConfig writes the values in this order. *)
Order  == <<"enable", "server", "override", "pac", "detect">>
Values == {"enable", "server", "override", "pac", "detect"}

Configs == [enable : BOOLEAN, server : {"absent", "navo", "user", "other"},
            override : {"absent", "local", "user"}, pac : {"absent", "url"},
            detect : {"absent", "off", "on"}]

NavoConfig == [enable |-> TRUE, server |-> "navo", override |-> "local",
               pac |-> "absent", detect |-> "off"]

ASSUME OriginalsAssumption ==
  Originals \subseteq Configs /\ \A c \in Originals : c.server # "navo"
ASSUME OthersAssumption ==
  Others \subseteq Configs /\ \A c \in Others : c.server # "navo"
ASSUME FaultsAssumption == Faults \subseteq Interferences

VARIABLES
  reg,     \* the registry values
  backup,  \* proxy_backup.json, a sequence of at most one configuration
  owner,   \* proxy_owner.json and its phase
  active,  \* Manager.active
  op,      \* the operation that holds the mutex
  user,    \* history: the setting that was last chosen by someone else
  newer    \* history: it was chosen after Navo's last backup

files   == <<backup, owner>>
history == <<user, newer>>
vars    == <<reg, files, active, op, history>>

Places == {"none", "stat", "backup", "pending", "apply", "notify", "commit",
           "read", "restore", "remove", "relinquish", "return"}

(* phase: what apply writes, Navo's own configuration or the backup.       *)
Operations == [name : {"none", "enable", "disable"}, at : Places,
               phase : {"own", "restore"}, value : 1 .. Len(Order), ok : BOOLEAN]

Idle == [name |-> "none", at |-> "none", phase |-> "own", value |-> 1, ok |-> TRUE]

TypeOK ==
  /\ reg \in Configs
  /\ backup \in {<<>>} \cup {<<c>> : c \in Configs}
  /\ owner \in {"none", "pending", "committed"}
  /\ active \in BOOLEAN
  /\ op \in Operations
  /\ user \in Configs
  /\ newer \in BOOLEAN

Init ==
  /\ reg \in Originals
  /\ backup = <<>>
  /\ owner = "none"
  /\ active = FALSE
  /\ op = Idle
  /\ user = reg
  /\ newer = TRUE

-----------------------------------------------------------------------------
(* ownershipMatchesCurrent. *)
Matches(c) ==
  c.enable /\ c.server = "navo" /\ c.pac = "absent" /\ c.detect # "on"

(* Manager.owns *)
Owns == owner = "committed" /\ Matches(reg)

(* What applySystemProxyConfig makes of c: enabled needs a server.         *)
Written(c) == [c EXCEPT !.enable = c.enable /\ c.server # "absent"]

Goto(place) == op' = [op EXCEPT !.at = place]

Return(ok) == op' = [op EXCEPT !.at = "return", !.ok = ok]

Restore == op' = [op EXCEPT !.at = "restore", !.phase = "restore", !.value = 1]

(* A write that failed: Enable restores, a restoration gives up.           *)
WriteFailed == IF op.phase = "own" THEN Restore ELSE Return(FALSE)

-----------------------------------------------------------------------------
(* Enable *)

(* Mutant: the registry is not looked at again.                            *)
EnableAgainBlindly ==
  /\ op = Idle
  /\ active
  /\ op' = [Idle EXCEPT !.name = "enable", !.at = "return"]
  /\ UNCHANGED <<reg, files, active, history>>

(* Already ours and still in place; reading it back may fail.              *)
EnableAgain ==
  /\ op = Idle
  /\ active /\ Owns
  /\ op' = [Idle EXCEPT !.name = "enable", !.at = "return"]
  /\ UNCHANGED <<reg, files, active, history>>

Enable ==
  /\ op = Idle
  /\ active' = FALSE
  /\ op' = [Idle EXCEPT !.name = "enable", !.at = "stat"]
  /\ UNCHANGED <<reg, files, history>>

(* Mutant: a stale marker is overwritten.                                  *)
EnableStatIgnoringMarker ==
  /\ op.name = "enable" /\ op.at = "stat"
  /\ Goto("backup") \/ Return(FALSE)
  /\ UNCHANGED <<reg, files, active, history>>

(* A stale marker must be recovered first. *)
EnableStat ==
  /\ op.name = "enable" /\ op.at = "stat"
  /\ \/ owner = "none" /\ Goto("backup")
     \/ Return(FALSE)
  /\ UNCHANGED <<reg, files, active, history>>

Backup ==
  /\ op.at = "backup"
  /\ \/ backup' = <<reg>> /\ newer' = FALSE /\ Goto("pending")
     \/ /\ \/ backup' = backup /\ UNCHANGED newer
           \/ backup' = <<reg>> /\ newer' = FALSE
        /\ Return(FALSE)
  /\ UNCHANGED <<reg, owner, active, user>>

MarkPending ==
  /\ op.at = "pending"
  /\ \/ owner' = "pending" /\ Goto("apply")
     \/ owner' \in {owner, "pending"} /\ Return(FALSE)
  /\ UNCHANGED <<reg, backup, active, history>>

Commit ==
  /\ op.at = "commit"
  /\ \/ owner' = "committed" /\ active' = TRUE /\ Return(TRUE)
     \/ owner' \in {owner, "committed"} /\ Restore /\ UNCHANGED active
  /\ UNCHANGED <<reg, backup, history>>

-----------------------------------------------------------------------------
(* Writing the registry, for Enable and for a restoration *)

Target == IF op.phase = "own" THEN NavoConfig ELSE Written(backup[1])

ApplyValue ==
  /\ op.at = "apply"
  /\ reg' = [reg EXCEPT ![Order[op.value]] = Target[Order[op.value]]]
  /\ IF op.value = Len(Order) THEN Goto("notify") ELSE op' = [op EXCEPT !.value = @ + 1]
  /\ UNCHANGED <<files, active, history>>

ApplyFails ==
  /\ op.at = "apply"
  /\ op.value = 1 \/ "failure" \in Faults
  /\ WriteFailed
  /\ UNCHANGED <<reg, files, active, history>>

Notify ==
  /\ op.at = "notify"
  /\ \/ Goto(IF op.phase = "own" THEN "commit" ELSE "remove")
     \/ WriteFailed
  /\ UNCHANGED <<reg, files, active, history>>

RestoreBegin ==
  /\ op.at = "restore"
  /\ \/ backup # <<>> /\ Goto("apply")
     \/ Return(FALSE)
  /\ UNCHANGED <<reg, files, active, history>>

(* The marker is given up, after a restoration or because the registry is  *)
(* someone else's by now.  An Enable that restored has failed.             *)
GiveUpMarker ==
  /\ op.at \in {"remove", "relinquish"}
  /\ \/ owner' = "none" /\ active' = FALSE /\ Return(op.name = "disable")
     \/ Return(FALSE) /\ UNCHANGED <<owner, active>>
  /\ UNCHANGED <<reg, backup, history>>

-----------------------------------------------------------------------------
(* Disable *)

Disable ==
  /\ op = Idle
  /\ op' = [Idle EXCEPT !.name = "disable", !.at = "stat"]
  /\ UNCHANGED <<reg, files, active, history>>

(* Mutant: the manager's memory decides, not the marker on disk.           *)
DisableStatFromMemory ==
  /\ op.name = "disable" /\ op.at = "stat"
  /\ \/ ~active /\ Return(TRUE)
     \/ active /\ Goto("read")
     \/ Return(FALSE)
  /\ UNCHANGED <<reg, files, active, history>>

DisableStat ==
  /\ op.name = "disable" /\ op.at = "stat"
  /\ \/ owner = "none" /\ active' = FALSE /\ Return(TRUE)
     \/ owner # "none" /\ Goto("read") /\ UNCHANGED active
     \/ Return(FALSE) /\ UNCHANGED active
  /\ UNCHANGED <<reg, files, history>>

(* Mutant: the marker alone decides.                                       *)
CompareNothing ==
  /\ op.at = "read"
  /\ Restore \/ Return(FALSE)
  /\ UNCHANGED <<reg, files, active, history>>

(* restoreOwned compares the marker with the registry. *)
Compare ==
  /\ op.at = "read"
  /\ \/ Matches(reg) /\ Restore
     \/ ~Matches(reg) /\ Goto("relinquish")
     \/ Return(FALSE)
  /\ UNCHANGED <<reg, files, active, history>>

Finish ==
  /\ op.at = "return"
  /\ op' = Idle
  /\ UNCHANGED <<reg, files, active, history>>

-----------------------------------------------------------------------------
(* The environment *)

OtherApplication(c) ==
  /\ "external" \in Faults
  /\ op = Idle \/ "overlap" \in Faults
  /\ reg' = c
  /\ user' = c
  /\ newer' = TRUE
  /\ UNCHANGED <<files, active, op>>

Crash ==
  /\ "crash" \in Faults
  /\ op.at = "apply" /\ op.value > 1 => "torn" \in Faults
  /\ active' = FALSE
  /\ op' = Idle
  /\ UNCHANGED <<reg, files, history>>

Next ==
  \/ EnableAgain \/ Enable \/ EnableStat \/ Backup \/ MarkPending \/ Commit
  \/ ApplyValue \/ ApplyFails \/ Notify \/ RestoreBegin \/ GiveUpMarker
  \/ Disable \/ DisableStat \/ Compare \/ Finish
  \/ \E c \in Others : OtherApplication(c)
  \/ Crash

Spec == Init /\ [][Next]_vars

-----------------------------------------------------------------------------
(* Properties *)

PointsAtNavo == reg.enable /\ reg.server = "navo"

(* "Disable relinquishes Navo ownership and restores the user's original   *)
(* state": without a marker the registry holds what somebody else chose    *)
(* last, whatever failed or died on the way.                               *)
UserConfigRestored ==
  op = Idle /\ owner = "none" => Written(reg) = Written(user)

(* What the capture transaction takes a successful Disable for: the system *)
(* proxy no longer points at Navo.                                         *)
DisabledIsOff ==
  op.name = "disable" /\ op.at = "return" /\ op.ok => ~PointsAtNavo

(* What it takes a successful Enable for, the repeated one included.       *)
EnabledIsOwned ==
  op.name = "enable" /\ op.at = "return" /\ op.ok => Owns /\ active

(* "A newer external proxy is never overwritten": Navo's steps leave alone *)
(* what was chosen after its last backup.                                  *)
NewerKept == [][newer /\ user' = user => reg' = reg]_vars
============================================================================
