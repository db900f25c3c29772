----------------------------- MODULE DeviceSetup -----------------------------
(***************************************************************************)
(* The first thing a launcher does (internal/initialization, called by     *)
(* cmd/navo/main.go before it takes the lock of the single instance): find *)
(* out whether the data directory belongs to this user on this machine,    *)
(* remove what another one has left, and bind the directory to this one.   *)
(* The directory can be copied to another machine between two launches,    *)
(* every removal and every write can fail, and a launcher can die anywhere.*)
(***************************************************************************)
EXTENDS Naturals, Sequences

CONSTANTS
    Contexts,       \* users on machines: what a protected secret is bound to
    Launchers,      \* processes of the launcher
    ResetTargets,   \* the files a reset removes, in its order
    NoContext, Damaged

ASSUME ContextsAssumption == NoContext \notin Contexts /\ Damaged \notin Contexts /\ NoContext # Damaged
ASSUME TargetsAssumption == ResetTargets \in Seq(STRING)

VARIABLES
    machine,        \* where the directory is now
    stateFile,      \* device-state.dat: the context whose secret it protects
    keptFrom,       \* target |-> the context its contents are from
    legacy,         \* whether .env has keys of earlier versions
    setup           \* launcher |-> how far it is

deviceVars == <<machine, stateFile, keptFrom, legacy, setup>>

Targets == {ResetTargets[i] : i \in 1..Len(ResetTargets)}
AtRest == [stage |-> "none", next |-> 1, failed |-> FALSE, create |-> FALSE]

\* A directory of an earlier version has files and no device state.
DeviceInit ==
    /\ machine \in Contexts /\ stateFile = NoContext /\ legacy \in BOOLEAN
    /\ keptFrom \in [Targets -> {NoContext, machine}]
    /\ setup = [l \in Launchers |-> AtRest]

Becomes(l, stage) == setup' = [setup EXCEPT ![l].stage = stage]
Ends(l) == setup' = [setup EXCEPT ![l] = AtRest]
Running == {l \in Launchers : setup[l].stage = "running"}

Launch(l) ==
    /\ setup[l].stage = "none" /\ Becomes(l, "reading")
    /\ UNCHANGED <<machine, stateFile, keptFrom, legacy>>

\* A state that is there and cannot be unprotected is another context's; one that
\* is damaged ends the program.
ReadState(l) ==
    /\ setup[l].stage = "reading"
    /\ CASE stateFile = NoContext -> setup' = [setup EXCEPT ![l].stage = "cleaning", ![l].create = TRUE]
         [] stateFile = Damaged   -> Ends(l)
         [] stateFile = machine   -> Becomes(l, "cleaning")
         [] OTHER                 -> setup' = [setup EXCEPT ![l].stage = "removing", ![l].create = TRUE]
    /\ UNCHANGED <<machine, stateFile, keptFrom, legacy>>

\* A target that cannot be removed does not stop the others.
RemoveTarget(l) ==
    /\ setup[l].stage = "removing" /\ setup[l].next <= Len(ResetTargets)
    /\ LET target == ResetTargets[setup[l].next] IN
        \/ /\ keptFrom' = [keptFrom EXCEPT ![target] = NoContext]
           /\ setup' = [setup EXCEPT ![l].next = @ + 1]
        \/ /\ keptFrom[target] # NoContext /\ UNCHANGED keptFrom
           /\ setup' = [setup EXCEPT ![l].next = @ + 1, ![l].failed = TRUE]
    /\ UNCHANGED <<machine, stateFile, legacy>>

EndReset(l) ==
    /\ setup[l].stage = "removing" /\ setup[l].next > Len(ResetTargets)
    /\ IF setup[l].failed THEN Ends(l) ELSE Becomes(l, "cleaning")
    /\ UNCHANGED <<machine, stateFile, keptFrom, legacy>>

CleanLegacy(l) ==
    /\ setup[l].stage = "cleaning"
    /\ \/ legacy' = FALSE /\ Becomes(l, IF setup[l].create THEN "creating" ELSE "ready")
       \/ UNCHANGED legacy /\ Ends(l)
    /\ UNCHANGED <<machine, stateFile, keptFrom>>

CreateState(l) ==
    /\ setup[l].stage = "creating"
    /\ \/ stateFile' = machine /\ Becomes(l, "ready")
       \/ UNCHANGED stateFile /\ Ends(l)
    /\ UNCHANGED <<machine, keptFrom, legacy>>

TakeInstance(l) ==
    /\ setup[l].stage = "ready"
    /\ IF Running = {} THEN Becomes(l, "running") ELSE Ends(l)
    /\ UNCHANGED <<machine, stateFile, keptFrom, legacy>>

\* A program that runs writes its files.
WriteTarget(l) ==
    /\ setup[l].stage = "running"
    /\ \E t \in Targets : keptFrom' = [keptFrom EXCEPT ![t] = machine]
    /\ UNCHANGED <<machine, stateFile, legacy, setup>>

\* An exit, or a death at any point.
LauncherEnds(l) ==
    /\ setup[l].stage # "none" /\ Ends(l)
    /\ UNCHANGED <<machine, stateFile, keptFrom, legacy>>

\* Between two launches the directory is copied to another context, or its state
\* is damaged.
Unattended == stateFile # NoContext /\ \A l \in Launchers : setup[l].stage = "none"

MoveDirectory ==
    /\ Unattended /\ \E c \in Contexts \ {machine} : machine' = c
    /\ UNCHANGED <<stateFile, keptFrom, legacy, setup>>

DamageState ==
    /\ Unattended /\ stateFile' = Damaged
    /\ UNCHANGED <<machine, keptFrom, legacy, setup>>

DeviceNext ==
    \/ \E l \in Launchers :
        \/ Launch(l) \/ ReadState(l) \/ RemoveTarget(l) \/ EndReset(l) \/ CleanLegacy(l)
        \/ CreateState(l) \/ TakeInstance(l) \/ WriteTarget(l) \/ LauncherEnds(l)
    \/ MoveDirectory \/ DamageState

DeviceSpec == DeviceInit /\ [][DeviceNext]_deviceVars

-----------------------------------------------------------------------------
DeviceTypeOK ==
    /\ machine \in Contexts /\ stateFile \in Contexts \cup {NoContext, Damaged}
    /\ keptFrom \in [Targets -> Contexts \cup {NoContext}] /\ legacy \in BOOLEAN
    /\ setup \in [Launchers -> [stage : {"none", "reading", "removing", "cleaning", "creating", "ready", "running"},
                                next : 1..Len(ResetTargets) + 1, failed : BOOLEAN, create : BOOLEAN]]

\* Whatever failed, died or was copied before: a program that runs finds nothing in
\* the files of a reset that is from another context, and no keys of earlier
\* versions (initializer.go:53-98; design guide 9.5 and 9.7).
ForeignIsGone ==
    Running # {} => ~legacy /\ \A t \in Targets : keptFrom[t] \in {NoContext, machine}

\* A reset removes nothing that was written in the context it runs in (design guide
\* 9.6).  So it is with one launcher: a second one that has read the old state
\* before the first one replaced it resets what the first one has written since.
OwnIsKept ==
    [][machine' = machine => \A t \in Targets : keptFrom[t] = machine => keptFrom'[t] = machine]_deviceVars
=============================================================================
