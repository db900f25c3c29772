------------------------------ MODULE MCWindows ------------------------------
(* What Navo changes in Windows, each component by itself: the system proxy,  *)
(* the routes and rules of the TUN, the start and the exit of the program     *)
(* that must put both back, and the data directory a start takes over.  The   *)
(* resources of a plan become four kinds: one route to the endpoint, one      *)
(* route bound to the adapter, the NRPT rule and the firewall rule.  `part`   *)
(* is chosen in the initial state, and the other components rest in theirs.   *)
EXTENDS MCSystemProxy, NetworkJournal, Lifecycle, DeviceSetup

VARIABLE part

MCOperations == <<"endpoint_route", "split_route", "nrpt_rule", "firewall_rule">>
MCRoutes == {"endpoint_route", "split_route"}
MCAdapterBound == {"split_route"}

\* Requests without a window, and windows without a request.
MCQuotas == {[requests |-> 2, shows |-> 0], [requests |-> 0, shows |-> 3]}

\* What another context must not read, and what must not be undone elsewhere.
MCTargets == <<"credentials", "journal">>

WindowsParts == {"proxy", "network", "life", "device"}

windowsVars == <<part, vars, networkVars, lifeVars, deviceVars>>

\* One initial state of a component is enough where it rests.
RestingOriginal == CHOOSE c \in Originals : TRUE
RestingQuota == CHOOSE q \in LifeQuotas : TRUE
RestingMachine == CHOOSE c \in Contexts : TRUE

WindowsInit ==
    /\ part \in WindowsParts
    /\ Init /\ (part # "proxy" => reg = RestingOriginal)
    /\ NetworkInit /\ (part # "network" => twin = {})
    /\ LifeInit /\ (part # "life" => windows = Clean /\ quota = RestingQuota)
    /\ DeviceInit
    /\ part # "device" => /\ machine = RestingMachine /\ ~legacy
                          /\ \A t \in Targets : keptFrom[t] = NoContext

ProxyPart == part = "proxy" /\ Next /\ UNCHANGED <<part, networkVars, lifeVars, deviceVars>>
NetworkPart == part = "network" /\ NetworkNext /\ UNCHANGED <<part, vars, lifeVars, deviceVars>>
LifePart == part = "life" /\ LifeNext /\ UNCHANGED <<part, vars, networkVars, deviceVars>>
DevicePart == part = "device" /\ DeviceNext /\ UNCHANGED <<part, vars, networkVars, lifeVars>>

WindowsNext == ProxyPart \/ NetworkPart \/ LifePart \/ DevicePart

\* main, the Service, the Agent and a request of the program go on; its exit is not
\* forced.
WindowsSpec ==
    /\ WindowsInit /\ [][WindowsNext]_windowsVars
    /\ WF_lifeVars(part = "life" /\ Main) /\ WF_lifeVars(part = "life" /\ ServiceRuns)
    /\ WF_lifeVars(part = "life" /\ AgentRuns) /\ WF_lifeVars(part = "life" /\ RequestRuns)

WindowsTypeOK ==
    CASE part = "proxy" -> TypeOK [] part = "network" -> NetworkTypeOK
      [] part = "life" -> LifeTypeOK [] part = "device" -> DeviceTypeOK

\* One window, a start that recovers first and finds nothing from elsewhere, and an
\* exit that leaves nothing behind: OneWindow, RecoveredFirst, ForeignIsGone and
\* ExitIsClean (cmd/navo, internal/initialization, agent.go, service.go).
ProgramIsSafe == OneWindow /\ RecoveredFirst /\ ForeignIsGone /\ ExitIsClean
=============================================================================
