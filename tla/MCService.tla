------------------------------ MODULE MCService ------------------------------
(* The state that the Service keeps for itself, and what the Agent knows of   *)
(* the network, each component by itself: `part` is chosen in the initial     *)
(* state, and the others rest in theirs.                                      *)
EXTENDS RuntimeConfig, Sources, IpcSession, SelfHeal, Compiler, TunSession, CoreSwitch, Environment

VARIABLE part

ServiceParts == {"runtime", "sources", "ipc", "heal", "compiler", "tun", "switch", "environment"}

partVars == <<part, runtimeVars, sourceVars, ipcVars, healVars, compilerVars, tunVars, switchVars, environmentVars>>

\* A window that is shorter than the cooldown, as in the code, and a longer one.
MCBudgets == {[window |-> 2, cooldown |-> 3], [window |-> 4, cooldown |-> 1]}

\* Requests of the compiler: every routing policy over two plain nodes, and every
\* protocol with what it needs, with all it may have, and with one thing missing.
Node(id, type, network, fields) == [id |-> id, type |-> type, network |-> network, fields |-> fields, enabled |-> TRUE]
Plain(id) == Node(id, "trojan", "tcp", Required("trojan"))
PlainSources == {<<>>, <<Plain("n1")>>, <<Plain("n1"), Plain("n2")>>, <<[Plain("n1") EXCEPT !.enabled = FALSE], Plain("n2")>>, <<Plain("n1"), Plain("n1")>>}
Protocols == {"socks", "http", "shadowsocks", "vmess", "vless", "trojan", "hysteria2", "tuic", "wireguard"}
Needs(type, network) ==
    Required(type) \cup (CASE network = "ws" -> {"path"} [] network = "grpc" -> {"service"} [] OTHER -> {})
Extras(type) ==
    {"tls", "sni", "insecure", "alpn", "fingerprint", "host", "reality", "shortid"} \cup
    (CASE type \in {"socks", "http", "shadowsocks"} -> {"user"} [] type = "vmess" -> {"security"} [] type = "vless" -> {"flow"}
       [] type = "hysteria2" -> {"obfs"} [] type = "tuic" -> {"congestion"} [] OTHER -> {})
OddNodes ==
    UNION {LET need == Needs(t, n)
           IN {Node("n1", t, n, f) : f \in {need, need \cup {"tls"}, need \cup {"reality"}, need \cup Extras(t)}
                                            \cup {need \ {x} : x \in need}} :
             t \in Protocols, n \in {"tcp", "ws", "grpc", "udp"}}
MCAsks ==
    {[sources |-> s, request |-> q, remembered |-> r, mode |-> m, list |-> l, listed |-> x,
      core |-> c, tun |-> t, physical |-> TRUE, port |-> 12080] :
        s \in PlainSources, q \in {"", "n2"}, r \in {"", "n1"}, m \in {"bypass_mainland", "global", "direct"},
        l \in {"off", "blacklist", "whitelist"}, x \in {{}, {"mainland"}, {"site", "net"}},
        c \in {"sing-box", "mihomo", "xray"}, t \in BOOLEAN}
    \cup
    {[sources |-> <<o>>, request |-> "", remembered |-> "n1", mode |-> "global", list |-> "off", listed |-> {},
      core |-> c, tun |-> FALSE, physical |-> FALSE, port |-> p] :
        o \in OddNodes, c \in {"sing-box", "mihomo", "xray"}, p \in {12080, 65000}}

\* One initial state of a component is enough where it rests.
RestingNode == CHOOSE n \in Nodes : TRUE
RestingPolicy == CHOOSE p \in Policies : TRUE
RestingBudget == CHOOSE b \in Budgets : TRUE

ServiceInit ==
    /\ part \in ServiceParts
    /\ RuntimeInit /\ (part # "runtime" => runtime.node = RestingNode /\ runtime.policy = RestingPolicy)
    /\ HealInit /\ (part # "heal" => budget = RestingBudget)
    /\ SourcesInit /\ IpcInit /\ CompilerInit /\ TunInit /\ EnvironmentInit
    /\ SwitchInit /\ (part # "switch" => picked = BasicKernel)

RuntimePart == part = "runtime" /\ RuntimeNext /\ UNCHANGED <<part, sourceVars, ipcVars, healVars, compilerVars, tunVars, switchVars, environmentVars>>
SourcesPart == part = "sources" /\ SourcesNext /\ UNCHANGED <<part, runtimeVars, ipcVars, healVars, compilerVars, tunVars, switchVars, environmentVars>>
IpcPart == part = "ipc" /\ IpcNext /\ UNCHANGED <<part, runtimeVars, sourceVars, healVars, compilerVars, tunVars, switchVars, environmentVars>>
HealPart == part = "heal" /\ HealNext /\ UNCHANGED <<part, runtimeVars, sourceVars, ipcVars, compilerVars, tunVars, switchVars, environmentVars>>
CompilerPart == part = "compiler" /\ CompilerNext /\ UNCHANGED <<part, runtimeVars, sourceVars, ipcVars, healVars, tunVars, switchVars, environmentVars>>

TunPart == part = "tun" /\ TunNext /\ UNCHANGED <<part, runtimeVars, sourceVars, ipcVars, healVars, compilerVars, switchVars, environmentVars>>

SwitchPart == part = "switch" /\ SwitchNext /\ UNCHANGED <<part, runtimeVars, sourceVars, ipcVars, healVars, compilerVars, tunVars, environmentVars>>

EnvironmentPart == part = "environment" /\ EnvironmentNext /\ UNCHANGED <<part, runtimeVars, sourceVars, ipcVars, healVars, compilerVars, tunVars, switchVars>>

ServiceNext == RuntimePart \/ SourcesPart \/ IpcPart \/ HealPart \/ CompilerPart \/ TunPart \/ SwitchPart \/ EnvironmentPart

ServiceSpec == ServiceInit /\ [][ServiceNext]_partVars

\* A component that rests keeps its initial state: only the one that runs
\* tells two states apart, and only its type can change.
ServiceView ==
    <<part,
      CASE part = "runtime" -> runtimeVars [] part = "sources" -> sourceVars [] part = "ipc" -> ipcVars
        [] part = "heal" -> healVars [] part = "compiler" -> compilerVars [] part = "tun" -> tunVars
        [] part = "switch" -> switchVars [] part = "environment" -> environmentVars>>

ServiceTypeOK ==
    CASE part = "runtime" -> RuntimeTypeOK [] part = "sources" -> SourcesTypeOK [] part = "ipc" -> IpcTypeOK
      [] part = "heal" -> HealTypeOK [] part = "compiler" -> CompilerTypeOK [] part = "tun" -> TunTypeOK
      [] part = "switch" -> SwitchTypeOK [] part = "environment" -> EnvironmentTypeOK

\* Memory, runtime_state.json, the path of the configuration and the core agree,
\* what they call active has passed a probe, a mutation or a change of the core that
\* failed once changed nothing, the files that are still needed are there, no core
\* runs the file of another, and none is dropped alive: RunningIsRecorded,
\* ActiveIsProven, MutationIsAtomic, NeededFilesStay, FileFitsCore, SwitchIsUndone and
\* NoDroppedCoreLives (internal/service/runtime.go, warm_lease.go, service.go).
RuntimeAgrees ==
    /\ RunningIsRecorded /\ ActiveIsProven /\ MutationIsAtomic /\ NeededFilesStay
    /\ FileFitsCore /\ SwitchIsUndone /\ NoDroppedCoreLives
=============================================================================
