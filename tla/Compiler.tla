------------------------------- MODULE Compiler -------------------------------
(***************************************************************************)
(* The configuration compiler: what the Service asks for                   *)
(* (applyRuntimeConfigLocked, internal/service/runtime.go:968-1085), what  *)
(* the validator lets through (internal/compiler/validator.go), and the    *)
(* documents that three cores are given for the same routing policy        *)
(* (generator.go, multi_core.go, internal/coreadapter).  An address or a   *)
(* domain is the set of the lists it is on, and an outbound the set of the *)
(* fields it has.  Networks are spelled in lower case here: a link that    *)
(* says WS passes validateTransport, which folds the case, and is not      *)
(* understood by the generators, which do not.                             *)
(***************************************************************************)
EXTENDS Naturals, Sequences, SequencesExt, FiniteSets, FiniteSetsExt

CONSTANT Asks   \* the requests: sources, selection, routing, core, TUN, local port

Fields == {"server", "port", "user", "method", "password", "uuid", "security", "flow", "obfs", "congestion",
           "path", "service", "host", "tls", "sni", "insecure", "alpn", "fingerprint", "reality", "shortid"}
Outbounds == [id : STRING, type : STRING, network : STRING, fields : SUBSET Fields, enabled : BOOLEAN]

\* Only the cores that the Service knows are selected, and the sources are a list.
ASSUME AsksAssumption ==
    \A a \in Asks : a.core \in {"sing-box", "mihomo", "xray"} /\ a.sources \in Seq(Outbounds)

VARIABLES
    ask,        \* the state a candidate is composed from
    config,     \* the canonical configuration
    document,   \* what the core is given
    progress    \* how far the compilation has come

compilerVars == <<ask, config, document, progress>>

Domains == {"site", "mainland"}
Networks == {"private", "net"}
\* What a connection matches: nothing, one list, or several of them.
Destinations == SUBSET (Domains \cup Networks)

NothingAsked == [sources |-> <<>>, request |-> "", remembered |-> "", mode |-> "direct", list |-> "off",
                 listed |-> {}, core |-> "sing-box", tun |-> FALSE, physical |-> FALSE, port |-> 12080]
NoOutbound == [id |-> "", type |-> "", network |-> "tcp", fields |-> {}, enabled |-> FALSE]
Direct == [id |-> "direct", type |-> "direct", network |-> "tcp", fields |-> {}, enabled |-> TRUE]
NoConfig == [outbounds |-> <<>>, rules |-> <<>>, final |-> "", detour |-> "", tun |-> FALSE,
             interface |-> FALSE, port |-> 0, disconnected |-> TRUE]
NoDocument == [rules |-> <<>>, final |-> "", resolver |-> "", tags |-> {}, carried |-> <<>>, controller |-> FALSE]

-----------------------------------------------------------------------------
(* Outbounds *)

\* validateOutbound: what a protocol cannot do without.
Required(type) ==
    IF type = "direct" THEN {}
    ELSE {"server", "port"} \cup
         CASE type = "shadowsocks" -> {"method", "password"}
           [] type \in {"vmess", "vless"} -> {"uuid"}
           [] type \in {"trojan", "hysteria2"} -> {"password"}
           [] type = "tuic" -> {"uuid", "password"}
           [] OTHER -> {}

\* validateTransport: a WebSocket has a path and a gRPC transport a service, and
\* Reality has a server name and a short ID.
Transport(o) ==
    (CASE o.network = "ws" -> {"path"} [] o.network = "grpc" -> {"service"} [] OTHER -> {})
    \cup (IF "reality" \in o.fields THEN {"sni", "reality", "shortid"} ELSE {})

ValidOutbound(o) ==
    /\ o.id # "" /\ o.type \notin {"", "wireguard"}
    /\ o.type = "direct" \/ (Required(o.type) \cup Transport(o)) \subseteq o.fields

\* The protocols a core can stand for at all.
Compatible(core, o) ==
    IF core = "xray" THEN o.type \in {"direct", "socks", "http", "shadowsocks", "vmess", "vless", "trojan"}
    ELSE o.type # "wireguard"

\* buildSingBoxOutbound: the fields that reach the document.
SingBoxFields(o) ==
    o.fields \cap
    ((CASE o.type = "direct" -> {}
        [] o.type \in {"socks", "http"} -> {"server", "port", "user"}
        [] o.type = "shadowsocks" -> {"server", "port", "method", "password"}
        [] o.type = "vmess" -> {"server", "port", "uuid", "security"}
        [] o.type = "vless" -> {"server", "port", "uuid", "flow"}
        [] o.type = "trojan" -> {"server", "port", "password"}
        [] o.type = "hysteria2" -> {"server", "port", "password", "obfs"}
        [] o.type = "tuic" -> {"server", "port", "uuid", "password", "congestion"}
        [] OTHER -> {"server", "port"})
     \cup (IF o.network = "tcp" THEN {} ELSE {"path", "service"})
     \cup (IF o.network = "ws" THEN {"host"} ELSE {})
     \cup (IF o.fields \cap {"tls", "sni", "reality"} = {} THEN {}
           ELSE {"tls", "sni", "insecure", "alpn", "fingerprint", "reality"}
                \cup (IF "reality" \in o.fields THEN {"shortid"} ELSE {})))

\* mihomoProxy.
MihomoFields(o) ==
    o.fields \cap
    ({"server", "port"}
     \cup (CASE o.type \in {"socks", "http"} -> {"user"}
             [] o.type = "shadowsocks" -> {"method", "password"}
             [] o.type = "vmess" -> {"uuid", "security"}
             [] o.type = "vless" -> {"uuid", "flow"}
             [] o.type \in {"trojan", "hysteria2"} -> {"password"}
             [] o.type = "tuic" -> {"uuid", "password"}
             [] OTHER -> {})
     \cup (IF o.fields \cap {"tls", "sni"} = {} THEN {} ELSE {"tls", "sni", "insecure"})
     \cup (CASE o.network = "ws" -> {"path", "host"} [] o.network = "grpc" -> {"service"} [] OTHER -> {})
     \cup (IF "reality" \in o.fields THEN {"reality", "shortid"} ELSE {}))

\* xrayOutbound: a user name takes the place of a cipher.
XrayFields(o) ==
    IF o.type = "direct" THEN {}
    ELSE o.fields \cap
         ({"server", "port"}
          \cup (CASE o.type \in {"socks", "http"} -> {"user"}
                  [] o.type = "shadowsocks" -> IF "user" \in o.fields THEN {"user"} ELSE {"method", "password"}
                  [] o.type = "vmess" -> {"uuid", "security"}
                  [] o.type = "vless" -> {"uuid", "flow"}
                  [] OTHER -> {"password"})
          \cup (IF o.fields \cap {"tls", "sni"} = {} THEN {} ELSE {"tls", "sni", "insecure", "fingerprint"})
          \cup (IF "reality" \in o.fields THEN {"sni", "fingerprint", "reality", "shortid"} ELSE {})
          \cup (CASE o.network = "ws" -> {"path", "host"} [] o.network = "grpc" -> {"service"} [] OTHER -> {}))

-----------------------------------------------------------------------------
(* The candidate of the Service *)

\* The enabled sources in their order: `kept` is the list after the first n of them.
Enabled(sources) ==
    LET kept[n \in 0 .. Len(sources)] ==
            IF n = 0 THEN <<>>
            ELSE IF sources[n].enabled THEN Append(kept[n - 1], sources[n]) ELSE kept[n - 1]
    IN kept[Len(sources)]

Named(sources, id) ==
    IF \E i \in DOMAIN sources : sources[i].id = id
    THEN sources[CHOOSE i \in DOMAIN sources : sources[i].id = id] ELSE NoOutbound

\* The outbound asked for, else the one remembered, else the first that is enabled.
Chosen(a) ==
    LET enabled == Enabled(a.sources)
        wanted == Named(enabled, IF a.request # "" THEN a.request ELSE a.remembered)
    IN IF wanted.id # "" THEN wanted
       ELSE IF enabled # <<>> THEN enabled[1] ELSE NoOutbound

Tag(o) == IF o.id = "" THEN "direct" ELSE o.id

\* A routing rule: its type, what it matches, and the outbound it leads to.
routingRule(type, match, out) == [type |-> type, match |-> match, out |-> out]

\* appendRuntimeListRules: domains and networks of a list become two rules.
ListRules(list, out) ==
    (IF list \cap Domains = {} THEN <<>> ELSE <<routingRule("domain_suffix", list \cap Domains, out)>>)
    \o (IF list \cap Networks = {} THEN <<>> ELSE <<routingRule("ip_cidr", list \cap Networks, out)>>)

\* Mutant: the mainland domains come before the lists of the user.
PolicyMainlandFirst(a, tag) ==
    [final |-> IF a.mode = "direct" THEN "direct" ELSE tag,
     rules |-> <<routingRule("ip_cidr", {"private"}, "direct")>>
               \o (IF a.mode = "bypass_mainland"
                   THEN <<routingRule("domain_suffix", {"mainland"}, "direct")>> ELSE <<>>)
               \o (IF a.list = "whitelist" THEN ListRules(a.listed, "direct") ELSE <<>>)
               \o (IF a.list = "blacklist" /\ tag # "direct" THEN ListRules(a.listed, tag) ELSE <<>>)]

\* Private networks, the list in use, the mainland domains, and the rest.
runtimeRoutingPolicy(a, tag) ==
    [final |-> IF a.mode = "direct" THEN "direct" ELSE tag,
     rules |-> <<routingRule("ip_cidr", {"private"}, "direct")>>
               \o (IF a.list = "whitelist" THEN ListRules(a.listed, "direct") ELSE <<>>)
               \o (IF a.list = "blacklist" /\ tag # "direct" THEN ListRules(a.listed, tag) ELSE <<>>)
               \o (IF a.mode = "bypass_mainland"
                   THEN <<routingRule("domain_suffix", {"mainland"}, "direct")>> ELSE <<>>)]

\* The TUN of a policy that is direct in the end still resolves names through the node.
Composed(a) ==
    LET tag == Tag(Chosen(a))
        policy == runtimeRoutingPolicy(a, tag)
    IN [outbounds |-> <<Direct>> \o Enabled(a.sources), rules |-> policy.rules, final |-> policy.final,
        detour |-> IF a.tun /\ tag # "direct" /\ policy.final = "direct" THEN tag ELSE "",
        tun |-> a.tun, interface |-> a.physical, port |-> a.port, disconnected |-> Chosen(a).id = ""]

-----------------------------------------------------------------------------
(* The adapters *)

Ids(outbounds) == {outbounds[i].id : i \in DOMAIN outbounds}

\* Validate: every outbound is whole and has a name of its own, and nothing
\* leads to an outbound that is not there.
Valid(c) ==
    /\ \A i \in DOMAIN c.outbounds : ValidOutbound(c.outbounds[i])
    /\ Cardinality(Ids(c.outbounds)) = Len(c.outbounds)
    /\ c.final \in Ids(c.outbounds) \cup {"", "direct", "block"}
    /\ \A i \in DOMAIN c.rules : c.rules[i].match # {} /\ c.rules[i].out \in Ids(c.outbounds) \cup {"direct", "bypass", "block"}

\* compileNative: metrics need a port for the controller, and Mihomo insists on it.
ControllerPort(c) == c.port + 1000
HasController(core, c) == core # "xray" /\ ControllerPort(c) <= 65535

\* defaultTUNDNSConfig.
Resolver(c) ==
    IF ~c.tun THEN "system"
    ELSE IF c.detour # "" THEN c.detour
    ELSE IF c.final \notin {"", "direct"} THEN c.final ELSE "direct"

Captured(match, out) == [match |-> match, out |-> out]
RouteOf(rule) == Captured(rule.match, rule.out)
Routes(c) == [i \in DOMAIN c.rules |-> RouteOf(c.rules[i])]

\* Generate: under TUN names are hijacked before any rule is asked, and ICMP,
\* which no node carries, leaves directly.
SingBox(c) ==
    [rules |-> (IF c.tun THEN <<Captured({"dns"}, "hijack"), Captured({"icmp"}, "direct")>> ELSE <<>>) \o Routes(c),
     final |-> c.final, resolver |-> Resolver(c), tags |-> Ids(c.outbounds),
     carried |-> [i \in DOMAIN c.outbounds |-> SingBoxFields(c.outbounds[i])], controller |-> HasController("sing-box", c)]

\* GenerateMihomo: the listener hijacks names, a group of one proxy stands for the
\* final outbound, and the canonical resolver is not looked at.
Mihomo(c) ==
    [rules |-> (IF c.tun THEN <<Captured({"dns"}, "hijack")>> ELSE <<>>) \o Routes(c),
     final |-> IF c.final = "" THEN "direct" ELSE c.final,
     resolver |-> IF ~c.tun THEN "system" ELSE IF c.final \notin {"", "direct"} THEN c.final ELSE "direct",
     tags |-> Ids(c.outbounds), controller |-> TRUE,
     carried |-> [i \in DOMAIN c.outbounds |->
                     IF c.outbounds[i].type = "direct" THEN {} ELSE MihomoFields(c.outbounds[i])]]

\* GenerateXray.
Xray(c) ==
    [rules |-> Routes(c), final |-> IF c.final = "" THEN "direct" ELSE c.final, resolver |-> "system",
     tags |-> Ids(c.outbounds) \cup {"block"}, controller |-> FALSE,
     carried |-> [i \in DOMAIN c.outbounds |-> XrayFields(c.outbounds[i])]]

\* What a generator refuses of a configuration that is valid.
Refused(core, c) ==
    \/ core = "mihomo" /\ ControllerPort(c) > 65535
    \/ core = "mihomo" /\ \E i \in DOMAIN c.outbounds : c.outbounds[i].network \notin {"tcp", "ws", "grpc"}
    \/ core = "xray" /\ c.tun

-----------------------------------------------------------------------------
(* Steps *)

CompilerInit ==
    /\ ask = NothingAsked /\ config = NoConfig /\ document = NoDocument /\ progress = "idle"

Ask ==
    /\ progress = "idle" /\ ask' \in Asks /\ progress' = "asked"
    /\ UNCHANGED <<config, document>>

\* An outbound that was asked for by name must be there, and every one that is
\* enabled must suit the core.
Compose ==
    /\ progress = "asked"
    /\ IF \/ ask.request # "" /\ Named(Enabled(ask.sources), ask.request).id = ""
          \/ \E i \in DOMAIN ask.sources : ask.sources[i].enabled /\ ~Compatible(ask.core, ask.sources[i])
       THEN progress' = "refused" /\ UNCHANGED config
       ELSE progress' = "composed" /\ config' = Composed(ask)
    /\ UNCHANGED <<ask, document>>

compileNative ==
    /\ progress = "composed"
    /\ IF \/ config.disconnected /\ config.final # "direct"
          \/ ~Valid(config) \/ Refused(ask.core, config)
       THEN progress' = "refused" /\ UNCHANGED document
       ELSE /\ progress' = "done"
            /\ document' = CASE ask.core = "sing-box" -> SingBox(config)
                             [] ask.core = "mihomo" -> Mihomo(config)
                             [] ask.core = "xray" -> Xray(config)
    /\ UNCHANGED <<ask, config>>

CompilerNext == Ask \/ Compose \/ compileNative

-----------------------------------------------------------------------------
(* Properties *)

CompilerTypeOK ==
    /\ progress \in {"idle", "asked", "composed", "refused", "done"}
    /\ ask.core \in {"sing-box", "mihomo", "xray"} /\ document.controller \in BOOLEAN
    /\ (progress \in {"idle", "asked"} => config = NoConfig) /\ (progress # "done" => document = NoDocument)

\* Where a document sends a connection: its first rule that matches, or the end.
FirstMatch(rules, destination, otherwise) ==
    LET hits == {i \in DOMAIN rules : rules[i].match \cap destination # {}}
    IN IF hits = {} THEN otherwise ELSE rules[Min(hits)].out

Exit(d, destination) == FirstMatch(d.rules, destination, d.final)

\* What the user is promised of a connection (TestRuntimeRoutingPolicySemanticMatrix,
\* internal/service/runtime_test.go:652).
Promised(a, destination) ==
    LET node == Tag(Chosen(a))
        listed == destination \cap a.listed # {}
    IN IF \/ "private" \in destination
          \/ a.list = "whitelist" /\ listed
          \/ ~(a.list = "blacklist" /\ listed) /\ (a.mode = "direct" \/ (a.mode = "bypass_mainland" /\ "mainland" \in destination))
       THEN "direct" ELSE node

\* Whatever core is selected, a connection leaves where the routing policy says,
\* and through an outbound that is in the document (runtime.go:1206-1236 against
\* generator.go:222-288, multi_core.go:121-173, 243-298).
RoutesArePromised ==
    progress = "done" => \A d \in Destinations :
        Exit(document, d) = Promised(ask, d) /\ Exit(document, d) \in document.tags

\* Under TUN a query for a name is hijacked whatever its address is, that of the
\* router at home included, and with sing-box the names of what goes through the
\* node are not asked for in the clear (generator.go:231-252, 319-343).
NamesAreCaptured ==
    progress = "done" /\ ask.tun =>
        /\ \A d \in Destinations : Exit(document, d \cup {"dns"}) = "hijack"
        /\ ask.core = "sing-box" /\ (\E d \in Destinations : Exit(document, d) # "direct") => document.resolver # "direct"

\* Every source that is enabled is in the document under its name, with what its
\* protocol, its transport and Reality cannot do without (validator.go:158-218 against
\* the three generators), but for the one case where it is not: the user name of a
\* shadowsocks node takes the place of its cipher for Xray (multi_core.go:314).
LosesCipher(core, o) == core = "xray" /\ o.type = "shadowsocks" /\ "user" \in o.fields

NodesAreWhole ==
    progress = "done" => \A s \in DOMAIN ask.sources :
        LET o == ask.sources[s]
        IN o.enabled /\ o.type # "direct" /\ ~LosesCipher(ask.core, o) =>
              /\ o.id \in document.tags
              /\ \E i \in DOMAIN config.outbounds :
                    config.outbounds[i] = o /\ (Required(o.type) \cup Transport(o)) \subseteq document.carried[i]

\* Whatever core compiles it, the user's policy is what the document says:
\* RoutesArePromised, NamesAreCaptured and NodesAreWhole (internal/compiler).
DocumentsAgree == RoutesArePromised /\ NamesAreCaptured /\ NodesAreWhole
=============================================================================
