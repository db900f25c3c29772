------------------------------- MODULE Sources -------------------------------
(***************************************************************************)
(* Where the proxies come from: subscriptions with their cached nodes,     *)
(* kept in two files (internal/subscription), upstream proxies in a third  *)
(* (internal/upstreamproxy), and the secrets that both refer to            *)
(* (internal/credential).  The Service changes them one operation at a     *)
(* time under captureMu and recompiles the configuration; any write may    *)
(* fail, and the process may die between two writes.                       *)
(***************************************************************************)
EXTENDS Naturals, FiniteSets

CONSTANTS
    Providers,          \* subscriptions that may exist
    Upstreams,          \* upstream proxies that may exist
    MaxFetches,         \* bound: contents that a provider delivers
    MaxOperations,      \* bound
    MaxSourceFaults     \* bound: failed writes, failed compilations, crashes

ASSUME SourcesAssumption ==
    /\ Providers \cap Upstreams = {} /\ MaxFetches \in Nat \ {0}
    /\ MaxOperations \in Nat /\ MaxSourceFaults \in Nat

VARIABLES
    subs,               \* Manager.subs
    nodes,              \* Manager.outbounds: the content held of each provider, 0 for none
    subsFile, nodesFile,    \* the metadata and the protected endpoint cache
    ups,                \* upstreamproxy.Manager, in memory and in its file
    secrets,            \* credential.FileStore, in memory and in its file
    compiled,           \* what the configuration was last compiled from
    work,               \* the operation under captureMu, and its next step
    answered,           \* the last operation, what it was told, the sources before it
    operations, sourceFaults

sourceVars == <<subs, nodes, subsFile, nodesFile, ups, secrets, compiled, work, answered,
                operations, sourceFaults>>

Owners == Providers \cup Upstreams
Content == [p \in Providers |-> IF p \in subs THEN nodes[p] ELSE 0]
Now == [subs |-> subs, nodes |-> nodes, ups |-> ups]
Idle == [op |-> "none"]

SourcesInit ==
    /\ subs = {} /\ nodes = [p \in Providers |-> 0] /\ subsFile = subs /\ nodesFile = nodes
    /\ ups = {} /\ secrets = {} /\ work = Idle
    /\ compiled = [nodes |-> nodes, ups |-> ups]
    /\ answered = [op |-> "none", ok |-> TRUE, was |-> Now, damaged |-> FALSE]
    /\ operations = 0 /\ sourceFaults = 0

Fault == sourceFaults < MaxSourceFaults /\ sourceFaults' = sourceFaults + 1
NoFault == UNCHANGED sourceFaults

Step(s) == work' = [work EXCEPT !.step = s] /\ UNCHANGED <<answered, operations>>

\* The answer, and captureMu is released.
Tell(ok) ==
    /\ work' = Idle /\ UNCHANGED operations
    /\ answered' = [op |-> work.op, ok |-> ok, was |-> work.was,
                    damaged |-> sourceFaults' > work.faults + 1]

\* An operation; `owner` is what it is about, `was` the sources before it, `undo`
\* what memory goes back to when a write fails.
Enter(op, o, s) ==
    /\ work = Idle /\ operations < MaxOperations /\ operations' = operations + 1
    /\ work' = [op |-> op, owner |-> o, step |-> s, was |-> Now, undo |-> Now,
                faults |-> sourceFaults, fetched |-> {}]
    /\ UNCHANGED answered

sourceFiles == <<subsFile, nodesFile>>

-----------------------------------------------------------------------------
(* Subscriptions *)

\* AddWithOptions: the URL is a secret; a URL that exists already leaves no trace.
AddSubscription(p) ==
    /\ p \notin subs /\ Enter("add", p, "cache")
    /\ secrets' = secrets \cup {p} /\ subs' = subs \cup {p} /\ NoFault
    /\ UNCHANGED <<nodes, sourceFiles, ups, compiled>>

\* Mutant: the secret goes with the subscription, before the removal is certain.
DetachWithSecret(p) ==
    /\ p \in subs /\ Enter("remove", p, "cache")
    /\ subs' = subs \ {p} /\ nodes' = [nodes EXCEPT ![p] = 0] /\ NoFault
    /\ secrets' = secrets \ {p} /\ UNCHANGED <<sourceFiles, ups, compiled>>

\* handleSubRemove, Detach.
DetachSubscription(p) ==
    /\ p \in subs /\ Enter("remove", p, "cache")
    /\ subs' = subs \ {p} /\ nodes' = [nodes EXCEPT ![p] = 0] /\ NoFault
    /\ UNCHANGED <<sourceFiles, ups, secrets, compiled>>

\* A provider whose fetch or content fails, or whose secret is gone, keeps its nodes.
Fetched(ok) ==
    [p \in Providers |-> IF p \in ok THEN (nodes[p] % MaxFetches) + 1
                         ELSE IF p \in subs THEN nodes[p] ELSE 0]

\* Refresh, asked for by itself or by an add that waits.
RefreshSources ==
    /\ work = Idle => operations < MaxOperations
    /\ work # Idle => work.op = "add" /\ work.step = "fetch"
    /\ \E ok \in SUBSET (subs \cap secrets) :
        /\ nodes' = Fetched(ok)
        /\ work' = [op |-> "refresh", owner |-> "all", step |-> "cache", was |-> Now,
                    undo |-> Now, faults |-> sourceFaults, fetched |-> ok]
    /\ operations' = IF work = Idle THEN operations + 1 ELSE operations
    /\ NoFault /\ UNCHANGED <<subs, sourceFiles, ups, secrets, compiled, answered>>

\* saveLocked writes the endpoint cache ...
SaveCache ==
    /\ work # Idle /\ work.step = "cache" /\ nodesFile' = nodes /\ Step("metadata") /\ NoFault
    /\ UNCHANGED <<subs, nodes, subsFile, ups, secrets, compiled>>

\* ... and then the metadata.
SaveMetadata ==
    /\ work # Idle /\ work.step = "metadata" /\ subsFile' = subs /\ NoFault
    /\ CASE work.op = "add" -> Tell(TRUE) \/ Step("fetch")
         [] work.op = "remove" -> IF work.owner \in subs THEN Tell(FALSE) ELSE Step("apply")
         [] work.op = "refresh" -> IF work.fetched = {} /\ subs # {} THEN Tell(FALSE)
                                   ELSE IF \A p \in Providers : nodes[p] = 0 THEN Tell(TRUE)
                                   ELSE Step("apply")
    /\ UNCHANGED <<subs, nodes, nodesFile, ups, secrets, compiled>>

\* A write fails: memory goes back, the cache file may be ahead of it.
SaveFails ==
    /\ work # Idle /\ work.step \in {"cache", "metadata"} /\ Fault
    /\ subs' = work.undo.subs /\ nodes' = work.undo.nodes
    /\ IF work.op = "add" THEN Step("forgetFailed") ELSE Tell(FALSE)
    /\ UNCHANGED <<sourceFiles, ups, secrets, compiled>>

-----------------------------------------------------------------------------
(* Upstream proxies *)

\* handleOutboundCreate: the secrets, then upstreamproxy.Manager.Add.
CreateUpstream(u) ==
    /\ u \notin ups /\ Enter("create", u, "apply")
    /\ secrets' = secrets \cup {u} /\ ups' = ups \cup {u} /\ NoFault
    /\ UNCHANGED <<subs, nodes, sourceFiles, compiled>>

\* The file of the upstream proxies cannot be written: nothing is kept.
CreateFails(u) ==
    /\ u \notin ups /\ Enter("create", u, "forgetFailed") /\ Fault
    /\ secrets' = secrets \cup {u} /\ UNCHANGED <<subs, nodes, sourceFiles, ups, compiled>>

\* handleOutboundDelete.
DeleteUpstream(u) ==
    /\ u \in ups /\ Enter("delete", u, "apply") /\ ups' = ups \ {u} /\ NoFault
    /\ UNCHANGED <<subs, nodes, sourceFiles, secrets, compiled>>

-----------------------------------------------------------------------------
(* The configuration, and the way back *)

\* applyRuntimeConfig, which restores the previous configuration if it fails.
ApplySources ==
    /\ work # Idle /\ work.step = "apply" /\ NoFault
    /\ compiled' = [nodes |-> Content, ups |-> ups \cap secrets]
    /\ IF work.op \in {"remove", "delete"} THEN Step("forget") ELSE Tell(TRUE)
    /\ UNCHANGED <<subs, nodes, sourceFiles, ups, secrets>>

ApplyFails ==
    /\ work # Idle /\ work.step = "apply" /\ Fault
    /\ CASE work.op = "remove" ->      \* RestoreRemoval
            /\ subs' = work.was.subs /\ nodes' = work.was.nodes
            /\ work' = [work EXCEPT !.step = "cache", !.undo = Now]
            /\ UNCHANGED <<ups, answered, operations>>
         [] work.op = "refresh" -> Tell(FALSE) /\ UNCHANGED <<subs, nodes, ups>>
         [] work.op = "create" -> /\ ups' = ups \ {work.owner} /\ Step("forgetFailed")
                                  /\ UNCHANGED <<subs, nodes>>
         [] work.op = "delete" -> /\ ups' = ups \cup {work.owner} /\ Tell(FALSE)
                                  /\ UNCHANGED <<subs, nodes>>
    /\ UNCHANGED <<sourceFiles, secrets, compiled>>

\* ... and the file that takes the change back cannot be written either.
ApplyAndUndoFail ==
    /\ work # Idle /\ work.step = "apply" /\ work.op \in {"create", "delete"}
    /\ sourceFaults + 2 <= MaxSourceFaults /\ sourceFaults' = sourceFaults + 2
    /\ IF work.op = "create" THEN Step("forgetFailed") ELSE Tell(FALSE)
    /\ UNCHANGED <<subs, nodes, sourceFiles, ups, secrets, compiled>>

\* The secret goes last; that it cannot be deleted is no failure.
ForgetSecret ==
    /\ work # Idle /\ work.step \in {"forget", "forgetFailed"}
    /\ \/ secrets' = secrets \ {work.owner} /\ NoFault
       \/ UNCHANGED secrets /\ Fault
    /\ Tell(work.step = "forget")
    /\ UNCHANGED <<subs, nodes, sourceFiles, ups, compiled>>

\* The Service dies; the next one loads the files.
SourcesDie ==
    /\ work # Idle /\ Fault /\ subs' = subsFile /\ nodes' = nodesFile
    /\ work' = Idle /\ answered' = [answered EXCEPT !.op = "none"]
    /\ UNCHANGED <<sourceFiles, ups, secrets, compiled, operations>>

SourcesNext ==
    \/ \E p \in Providers : AddSubscription(p) \/ DetachSubscription(p)
    \/ \E u \in Upstreams : CreateUpstream(u) \/ CreateFails(u) \/ DeleteUpstream(u)
    \/ RefreshSources \/ SaveCache \/ SaveMetadata \/ SaveFails
    \/ ApplySources \/ ApplyFails \/ ApplyAndUndoFail \/ ForgetSecret \/ SourcesDie

-----------------------------------------------------------------------------
(* Properties *)

SourcesTypeOK ==
    /\ subs \subseteq Providers /\ subsFile \subseteq Providers
    /\ nodes \in [Providers -> 0..MaxFetches] /\ nodesFile \in [Providers -> 0..MaxFetches]
    /\ ups \subseteq Upstreams /\ secrets \subseteq Owners
    /\ sourceFaults \in 0..MaxSourceFaults

\* One failure or crash never leaves a source whose secret is gone, in memory or in
\* the files, nor nodes that belong to no subscription (subscription.go:140-171,
\* 214-277, service.go:1160-1176, runtime.go:1517-1527, 1550-1568).
SourcesAreWhole ==
    sourceFaults <= 1 =>
        /\ subs \cup subsFile \cup ups \subseteq secrets
        /\ \A p \in Providers : nodes[p] # 0 => p \in subs

\* A change that is answered with success is what the configuration was compiled
\* from; one that failed for one reason has changed no source (service.go:1161-1176,
\* runtime.go:1511-1531, 1546-1570).
AnswersAreTrue ==
    work = Idle /\ ~answered.damaged =>
        /\ answered.op \in {"remove", "create", "delete"} /\ answered.ok =>
               compiled = [nodes |-> Content, ups |-> ups \cap secrets]
        /\ answered.op \in {"remove", "create", "delete"} /\ ~answered.ok => Now = answered.was

\* No source without its secret, no answer that is not so: SourcesAreWhole and
\* AnswersAreTrue (internal/subscription, internal/service/service.go:1087-1229).
SourcesAreSafe == SourcesAreWhole /\ AnswersAreTrue
=============================================================================
