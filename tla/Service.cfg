SPECIFICATION ServiceSpec
CONSTANTS
    Nodes = {a, b}
    NoNode = NoNode
    Policies = {p, q}
    MaxRevisions = 3
    MaxRuntimeFaults = 2
    Providers = {s, t}
    Upstreams = {u}
    MaxFetches = 2
    MaxOperations = 4
    MaxSourceFaults = 2
    Requests = {r1, r2}
    NoRequest = NoRequest
    Links = {l1, l2, l3}
    NoLink = NoLink
    Attempts = 3
    CacheLimit = 1
    MaxRestarts = 1
    Reporters = {g1, g2}
    QueueSize = 1
    MaxAttempts = 2
    Budgets <- MCBudgets
    MaxTime = 3
    MaxLives = 2
    MaxHealFaults = 1
    Asks <- MCAsks
    Interfaces = {1, 2}
    MaxSessions = 2
    MaxTunFaults = 1
    Kernels = {k1, k2}
    BasicKernel = k1
    MaxVersions = 5
    MaxSwitchFaults = 2
    MaxEvents = 2
INVARIANTS ServiceTypeOK RuntimeAgrees SourcesAreSafe RequestsAreSafe  DocumentsAgree TunIsSafe ChangesAreObserved
CHECK_DEADLOCK FALSE
VIEW ServiceView
