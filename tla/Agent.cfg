SPECIFICATION AgentSpec
CONSTANTS
    Nobody = Nobody
    NoCore = NoCore
    MaxUpdates = 2
    MaxUpdateFaults = 1
    Options = {a, b}
    NoOption = NoOption
    MaxChanges = 3
    MaxChangeFaults = 2
    Calls = {read, write}
    Closers = {c1, c2}
    Instances = {i1, i2, i3}
    QueueLength = 1
    MaxAccepted = 2
INVARIANTS AgentTypeOK UpdatesAreSafe ChangesAreSafe PipesAreSafe
PROPERTIES AgentReturns
CHECK_DEADLOCK FALSE
