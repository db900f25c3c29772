SPECIFICATION RuntimeSpec
CONSTANTS
    Nodes = {a, b}
    NoNode = NoNode
    Policies = {p, q}
    MaxRevisions = 4
    MaxRuntimeFaults = 0
INVARIANTS MutationsWork
CHECK_DEADLOCK FALSE
