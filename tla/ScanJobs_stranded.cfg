SPECIFICATION Spec
CONSTANTS
    j1 = j1
    j2 = j2
    Job <- MCJob
    Priority <- MCPriority
    Worker = {w1, w2}
    None = None
    MaxAttempts = 2
    MaxConcurrent = 1
    MaxDaily = 2
    CostLimit = 1
    Lease = 2
    Heartbeat = 1
INVARIANTS
    NoStrandedJob
CHECK_DEADLOCK FALSE
