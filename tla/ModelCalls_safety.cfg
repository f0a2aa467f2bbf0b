SPECIFICATION Spec
CONSTANTS
    u1 = u1
    u2 = u2
    u3 = u3
    w = w
    Process = {p1}
    Slot = {s1, s2}
    Call = {u1, u2, u3}
    NoCall = NoCall
    Work = {w}
    NoWork = NoWork
    WorkOf <- MCWorkOf
    Price = {0, 1}
    MaxCalls = 4
    MaxInflight = 1
    MaxCost = 1
    ShapeRetries = 1
    OutputRetries = 1
    MaxLive = 1
    MaxStarts = 2
INVARIANTS
    SlotsMatchRequests
    DeliveredIsRecorded
PROPERTIES
    OnlyAnswersComplete
    ImplementsResumableWork
SYMMETRY Symmetry
CHECK_DEADLOCK FALSE
