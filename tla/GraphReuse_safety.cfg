SPECIFICATION Spec
CONSTANTS
    a = a
    k = k
    m = m
    v1 = v1
    v2 = v2
    fa = fa
    ra = ra
    Node = {a, k, m}
    Content = {v1, v2}
    Absent = Absent
    Calls <- MCCalls
    Hops = 2
    NodeLimit = 3
    Surface = {a}
    Finding = {fa, ra}
    Place <- MCPlace
    GraphFound = {fa}
    Codes <- MCCodes
    Support = {{}, {k}}
    MaxScans = 3
    MaxFaults = 1
    None = None
INVARIANTS
    TypeOK
    SuccessAnswersEverySurface
    LedgerAgrees
    StaleForOneScanOnly
CHECK_DEADLOCK FALSE
