SPECIFICATION FairSpec
CONSTANTS
    a = a
    b = b
    c = c
    fab = fab
    fc = fc
    i1 = i1
    i2 = i2
    i3 = i3
    Cand = {a, b, c}
    Fingerprint = {fab, fc}
    FpOf <- MCFpOf
    Issue = {i1, i2, i3}
    IssueOf <- MCIssueOf
    Deep = {a, c}
    Gravity <- MCGravity
    DeepMax = 1
    Workers = 2
    Reportable <- MCReportable
    MaxRuns = 2
    MaxFaults = 2
    None = None
INVARIANTS
    TypeOK
    NoFalseClean
    FindingsSupported
    SuccessIsStored
PROPERTIES
    EveryScanEnds
CHECK_DEADLOCK FALSE
