SPECIFICATION Spec
CONSTANTS
    PR = {p1, p2}
    HeadSha = {h1, h2}
    Finding = {f1}
    File = {base, deleted, v1}
    Base = base
    Deleted = deleted
    NoHead = NoHead
    NotKnown = NotKnown
    Baseline = {f1}
    MaxRuns = 2
SYMMETRY Symmetry
INVARIANTS
    ResolvedHasEvidence
    BranchFollowsMerges
PROPERTIES
    NewerRunWins
    VerdictSurvives
CHECK_DEADLOCK FALSE
