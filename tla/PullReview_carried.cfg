SPECIFICATION Spec
CONSTANTS
    f = f
    g = g
    p = p
    q = q
    r = r
    k1 = k1
    k2 = k2
    c1 = c1
    c2 = c2
    c3 = c3
    NoId = NoId
    File = {f, g}
    Place = {p, q, r}
    Kind = {k1, k2}
    Skippable = {}
    FileOf <- Files
    Same <- SameFileSameKind
    CandidateId = {c1, c2, c3}
    IdOf <- Unique
    Rating <- Ratings
    Control = {}
    RecheckLimit = 1
    TrackedReports <- Tracking
    StoredReports <- Storing
    TrackedRating <- High
    MaxKnown = 2
    MaxCandidates = 2
CHECK_DEADLOCK FALSE
INVARIANTS
    CarriedStillCounts
