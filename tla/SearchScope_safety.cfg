SPECIFICATION ScopeSpec
CONSTANTS
    t1 = t1
    t2 = t2
    t3 = t3
    Task = {t1, t2, t3}
    Names <- MCNames
    FocusLines <- MCFocusLines
    FocusFile = {t1}
    Unfocused = {t3}
    SearchPlans <- MCSearchPlans
    Sources <- MCSources
    MaxHits = 2
    Margin = 1
    MaxGap = 1
    MaxRegion = 4
    SegmentSize = 3
    SliceSize = 2
    BatchSlices = 4
    BatchSize = 7
    NoSymbol = NoSymbol
CHECK_DEADLOCK FALSE
INVARIANTS
    ScopeTypeOK
    HitsReviewed
    SurfacesReviewed
    FocusReviewed
    UnitsPartition
