SPECIFICATION FairSpec
CONSTANTS
    c1 = c1
    c2 = c2
    c3 = c3
    c4 = c4
    Call <- Deliveries
    NoCall = NoCall
    MaxAttempts = 2
    InFlight = 2
INVARIANTS
    LatestGrantOwns
    CompletedIsNewest
PROPERTIES
    ImplementsFencedLease
    OrphanReclaimed
CHECK_DEADLOCK FALSE
