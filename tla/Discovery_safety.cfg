SPECIFICATION Spec
CONSTANTS
    r1 = r1
    r2 = r2
    o1 = o1
    o2 = o2
    w = w
    x = x
    y = y
    Region = {r1, r2}
    Obligation = {o1, o2}
    Asked <- MCAsked
    Required = {o1}
    Workset = {w}
    NoWorkset = NoWorkset
    Cand = {x, y}
    Answers <- MCAnswers
    Plans <- MCPlans
    MaxContinuations <- MCMaxContinuations
    Workers = 2
    MaxRuns = 2
    MaxFaults = 2
    None = None
CHECK_DEADLOCK FALSE
INVARIANTS
    TypeOK
    
    KeptOnce
    CompleteMeansAnswered
