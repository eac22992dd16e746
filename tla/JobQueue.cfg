SPECIFICATION FairSpec
CONSTANTS
    j1 = j1
    j2 = j2
    w1 = w1
    w2 = w2
    NoJob = NoJob
    Jobs <- MCJobs
    Workers <- MCWorkers
    Drainers <- MCDrainers
    MaxAttempts = 3
    AttemptCap = 4
    Priority <- MCPriority
    AnyHour <- MCAnyHour
    Searching <- MCSearching
    RunsOutliveStale = FALSE
    AcksGetLost = FALSE
INVARIANTS
    TakenExactlyOnce
    SoleHolder
    AttemptsAreSpent
    RunTellsTheOutcome
PROPERTIES
    KeepsThePromise
    EventuallySettled
