SPECIFICATION SchedulerFairSpec
CONSTANTS
    j1 = j1
    j2 = j2
    w1 = w1
    d1 = d1
    NoJob = NoJob
    Jobs = {j1, j2}
    Workers = {w1}
    Drainers = {}
    MaxAttempts = 2
    AttemptCap = 3
    Priority <- MCPriority
    AnyHour = {}
    Searching = {}
    RunsOutliveStale = FALSE
    AcksGetLost = TRUE
    Domains = {d1}
    DomainOf <- MCOneDomain
    MaxRequests = 1
INVARIANTS
    OneScheduledPlan
    RepeatsAreCounted
PROPERTIES
    PlannedAgain
