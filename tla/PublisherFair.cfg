SPECIFICATION FairSpec
CONSTANTS
    g1 = g1
    t1 = t1
    Rows = {1, 2, 3}
    NoRow = 0
    Kind <- KindsWithVotes
    Target <- OneTarget
    Grants = {}
    MaxFailed = 2
    Retried = {2}
    MaxRetries = 1
INVARIANTS UpvotedOnce
PROPERTIES EventuallyAttempted
CHECK_DEADLOCK FALSE
