SPECIFICATION Spec
CONSTANTS
    g1 = g1
    t1 = t1
    Rows = {1, 2, 3}
    NoRow = 0
    Kind <- KindsToVerify
    Target <- OneTarget
    Grants = {g1}
    MaxFailed = 2
    Retried = {1}
    MaxRetries = 1
INVARIANTS NeverTwiceUnseen PublishedIsShown StopsInTime
PROPERTIES LeftAlone
CHECK_DEADLOCK FALSE
