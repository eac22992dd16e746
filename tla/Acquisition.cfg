SPECIFICATION Spec
CONSTANTS
    w1 = w1
    w2 = w2
    c1 = c1
    c2 = c2
    c3 = c3
    p1 = p1
    p2 = p2
    p3 = p3
    s1 = s1
    s2 = s2
    Workers = {w1, w2}
    Calls = {c1, c2, c3}
    NoCall = NoCall
    Pages = {p1, p2}
    Site <- MCSite
    Blocked = {}
    WorthPaying = {p1, p2}
    Budget = 1
    MinToStart = 1
    MaxPaidPerRun = 1
    ClosedAfter = 1
SYMMETRY MCSymmetry
INVARIANTS BudgetHeld PaidOnce ClosedForGood
CHECK_DEADLOCK FALSE
