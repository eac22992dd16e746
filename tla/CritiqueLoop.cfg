SPECIFICATION FairSpec
CONSTANTS
    h1 = h1
    h2 = h2
    c1 = c1
    c2 = c2
    s1 = s1
    s2 = s2
    Hypotheses = {h1, h2}
    Refines <- MCRefines
    Critiques = {c1, c2}
    Of <- MCOf
    Severity <- MCSeverity
    MaxRounds = 1
    MaxLifetime = 2
    Slots = {s1, s2}
    MaxStarts = 2
INVARIANTS AcceptedIsEarned NoCritiqueForgotten
PROPERTIES DroppedForGood LoopEnds
CHECK_DEADLOCK FALSE
