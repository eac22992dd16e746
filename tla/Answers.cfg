SPECIFICATION AnswersSpec
CONSTANTS
    h1 = h1
    h2 = h2
    o1 = o1
    Hypotheses = {h1, h2}
    Observations = {o1}
    MaxToolCalls = 2
    MaxReplies = 2
    MaxFound = 2
    MaxPoints = 2
    MaxSources = 2
SYMMETRY MCSymmetry
INVARIANTS AnswersTypeOK NumbersLeadHome FirmAsMemory
CHECK_DEADLOCK FALSE
