SPECIFICATION Spec
CONSTANTS
    w1 = w1
    w2 = w2
    g1 = g1
    g2 = g2
    g3 = g3
    p1 = p1
    p2 = p2
    p3 = p3
    h1 = h1
    Planners = {w1, w2}
    Goals = {g1, g2, g3}
    Statement <- MCStatement
    Programs = {p1, p2, p3}
    NoProgram = NoProgram
    Hypotheses = {h1}
    Entities = {}
    MaxPlans = 4
SYMMETRY MCSymmetry
INVARIANTS OneProposal OneProgramEach OneGoalEach
PROPERTIES GoalsStayClosed
CHECK_DEADLOCK FALSE
