SPECIFICATION Spec
CONSTANTS
    w1 = w1
    w2 = w2
    p1 = p1
    p2 = p2
    a = a
    b = b
    x = x
    h1 = h1
    h2 = h2
    s1 = s1
    n1 = n1
    Workers = {w1, w2}
    Pages = {p1, p2}
    Passages = {a, b, x}
    Contents <- MCContents
    Hypotheses = {h1, h2}
    Statement <- MCStatement
    Statements = {s1}
    Names = {n1}
    New = New
    Nothing = Nothing
    MaxRuns = 2
SYMMETRY MCSymmetry
INVARIANTS QuotesItsSource NewIsSupported OneOfEach
CHECK_DEADLOCK FALSE
