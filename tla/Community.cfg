SPECIFICATION Spec
CONSTANTS
    w1 = w1
    w2 = w2
    t1 = t1
    t2 = t2
    o1 = o1
    h1 = h1
    Workers = {w1, w2}
    Own <- MCOne
    Others = {}
    Hypotheses = {h1}
    Nothing = Nothing
    RepliesWaiting = 2
    OwnReplies = 1
    ReplyDrafts = 1
    MaxAcks = 1
    MaxQueued = 1
    MaxRejected = 1
    MaxApproved = 2
SYMMETRY MCSymmetry
INVARIANTS NoDoubles
CHECK_DEADLOCK FALSE
