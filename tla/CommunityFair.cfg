SPECIFICATION FairSpec
CONSTANTS
    w1 = w1
    w2 = w2
    t1 = t1
    t2 = t2
    o1 = o1
    h1 = h1
    Workers = {w1}
    Own <- MCTwo
    Others = {o1}
    Hypotheses = {}
    Nothing = Nothing
    RepliesWaiting = 1
    OwnReplies = 1
    ReplyDrafts = 1
    MaxAcks = 0
    MaxQueued = 1
    MaxRejected = 1
    MaxApproved = 2
PROPERTIES NoneForgotten
CHECK_DEADLOCK FALSE
