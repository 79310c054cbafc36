SPECIFICATION InboxSpec
CONSTANTS
    t1 = t1
    t2 = t2
    t3 = t3
    m1 = m1
    NoMid = NoMid
    Threads <- ThreeThreads
    Mids <- OneMid
    Docs <- AllDocs
    MaxReplies = 3
    MaxResets = 1
    MaxRestarts = 1
INVARIANTS
    InboxTypeOK
    CorrectedIsNotBlocked
PROPERTIES
    AnswerOnceSpec
SYMMETRY ThreadsAreAlike
CHECK_DEADLOCK FALSE
