SPECIFICATION Spec
CONSTANTS
    c1 = c1
    c2 = c2
    t1 = t1
    t2 = t2
    m1 = m1
    Nobody = Nobody
    Nothing = Nothing
    Failed = Failed
    NoMid = NoMid
    Callers <- TwoCallers
    Threads <- OneThread
    Mids <- OneMid
    Docs <- SomeDocs
    Sends <- SamePlain
    Strangers <- OtherDocs
    MaxVersion = 1
    MaxInvalidations = 3
    MaxReplies = 2
    MaxResets = 1
    MaxRestarts = 1
    MaxCalls = 3
INVARIANTS
    TypeOK
    KeptIsFresh
    GivenIsFresh
    OneReadPerGeneration
    ReaderFollowsContract
    DeliveredIsTrue
    FinalReadingsAgree
PROPERTIES
    EveryCallEnds
CHECK_DEADLOCK FALSE
