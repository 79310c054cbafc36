SPECIFICATION Spec
CONSTANTS
    r1 = r1
    r2 = r2
    NoRequest = NoRequest
    Requests <- TwoRequests
    Start <- QueuedAndNew
    Results <- SentOrFailed
    Budgets <- Stories
    Landings <- ListOrFirst
    Moving <- FirstRequest
    MaxCalls = 3
INVARIANTS
    TypeOK
    ShownBelongs
    OnePollAtATime
    SignInIsKept
PROPERTIES
    NothingTakenAway
    ResultComesWithRecord
    ResultComesUp
    ButtonComesBack
CHECK_DEADLOCK FALSE
