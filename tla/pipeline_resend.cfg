SPECIFICATION Spec
CONSTANTS
    r1 = r1
    r2 = r2
    w1 = w1
    w2 = w2
    NoJob = NoJob
    Requests <- OneRequest
    Unsendable <- NoRequests
    Workers <- OneRun
    MaxReceive = 2
    BatchSize = 1
    MaxTries = 2
    MaxSendAgain = 1
    MaxRare = 1
    MaxId = 6
INVARIANTS
    TypeOK
    StatusIsTrue
    FinalRecordMatches
    NoRequestLost
PROPERTIES
    LifecycleSpec
    LastReceiveDecides
VIEW ButNotices
CHECK_DEADLOCK FALSE
