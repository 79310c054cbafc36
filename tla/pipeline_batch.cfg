SPECIFICATION FairSpec
CONSTANTS
    r1 = r1
    r2 = r2
    w1 = w1
    w2 = w2
    NoJob = NoJob
    Requests <- TwoRequests
    Unsendable <- SecondRequest
    Workers <- OneRun
    MaxReceive = 1
    BatchSize = 2
    MaxTries = 1
    MaxSendAgain = 0
    MaxRare = 0
    MaxId = 6
INVARIANTS
    StatusIsTrue
    NoRequestLost
PROPERTIES
    LifecycleSpec
    EverythingSettles
CHECK_DEADLOCK FALSE
