SPECIFICATION Spec
CONSTANTS
    r1 = r1
    r2 = r2
    w1 = w1
    w2 = w2
    NoJob = NoJob
    Requests <- OneRequest
    Unsendable <- NoRequests
    Workers <- OneRun
    MaxReceive = 1
    BatchSize = 1
    MaxTries = 1
    MaxSendAgain = 0
    MaxRare = 0
    MaxId = 6
PROPERTIES
    RefusedMeansSomebodyElse
CHECK_DEADLOCK FALSE
