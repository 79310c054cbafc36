SPECIFICATION Spec
CONSTANTS
    r1 = r1
    t1 = t1
    t2 = t2
    h1 = h1
    h2 = h2
    Nobody = Nobody
    Requests <- OneRequest
    Threads <- TwoThreads
    Hooks <- TwoHooks
    EventIds <- TwoEvents
    Times <- TwoTimes
    MaxRemovals = 1
    MaxResends = 1
    MaxResets = 1
    MaxRestarts = 1
INVARIANTS
    ResultMeansTried
SYMMETRY ThreadsAndHooksAreAlike
CHECK_DEADLOCK FALSE
