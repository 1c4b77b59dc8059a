SPECIFICATION FairSpec
CONSTANTS
    w1 = w1
    w2 = w2
    Worker <- TwoWorkers
    Jobs = 3
    Skipped <- OneSkipped
    Example <- OneExample
    Outcome <- AllOutcomes
    PopenRaises = TRUE
INVARIANTS
    TypeOK
    EveryResultIsComing
    SuccessMeansAllPassed
PROPERTY
    Terminates
CHECK_DEADLOCK FALSE
