CONSTANTS
    Node <- TwoNodes
    StartTime <- StartTogether
    StopTime <- FirstStops
    Forwarder <- TwoNodes
    MarkInterval = 5
    MaxMarks = 1
    LifeTime = 3
    MaxDelay = 2
    MaxWakeUps = 3
    NoRecord = NoRecord
SPECIFICATION FairSpec
INVARIANTS
    TypeOK
    NoTimerStranded
    StoppedGetsNothing
PROPERTIES
    Resubscribes
CHECK_DEADLOCK FALSE
