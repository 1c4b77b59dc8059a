CONSTANTS
    Node <- TwoNodes
    StartTime <- StartTogether
    StopTime <- NobodyStops
    Forwarder <- TwoNodes
    MarkInterval = 5
    MaxMarks = 1
    LifeTime = 2
    MaxDelay = 1
    MaxWakeUps = 2
    NoRecord = NoRecord
SPECIFICATION Spec
INVARIANTS
    StaysSubscribed
CHECK_DEADLOCK FALSE
