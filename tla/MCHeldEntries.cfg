CONSTANTS
    Node <- TwoNodes
    StartTime <- StartTogether
    StopTime <- NobodyStops
    Forwarder <- TwoNodes
    MarkInterval = 5
    MaxMarks = 1
    LifeTime = 3
    MaxDelay = 2
    MaxWakeUps = 3
    NoRecord = NoRecord
SPECIFICATION Spec
INVARIANTS
    ErasesOnlyHeldEntries
CHECK_DEADLOCK FALSE
