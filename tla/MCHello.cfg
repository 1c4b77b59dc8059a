CONSTANTS
    Node <- OneVehicle
    Forwarder <- Stacks
    MarkInterval = 6
    MaxMarks = 1
    Rsu <- TwoRsus
    StartTime <- StartTogether
    StopTime <- NobodyStops
    HelloStart <- Phase180
    Driving <- OneVehicle
    Interval = 4
    LifeTime = 6
    MaxDelay = 2
    MaxWakeUps = 0
    Lossy = TRUE
    NoRecord = NoRecord
SPECIFICATION HelloSpec
INVARIANTS
    HelloTypeOK
    LostByPostingOnly
    SteadyReachIsBelieved
    BeliefIsBounded
