SPECIFICATION Spec
CONSTANTS
    v1 = v1
    v2 = v2
    r1 = r1
    a1 = a1
    Vehicle <- TwoVehicles
    Rsu <- OneRsu
    Alert <- OneAlert
    RequiredDelay = 1
    MaxTime = 3
    MaxCopies = 2
INVARIANTS
    MeasuredIsWhatHappened
    OverstatedByLateComersOnly
    DuplicatesAreLaterCopies
