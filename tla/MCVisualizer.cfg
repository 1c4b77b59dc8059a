SPECIFICATION FairSpec
CONSTANTS
    Source <- ThreeSources
    Period <- TwoSpeeds
    MaxFrames = 2
    MaxIdle = 4
INVARIANTS
    TypeOK
    NeverFarAhead
    UpdatesDoNotPileUp
PROPERTIES
    QuitEnds
    PlayRuns
    MessagesPause
