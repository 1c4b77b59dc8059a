CONSTANTS
    NoNode = NoNode
    RsuId <- MCRsuId
    LinkCost = {1, 3}
    MaxLinks = 4
    MaxCost = 5
    ZoneDistance <- MCZoneDistance
SPECIFICATION Spec
INVARIANTS
    TypeOK
    HopByHopServesOnce
    EntriesPartition
    DestinationsCoverOrNearest
    NextHopOnShortestPath
CHECK_DEADLOCK FALSE
