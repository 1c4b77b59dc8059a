CONSTANTS
    Vehicle <- MCVehicle
    Rsu = {}
    Alert = {a1}
    NeighborAlert = {}
    ZoRLess = {}
    Producer <- MCProducer
    Position <- MCPosition
    InitialPosition <- MCInitialPosition
    Mobile = {}
    TxRadius = 40
    ZoRContains <- RoadContains
    DistanceToBoundary <- RoadDistance
    CoveredBy <- RoadCoveredBy
    DistanceFromPoint <- DistanceBetween
    RoutingInfo <- NoRoutes
    StoreSize = 1
    HelloEnabled = FALSE
    Lossy = FALSE
    MaxHandled = 2
    NoTag = NoTag
    NoPosition = NoPosition
    NoNode = NoNode
    NoEvent = NoEvent
SPECIFICATION FairSpec
PROPERTIES
    Coverage
CHECK_DEADLOCK FALSE
