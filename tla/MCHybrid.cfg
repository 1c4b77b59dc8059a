CONSTANTS
    Vehicle <- MCVehicle
    Rsu <- MCRsu
    Alert = {a1}
    NeighborAlert = {}
    ZoRLess = {}
    Producer <- MCProducer
    Position <- MCPosition
    InitialPosition <- MCInitialPosition
    Mobile = {}
    TxRadius = 50
    ZoRContains <- RoadContains
    DistanceToBoundary <- RoadDistance
    CoveredBy <- RoadCoveredBy
    DistanceFromPoint <- DistanceBetween
    RoutingInfo <- SquareRoutes
    StoreSize = 1
    HelloEnabled = TRUE
    Lossy = TRUE
    MaxHandled = 2
    NoTag = NoTag
    NoPosition = NoPosition
    NoNode = NoNode
    NoEvent = NoEvent
SPECIFICATION FairSpec
INVARIANTS
    TypeOK
    RegisteredIsPending
    PendingIsRegistered
    TransmitsAtMostOnce
    UntaggedOnAir
    SeenInsideIsDelivered
    NeverMovesAway
PROPERTIES
    DestinationsBroadcast
