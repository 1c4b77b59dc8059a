CONSTANTS
    a1 = a1
    n1 = n1
    n2 = n2
    l1 = l1
    Vehicle <- MCVehicle
    Rsu <- MCRsu
    Alert = {a1, n1, n2, l1}
    NeighborAlert = {n1, n2}
    ZoRLess = {l1}
    Producer <- MCProducer
    Position <- MCPosition
    InitialPosition <- MCInitialPosition
    Mobile = {4}
    TxRadius = 60
    ZoRContains <- RoadContains
    DistanceToBoundary <- RoadDistance
    CoveredBy <- RoadCoveredBy
    DistanceFromPoint <- DistanceBetween
    RoutingInfo <- PairRoutes
    StoreSize = 4
    HelloEnabled = FALSE
    Lossy = FALSE
    MaxHandled = 2
    NoTag = NoTag
    NoPosition = NoPosition
    NoNode = NoNode
    NoEvent = NoEvent
SPECIFICATION Spec
PROPERTIES
    KeepsPromise
