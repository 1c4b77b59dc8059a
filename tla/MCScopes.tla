------------------------------ MODULE MCScopes ------------------------------
(* One alert of each scope and of each kind of producer: a1 with an area   *)
(* from an RSU, n1 and n2 for the neighbours of an RSU and of a vehicle,   *)
(* l1 that stays on its vehicle.                                           *)
EXTENDS CafForwarder, CafZor

CONSTANTS a1, n1, n2, l1

MCVehicle == 3 .. 4
MCRsu == 0 .. 1
MCPosition == {0, 100, 90, 150}
MCInitialPosition == [n \in MCRsu \cup MCVehicle |->
                         CASE n = 0 -> 0 [] n = 1 -> 100 [] n = 3 -> 90 [] OTHER -> 150]
MCProducer == [a \in Alert |-> CASE a = a1 -> 0 [] a = n1 -> 1 [] OTHER -> 3]
MCZoR == Circle(120, 30)

RoadContains(a, p) == CircleContains(MCZoR, p)
RoadDistance(a, p) == CircleDistanceToBoundary(MCZoR, p)
RoadCoveredBy(a, p) == CircleCoveredBy(MCZoR, p, TxRadius)

LinkTo(n) == [remoteNodeId |-> n, linkCost |-> 1]
PairRoutes == (0 :> <<LinkTo(1)>>) @@ (1 :> <<LinkTo(0)>>)
=============================================================================
