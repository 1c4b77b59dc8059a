------------------------------- MODULE MCRoad -------------------------------
(* A row of vehicles without RSUs, each heard by two on either side.  The  *)
(* first one warns a zone that begins where its own reach ends.            *)
EXTENDS CafForwarder, CafZor

MCVehicle == 1 .. 5
MCPosition == {0, 20, 40, 60, 80}
MCInitialPosition == <<0, 20, 40, 60, 80>>
MCProducer == [a \in Alert |-> 1]
MCZoR == Circle(70, 30)

RoadContains(a, p) == CircleContains(MCZoR, p)
RoadDistance(a, p) == CircleDistanceToBoundary(MCZoR, p)
RoadCoveredBy(a, p) == CircleCoveredBy(MCZoR, p, TxRadius)

NoRoutes == [n \in {} |-> <<>>]
=============================================================================
