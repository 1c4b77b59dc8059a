------------------------------ MODULE MCHybrid ------------------------------
(* Five RSUs whose links form a square, 0 1 3 2, and a triangle, 2 3 4, on *)
(* one side of it.  The zone is met by RSUs 2, 3 and 4.  Vehicle 5, heard  *)
(* by RSUs 0 and 1, warns it, and vehicle 6 behind it would take the alert *)
(* away; the alert may enter the backbone at 0 and at 1, and the copies    *)
(* race each other with different destination tags.  Vehicle 7 is in the   *)
(* zone and hears two RSUs.                                                *)
EXTENDS CafForwarder, CafZor

MCVehicle == 5 .. 7
MCRsu == 0 .. 4
MCInitialPosition == [n \in 0 .. 7 |-> <<0, 60, 200, 260, 400, 30, 10, 225>>[n + 1]]
MCPosition == {MCInitialPosition[n] : n \in 0 .. 7}
MCProducer == [a \in Alert |-> 5]
MCZoR == Circle(300, 120)

RoadContains(a, p) == CircleContains(MCZoR, p)
RoadDistance(a, p) == CircleDistanceToBoundary(MCZoR, p)
RoadCoveredBy(a, p) == CircleCoveredBy(MCZoR, p, TxRadius)

LinksTo(others) == [i \in DOMAIN others |-> [remoteNodeId |-> others[i], linkCost |-> 1]]
SquareRoutes ==
    [n \in MCRsu |-> LinksTo(<<<<2, 1>>, <<0, 3>>, <<0, 3, 4>>, <<1, 2, 4>>, <<2, 3>>>>[n + 1])]
=============================================================================
