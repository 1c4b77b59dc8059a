------------------------------- MODULE CafZor -------------------------------
(***************************************************************************)
(* Circular zones of relevance (src/src/ndnSIM/model/caf-zor.cpp) on a     *)
(* straight road: a point is the number of metres from the road's start.   *)
(* Distances on a road are exact integers, and the protocol only compares  *)
(* them.                                                                   *)
(***************************************************************************)
EXTENDS Integers

DistanceBetween(p, q) == IF p < q THEN q - p ELSE p - q

Circle(center, radius) == [center |-> center, radius |-> radius]

CircleContains(zor, p) == DistanceBetween(p, zor.center) <= zor.radius

\* The disc of the given radius around the point meets the zone.
CircleCoveredBy(zor, center, radius) ==
    DistanceBetween(center, zor.center) <= zor.radius + radius

CircleDistanceToBoundary(zor, p) ==
    LET d == DistanceBetween(p, zor.center)
    IN  IF d > zor.radius THEN d - zor.radius ELSE 0
=============================================================================
