----------------------------- MODULE ZoneShapes -----------------------------
(***************************************************************************)
(* Zones of relevance as areas of the plane                                *)
(* (src/src/ndnSIM/model/caf-zor.cpp): circles, polygons and composites    *)
(* of zones, nested as deeply as one likes.  A point is a pair of integers.*)
(* Distances are compared by their squares and quotients by                *)
(* cross-multiplication, which is exact; the code computes with floats.    *)
(***************************************************************************)
EXTENDS Integers, Sequences, SequencesExt, FiniteSets

CONSTANT MaxDepth       \* bound: how deep composites are nested

NEIGHBOR  == 1
CIRCLE    == 2
POLYGON   == 4
COMPOSITE == 8

Neighbor == [type |-> NEIGHBOR]

Circle(c, r) == [type |-> CIRCLE, center |-> c, radius |-> r]

Polygon(vs) == [type |-> POLYGON, vertices |-> vs]

Composite(zs) == [type |-> COMPOSITE, components |-> zs]

Plane == Int \X Int

\* What is not a composite, with a number of vertices in "counts".
Plain(counts) ==
    {Neighbor} \cup [type : {CIRCLE}, center : Plane, radius : Nat]
               \cup [type : {POLYGON}, vertices : {vs \in Seq(Plane) : Len(vs) \in counts}]

\* Zones nested n deep at most, the number of parts also in "counts".
Nested(counts) ==
    LET nested[n \in 0 .. MaxDepth] ==
            IF n = 0 THEN Plain(counts)
            ELSE Plain(counts) \cup
                 [type : {COMPOSITE}, components : {zs \in Seq(nested[n - 1]) : Len(zs) \in counts}]
    IN  nested

Zone == Nested(Nat)[MaxDepth]

Square(i) == i * i

SquareDistance(p, q) == Square(p[1] - q[1]) + Square(p[2] - q[2])

(***************************************************************************)
(* distanceFromLine(a, b) <= r, where the foot of the perpendicular from p *)
(* divides the segment at v, and v is clamped to [0, 1].                   *)
(***************************************************************************)
\* Mutant of NearSegment: v is not clamped.
NearLine(p, a, b, r) ==
    LET dx  == b[1] - a[1]
        dy  == b[2] - a[2]
        len == Square(dx) + Square(dy)
        num == (p[1] - a[1]) * dx + (p[2] - a[2]) * dy
    IN  IF len = 0 THEN SquareDistance(p, a) <= Square(r)
        ELSE SquareDistance(p, a) * len - Square(num) <= Square(r) * len

NearSegment(p, a, b, r) ==
    LET dx  == b[1] - a[1]
        dy  == b[2] - a[2]
        len == Square(dx) + Square(dy)
        num == (p[1] - a[1]) * dx + (p[2] - a[2]) * dy
    IN  IF len = 0 \/ num <= 0 THEN SquareDistance(p, a) <= Square(r)
        ELSE IF num >= len THEN SquareDistance(p, b) <= Square(r)
        ELSE SquareDistance(p, a) * len - Square(num) <= Square(r) * len

Edges(poly) ==
    {<<poly[i], poly[(i % Len(poly)) + 1]>> : i \in DOMAIN poly}

\* distanceToBoundary(p) <= r
BoundaryWithin(poly, p, r) ==
    \E e \in Edges(poly) : NearSegment(p, e[1], e[2], r)

\* A ray from p to the right crosses the edge from vj to vi.
Crosses(p, vi, vj) ==
    LET rise == vj[2] - vi[2]
        run  == (vj[1] - vi[1]) * (p[2] - vi[2])
    IN  /\ (vi[2] > p[2]) # (vj[2] > p[2])
        /\ IF rise > 0 THEN (p[1] - vi[1]) * rise < run
                       ELSE (p[1] - vi[1]) * rise > run

\* Mutant of PolygonContains: a second crossing ends the matter.
ContainsOnSingleCrossing(poly, p) ==
    LET crossed == {i \in DOMAIN poly : Crosses(p, poly[(i % Len(poly)) + 1], poly[i])}
    IN  Cardinality(crossed) = 1

PolygonContains(poly, p) ==
    LET crossed == {i \in DOMAIN poly : Crosses(p, poly[(i % Len(poly)) + 1], poly[i])}
    IN  Cardinality(crossed) % 2 = 1

\* Mutant of PolygonCoveredBy: only the boundary counts.
CoveredAtBoundary(poly, c, r) == BoundaryWithin(poly, c, r)

PolygonCoveredBy(poly, c, r) == PolygonContains(poly, c) \/ BoundaryWithin(poly, c, r)

-----------------------------------------------------------------------------
(***************************************************************************)
(* The virtual functions of ZoR, for every kind of zone.                   *)
(***************************************************************************)
ZoneContains[z \in Zone] ==
    [p \in Plane |->
        \/ z.type = CIRCLE /\ SquareDistance(p, z.center) <= Square(z.radius)
        \/ z.type = POLYGON /\ PolygonContains(z.vertices, p)
        \/ z.type = COMPOSITE /\ \E i \in DOMAIN z.components : ZoneContains[z.components[i]][p]]

\* A radio with reach r at c can reach part of the zone.
ZoneCoveredBy[z \in Zone] ==
    [c \in Plane |-> [r \in Nat |->
        \/ z.type = CIRCLE /\ SquareDistance(c, z.center) <= Square(z.radius + r)
        \/ z.type = POLYGON /\ PolygonCoveredBy(z.vertices, c, r)
        \/ z.type = COMPOSITE /\ \E i \in DOMAIN z.components : ZoneCoveredBy[z.components[i]][c][r]]]
=============================================================================
