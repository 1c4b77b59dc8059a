------------------------------ MODULE MCZones ------------------------------
(* A byte counts to four here: polygons of up to four vertices on every     *)
(* other grid point, and composites of up to four parts; a fifth part is    *)
(* one too many, as the 256th is in the code.                               *)
EXTENDS Zones

Triangle == Polygon(<<<<0, 0>>, <<2, 4>>, <<4, 2>>>>)
Roundabout == Circle(<<1, 1>>, 1)
Crossing == Composite(<<Circle(<<4, 0>>, 1), Triangle>>)

MCPart == {Roundabout, Triangle, Crossing}
=============================================================================
