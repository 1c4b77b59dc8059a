------------------------------- MODULE Zones -------------------------------
(***************************************************************************)
(* Zones of relevance from the application that puts one together to the   *)
(* forwarder that restores it from the name component that carries it      *)
(* (src/src/ndnSIM/model/caf-zor.cpp), and what the restored zone answers. *)
(* A buffer is a sequence of numbers of one byte and of floats of four     *)
(* bytes; a float is the coordinate or radius it stands for.               *)
(***************************************************************************)
EXTENDS ZoneShapes

CONSTANTS
    Coord,        \* coordinates of points, a set of integers
    Corner,       \* coordinates of vertices, a subset of Coord
    Reach,        \* transmission radii of RSUs, a set of integers
    Part,         \* zones an application appends to a composite zone
    MaxByte       \* largest number in one byte, 255 in the code

\* What applications build: counts that are in one byte.
Built == Nested(0 .. MaxByte)

ASSUME ZonesAssumption ==
    /\ Coord \subseteq Int
    /\ Corner \subseteq Coord
    /\ Reach \subseteq Nat
    /\ MaxByte \in Nat \ {0}
    /\ MaxDepth \in Nat \ {0}
    /\ Part \subseteq Built[MaxDepth]

VARIABLE zone     \* the zone of the application

Point == Coord \X Coord

-----------------------------------------------------------------------------
(***************************************************************************)
(* Serialization.  A count is cut to one byte.                             *)
(***************************************************************************)
Byte(n) == [width |-> 1, value |-> n]

Count(n) == Byte(n % (MaxByte + 1))

Float(x) == [width |-> 4, value |-> x]

Buffer == Seq([width : {1, 4}, value : Int])

Floats(p) == <<Float(p[1]), Float(p[2])>>

SerializePlain(z) ==
    CASE z.type = NEIGHBOR -> <<Byte(NEIGHBOR)>>
      [] z.type = CIRCLE   -> <<Byte(CIRCLE)>> \o Floats(z.center) \o <<Float(z.radius)>>
      [] z.type = POLYGON  -> <<Byte(POLYGON), Count(Len(z.vertices))>>
                              \o FlattenSeq([i \in DOMAIN z.vertices |-> Floats(z.vertices[i])])

Serialize[z \in Zone] ==
    IF z.type = COMPOSITE
    THEN <<Byte(COMPOSITE), Count(Len(z.components))>>
         \o FlattenSeq([i \in DOMAIN z.components |-> Serialize[z.components[i]]])
    ELSE SerializePlain(z)

(***************************************************************************)
(* Deserialization, as functions from a buffer to what is restored from    *)
(* its front and what is left of it.  What the code makes of a buffer that *)
(* ends too soon, or of part of a float, is just "not the zone".           *)
(***************************************************************************)
Unknown == [type |-> 0]

After(buf, n) == SubSeq(buf, n + 1, Len(buf))

ReadByte(buf) == IF buf = <<>> \/ Head(buf).width # 1 THEN 0 ELSE Head(buf).value

ReadFloats(buf, n) ==
    IF Len(buf) < n \/ \E i \in 1 .. n : buf[i].width # 4 THEN <<>>
    ELSE [i \in 1 .. n |-> buf[i].value]

\* The components of a composite zone, "count" of them.
DeserializeParts(deserialize, buf, count) ==
    LET after[k \in 0 .. count] ==
            IF k = 0 THEN [parts |-> <<>>, rest |-> buf]
            ELSE LET next == deserialize[after[k - 1].rest]
                 IN  [parts |-> Append(after[k - 1].parts, next.zone), rest |-> next.rest]
    IN  after[count]

Nothing == [zone |-> Unknown, rest |-> <<>>]

DeserializeCircle(buf) ==
    LET f == ReadFloats(buf, 3)
    IN  [zone |-> IF f = <<>> THEN Unknown ELSE Circle(<<f[1], f[2]>>, f[3]),
         rest |-> After(buf, 3)]

DeserializePolygon(buf, count) ==
    LET f == ReadFloats(buf, 2 * count)
    IN  [zone |-> IF Len(f) < 2 * count THEN Unknown
                  ELSE Polygon([i \in 1 .. count |-> <<f[2 * i - 1], f[2 * i]>>]),
         rest |-> After(buf, 2 * count)]

DeserializeComposite(deserialize, buf, count) ==
    LET sub == DeserializeParts(deserialize, buf, count)
    IN  [zone |-> Composite(sub.parts), rest |-> sub.rest]

\* The zone at the front of a buffer; "deserialize" restores the parts of a composite.
DeserializeZone(buf, deserialize) ==
    LET tag   == ReadByte(buf)
        body  == After(buf, 1)
        count == ReadByte(body)
        value == After(body, 1)
    IN  CASE tag = NEIGHBOR  -> [zone |-> Neighbor, rest |-> body]
          [] tag = CIRCLE    -> DeserializeCircle(body)
          [] tag = POLYGON   -> DeserializePolygon(value, count)
          [] tag = COMPOSITE -> DeserializeComposite(deserialize, value, count)
          [] OTHER           -> Nothing

\* With composites nested n deep at most.
Restored[n \in 0 .. MaxDepth] ==
    LET deserialize == IF n = 0 THEN [buf \in Buffer |-> Nothing] ELSE Restored[n - 1]
    IN  [buf \in Buffer |-> DeserializeZone(buf, deserialize)]

Deserialize == Restored[MaxDepth]

-----------------------------------------------------------------------------
(***************************************************************************)
(* What an application does with a zone.                                   *)
(***************************************************************************)
\* The zone of a caller that sets none.
Init == zone = Neighbor

MakeCircle == \E z \in Part : z.type = CIRCLE /\ zone = Neighbor /\ zone' = z

\* More vertices than a byte counts are a fatal error.
MakePolygon ==
    \E n \in 0 .. MaxByte : \E vs \in [1 .. n -> Corner \X Corner] :
        zone = Neighbor /\ zone' = Polygon(vs)

MakeComposite == zone = Neighbor /\ zone' = Composite(<<>>)

\* Mutant of Appended: the limit is checked one part too late.
AppendedTooLate(z, part) ==
    IF Len(z.components) > MaxByte THEN z
    ELSE [z EXCEPT !.components = Append(@, part)]

\* A part that is refused is destroyed all the same.
Appended(z, part) ==
    IF Len(z.components) + 1 > MaxByte THEN z
    ELSE [z EXCEPT !.components = Append(@, part)]

AppendPart(part) ==
    /\ zone.type = COMPOSITE
    /\ part \in Built[MaxDepth - 1]
    /\ zone' = Appended(zone, part)

\* A composite zone becomes the first part of another one.
Enclose ==
    /\ zone.type = COMPOSITE
    /\ zone \in Built[MaxDepth - 1]
    /\ zone' = Appended(Composite(<<>>), zone)

Next ==
    \/ MakeCircle
    \/ MakePolygon
    \/ MakeComposite
    \/ \E part \in Part : AppendPart(part)
    \/ Enclose

Spec == Init /\ [][Next]_zone

-----------------------------------------------------------------------------
(* A forwarder restores exactly the zone the producer put in the name, however
   zones are nested: an alert is relevant where it was meant to be. *)
RoundTrip == Deserialize[Serialize[zone]] = [zone |-> zone, rest |-> <<>>]

(* Whoever is in the zone and in range of an RSU is in range of one that is
   responsible for the zone: the RSU covers it, on every polygon, also one that
   crosses itself or has edges of length zero, and in every composite. *)
ContainedIsCovered ==
    \A p \in Point : ZoneContains[zone][p] =>
        \A c \in Point : \A r \in Reach :
            SquareDistance(p, c) <= Square(r) => ZoneCoveredBy[zone][c][r]

\* Points whose bounding box holds the zone.
PlainExtent(z) ==
    CASE z.type = NEIGHBOR -> {}
      [] z.type = CIRCLE   -> {<<z.center[1] + i, z.center[2] + j>> :
                                   i, j \in {- z.radius, z.radius}}
      [] z.type = POLYGON  -> Range(z.vertices)

Extent[z \in Zone] ==
    IF z.type = COMPOSITE THEN UNION {Extent[z.components[i]] : i \in DOMAIN z.components}
    ELSE PlainExtent(z)

Gap(i, low, high) == IF i < low THEN low - i ELSE IF i > high THEN i - high ELSE 0

(* No RSU is responsible for a zone it cannot reach: one that covers it is in
   range of the box around the zone. *)
CoveredIsNear ==
    LET xs == {p[1] : p \in Extent[zone]}
        ys == {p[2] : p \in Extent[zone]}
    IN  \A c \in Point : \A r \in Reach :
            ZoneCoveredBy[zone][c][r] =>
                \E west, east \in xs, south, north \in ys :
                    Square(Gap(c[1], west, east)) + Square(Gap(c[2], south, north)) <= Square(r)

\* Twice the area of the triangle p, a, b, with a sign.
Turn(p, a, b) == (a[1] - p[1]) * (b[2] - p[2]) - (a[2] - p[2]) * (b[1] - p[1])

(* The ray casting agrees with a definition without rays: off the lines of the
   triangles that fan out from the first vertex, a point is inside exactly if
   it lies in an odd number of them. *)
InsideByParity ==
    zone.type = POLYGON =>
        \A p \in Point :
            LET vs == zone.vertices
                Signs(i) == <<Turn(p, vs[1], vs[i]), Turn(p, vs[i], vs[i + 1]),
                              Turn(p, vs[i + 1], vs[1])>>
                fan == 2 .. Len(vs) - 1
                within == {i \in fan : \/ \A k \in 1 .. 3 : Signs(i)[k] > 0
                                       \/ \A k \in 1 .. 3 : Signs(i)[k] < 0}
            IN  (\A i \in fan : \A k \in 1 .. 3 : Signs(i)[k] # 0) =>
                    (Len(vs) >= 3 =>
                        (ZoneContains[zone][p] <=> Cardinality(within) % 2 = 1))
=============================================================================
