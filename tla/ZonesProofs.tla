---------------------------- MODULE ZonesProofs ----------------------------
(***************************************************************************)
(* What holds of zones for all coordinates, radii, parts and limits: that  *)
(* a zone survives its serialization, and that containing, covering and    *)
(* being near agree.                                                       *)
(***************************************************************************)
EXTENDS Zones, Induction

\* Composites of the zones S.
Composites(counts, S) ==
    [type : {COMPOSITE}, components : {zs \in Seq(S) : Len(zs) \in counts}]

LEMMA Types == NEIGHBOR = 1 /\ CIRCLE = 2 /\ POLYGON = 4 /\ COMPOSITE = 8
  BY DEF NEIGHBOR, CIRCLE, POLYGON, COMPOSITE

LEMMA NestedIs ==
    ASSUME NEW counts
    PROVE  /\ Nested(counts)[0] = Plain(counts)
           /\ \A n \in 1 .. MaxDepth :
                 Nested(counts)[n] = Plain(counts) \cup Composites(counts, Nested(counts)[n - 1])
<1> DEFINE P == Plain(counts)
           C(S) == Composites(counts, S)
           Levels(f, m) == f = [n \in 0 .. m |-> IF n = 0 THEN P ELSE P \cup C(f[n - 1])]
           Solved == {m \in 0 .. MaxDepth : \E f : Levels(f, m)}
<1>0. MaxDepth \in Nat
    BY ZonesAssumption
<1>1. Nested(counts) = CHOOSE f : Levels(f, MaxDepth)
    BY DEF Nested, Composites
<1> HIDE DEF P, C
<1>2. 0 \in Solved
  <2> DEFINE g == [n \in 0 .. 0 |-> P]
  <2>1. Levels(g, 0)
      OBVIOUS
  <2> HIDE DEF g
  <2> QED
      BY <2>1, <1>0
<1>3. ASSUME NEW m \in 0 .. MaxDepth - 1, m \in Solved PROVE m + 1 \in Solved
  <2>1. PICK f : Levels(f, m)
      BY <1>3
  <2> DEFINE g == [n \in 0 .. m + 1 |-> IF n = m + 1 THEN P \cup C(f[m]) ELSE f[n]]
  <2>2. ASSUME NEW n \in 0 .. m + 1
        PROVE  g[n] = IF n = 0 THEN P ELSE P \cup C(g[n - 1])
    <3>1. CASE n = m + 1
        BY <3>1
    <3>2. CASE n # m + 1 /\ n = 0
        BY <3>2, <2>1
    <3>3. CASE n # m + 1 /\ n # 0
      <4>1. n \in 0 .. m /\ n - 1 \in 0 .. m /\ n - 1 # m + 1
          BY <3>3
      <4>2. f[n] = P \cup C(f[n - 1])
          BY <2>1, <4>1, <3>3
      <4>3. g[n] = f[n] /\ g[n - 1] = f[n - 1]
          BY <4>1, <3>3
      <4> QED
          BY <4>2, <4>3, <3>3
    <3> QED
        BY <3>1, <3>2, <3>3
  <2>3. g = [n \in 0 .. m + 1 |-> g[n]]
      OBVIOUS
  <2> HIDE DEF g
  <2>4. Levels(g, m + 1)
      BY <2>2, <2>3
  <2> QED
      BY <2>4, <1>0
<1> HIDE DEF Solved
<1>4. MaxDepth \in Solved
  <2>1. 0 .. MaxDepth \subseteq Solved
      BY <1>0, <1>2, <1>3, UpToInduction
  <2> QED
      BY <2>1, <1>0
<1>5. Levels(Nested(counts), MaxDepth)
    BY <1>1, <1>4 DEF Solved
<1>6. Nested(counts)[0] = P
    BY <1>5, <1>0
<1>7. ASSUME NEW n \in 1 .. MaxDepth
      PROVE  Nested(counts)[n] = P \cup C(Nested(counts)[n - 1])
  <2> DEFINE f == Nested(counts)
  <2>1. f = [k \in 0 .. MaxDepth |-> IF k = 0 THEN P ELSE P \cup C(f[k - 1])]
      BY <1>5
  <2> HIDE DEF f
  <2>2. n \in 0 .. MaxDepth /\ n # 0
      BY <1>0
  <2>3. f[n] = P \cup C(f[n - 1])
      BY <2>1, <2>2
  <2> QED
      BY <2>3 DEF f
<1> QED
    BY <1>6, <1>7 DEF P, C

LEMMA CompositesGrow ==
    ASSUME NEW c, NEW d, c \subseteq d, NEW S, NEW T, S \subseteq T
    PROVE  Composites(c, S) \subseteq Composites(d, T)
<1>1. ASSUME NEW zs \in Seq(S) PROVE zs \in Seq(T)
    OBVIOUS
<1> DEFINE A == {zs \in Seq(S) : Len(zs) \in c}
           B == {zs \in Seq(T) : Len(zs) \in d}
<1>2. A \subseteq B
    BY <1>1
<1> HIDE DEF A, B
<1>3. [type : {COMPOSITE}, components : A] \subseteq [type : {COMPOSITE}, components : B]
    BY <1>2
<1> QED
    BY <1>3 DEF Composites, A, B

LEMMA PlainGrows == ASSUME NEW c, NEW d, c \subseteq d PROVE Plain(c) \subseteq Plain(d)
<1> DEFINE A == {vs \in Seq(Plane) : Len(vs) \in c}
           B == {vs \in Seq(Plane) : Len(vs) \in d}
<1>1. A \subseteq B
    OBVIOUS
<1> HIDE DEF A, B
<1>2. [type : {POLYGON}, vertices : A] \subseteq [type : {POLYGON}, vertices : B]
    BY <1>1
<1> QED
    BY <1>2 DEF Plain, A, B

LEMMA NestedGrows ==
    ASSUME NEW counts, NEW n \in 1 .. MaxDepth
    PROVE  Nested(counts)[n - 1] \subseteq Nested(counts)[n]
<1> DEFINE f == Nested(counts)
           T == {k \in 0 .. MaxDepth - 1 : f[k] \subseteq f[k + 1]}
<1>0. MaxDepth \in Nat \ {0}
    BY ZonesAssumption
<1>1. /\ f[0] = Plain(counts)
      /\ \A k \in 1 .. MaxDepth : f[k] = Plain(counts) \cup Composites(counts, f[k - 1])
    BY NestedIs
<1> HIDE DEF f
<1>2. 0 \in T
    BY <1>0, <1>1
<1>3. ASSUME NEW k \in 0 .. (MaxDepth - 1) - 1, k \in T PROVE k + 1 \in T
  <2>1. f[k] \subseteq f[k + 1]
      BY <1>3
  <2>2. Composites(counts, f[k]) \subseteq Composites(counts, f[k + 1])
      BY <2>1, CompositesGrow
  <2>3. /\ k + 1 \in 1 .. MaxDepth /\ k + 2 \in 1 .. MaxDepth
        /\ (k + 1) - 1 = k /\ (k + 2) - 1 = k + 1 /\ (k + 1) + 1 = k + 2
      BY <1>0
  <2>4. f[k + 1] \subseteq f[k + 2]
      BY <1>1, <2>2, <2>3
  <2> QED
      BY <2>3, <2>4, <1>0
<1> HIDE DEF T
<1>4. 0 .. MaxDepth - 1 \subseteq T
    BY <1>0, <1>2, <1>3, UpToInduction
<1>5. n - 1 \in T /\ (n - 1) + 1 = n
    BY <1>0, <1>4
<1> QED
    BY <1>5 DEF T, f

\* What an application builds is a zone, with counts that fit into a byte.
LEMMA BuiltAreZones ==
    ASSUME NEW n \in 0 .. MaxDepth
    PROVE  Built[n] \subseteq Nested(Nat)[n]
<1> DEFINE f == Nested(0 .. MaxByte)
           g == Nested(Nat)
           T == {k \in 0 .. MaxDepth : f[k] \subseteq g[k]}
<1>0. MaxDepth \in Nat \ {0} /\ 0 .. MaxByte \subseteq Nat
    BY ZonesAssumption
<1>1. /\ f[0] = Plain(0 .. MaxByte) /\ g[0] = Plain(Nat)
      /\ \A k \in 1 .. MaxDepth :
            /\ f[k] = Plain(0 .. MaxByte) \cup Composites(0 .. MaxByte, f[k - 1])
            /\ g[k] = Plain(Nat) \cup Composites(Nat, g[k - 1])
    BY NestedIs
<1>2. Plain(0 .. MaxByte) \subseteq Plain(Nat)
    BY <1>0, PlainGrows
<1> HIDE DEF f, g
<1>3. 0 \in T
    BY <1>0, <1>1, <1>2
<1>4. ASSUME NEW k \in 0 .. MaxDepth - 1, k \in T PROVE k + 1 \in T
  <2>1. Composites(0 .. MaxByte, f[k]) \subseteq Composites(Nat, g[k])
      BY <1>0, <1>4, CompositesGrow
  <2>2. k + 1 \in 1 .. MaxDepth /\ (k + 1) - 1 = k
      BY <1>0
  <2>3. f[k + 1] \subseteq g[k + 1]
      BY <1>1, <1>2, <2>1, <2>2
  <2> QED
      BY <2>2, <2>3
<1> HIDE DEF T
<1>5. 0 .. MaxDepth \subseteq T
    BY <1>0, <1>3, <1>4, UpToInduction
<1> QED
    BY <1>5 DEF T, f, g, Built

-----------------------------------------------------------------------------
(***************************************************************************)
(* Induction and recursion over the parts of a zone.                       *)
(***************************************************************************)
LEMMA PlainTypes ==
    ASSUME NEW counts, NEW z \in Plain(counts)
    PROVE  /\ z.type \in {NEIGHBOR, CIRCLE, POLYGON} /\ z.type # COMPOSITE
           /\ z.type = CIRCLE => z.center \in Plane /\ z.radius \in Nat
           /\ z.type = POLYGON => z.vertices \in Seq(Plane) /\ Len(z.vertices) \in counts
<1>1. CASE z = Neighbor
    BY <1>1, Types DEF Neighbor
<1>2. CASE z \in [type : {CIRCLE}, center : Plane, radius : Nat]
    BY <1>2, Types
<1>3. CASE z \in [type : {POLYGON}, vertices : {vs \in Seq(Plane) : Len(vs) \in counts}]
    BY <1>3, Types
<1> QED
    BY <1>1, <1>2, <1>3 DEF Plain

LEMMA CompositeTypes ==
    ASSUME NEW counts, NEW S, NEW z \in Composites(counts, S)
    PROVE  /\ z = Composite(z.components) /\ z.type = COMPOSITE
           /\ z.components \in Seq(S) /\ Len(z.components) \in counts
  BY DEF Composites, Composite

LEMMA NestedTypes ==
    ASSUME NEW counts, NEW n \in 0 .. MaxDepth, NEW z \in Nested(counts)[n]
    PROVE  \/ z \in Plain(counts) /\ z.type # COMPOSITE
           \/ /\ n # 0 /\ z = Composite(z.components) /\ z.type = COMPOSITE
              /\ z.components \in Seq(Nested(counts)[n - 1]) /\ Len(z.components) \in counts
<1>0. MaxDepth \in Nat
    BY ZonesAssumption
<1>1. CASE n = 0
    BY <1>1, NestedIs, PlainTypes
<1>2. CASE n # 0
  <2>1. n \in 1 .. MaxDepth
      BY <1>0, <1>2
  <2>2. z \in Plain(counts) \/ z \in Composites(counts, Nested(counts)[n - 1])
      BY <2>1, NestedIs
  <2> QED
      BY <2>2, <1>2, PlainTypes, CompositeTypes
<1> QED
    BY <1>1, <1>2

LEMMA ZoneTypes ==
    ASSUME NEW z \in Zone
    PROVE  \/ z \in Plain(Nat) /\ z.type # COMPOSITE
           \/ /\ z = Composite(z.components) /\ z.type = COMPOSITE
              /\ z.components \in Seq(Nested(Nat)[MaxDepth - 1]) /\ z.components \in Seq(Zone)
<1>1. MaxDepth \in 0 .. MaxDepth /\ MaxDepth \in 1 .. MaxDepth
    BY ZonesAssumption
<1>2. Nested(Nat)[MaxDepth - 1] \subseteq Zone
    BY <1>1, NestedGrows DEF Zone
<1>3. \A zs \in Seq(Nested(Nat)[MaxDepth - 1]) : zs \in Seq(Zone)
    BY <1>2
<1>4. z \in Nested(Nat)[MaxDepth]
    BY DEF Zone
<1> QED
    BY <1>1, <1>3, <1>4, NestedTypes

LEMMA PlainAreZones == Plain(Nat) \subseteq Zone
<1>1. MaxDepth \in 1 .. MaxDepth
    BY ZonesAssumption
<1> QED
    BY <1>1, NestedIs DEF Zone

LEMMA NestedInZone == ASSUME NEW k \in 0 .. MaxDepth PROVE Nested(Nat)[k] \subseteq Zone
<1> DEFINE f == Nested(Nat)
           U == {m \in 0 .. MaxDepth : f[MaxDepth - m] \subseteq Zone}
<1>0. MaxDepth \in Nat
    BY ZonesAssumption
<1>1. \A m \in 1 .. MaxDepth : f[m - 1] \subseteq f[m]
    BY NestedGrows
<1>2. Zone = f[MaxDepth]
    BY DEF Zone
<1> HIDE DEF f
<1>3. 0 \in U
    BY <1>0, <1>2
<1>4. ASSUME NEW m \in 0 .. MaxDepth - 1, m \in U PROVE m + 1 \in U
  <2>1. MaxDepth - m \in 1 .. MaxDepth /\ (MaxDepth - m) - 1 = MaxDepth - (m + 1)
      BY <1>0
  <2>2. f[MaxDepth - (m + 1)] \subseteq f[MaxDepth - m]
      BY <1>1, <2>1
  <2>3. m + 1 \in 0 .. MaxDepth
      BY <1>0
  <2> QED
      BY <1>4, <2>2, <2>3
<1> HIDE DEF U
<1>5. 0 .. MaxDepth \subseteq U
    BY <1>0, <1>3, <1>4, UpToInduction
<1>6. MaxDepth - k \in U /\ MaxDepth - (MaxDepth - k) = k
    BY <1>0, <1>5
<1> QED
    BY <1>6 DEF U, f

\* What holds of plain zones, and of a composite if of its parts, holds of zones.
LEMMA ZoneInduction ==
    ASSUME NEW S, Plain(Nat) \subseteq S,
           \A z \in Zone :
               z.type = COMPOSITE /\ (\A i \in DOMAIN z.components : z.components[i] \in S) => z \in S
    PROVE  Zone \subseteq S
<1> DEFINE f == Nested(Nat)
           T == {k \in 0 .. MaxDepth : f[k] \subseteq S}
<1>0. MaxDepth \in Nat
    BY ZonesAssumption
<1>1. \A k \in 0 .. MaxDepth : \A z \in f[k] :
          /\ z \in Zone
          /\ \/ z \in Plain(Nat)
             \/ k # 0 /\ z.type = COMPOSITE /\ z.components \in Seq(f[k - 1])
    BY NestedTypes, NestedInZone
<1>2. Zone = f[MaxDepth]
    BY DEF Zone
<1> HIDE DEF f
<1>3. 0 \in T
    BY <1>0, <1>1
<1>4. ASSUME NEW k \in 0 .. MaxDepth - 1, k \in T PROVE k + 1 \in T
  <2>1. k + 1 \in 0 .. MaxDepth /\ (k + 1) - 1 = k
      BY <1>0
  <2>2. ASSUME NEW z \in f[k + 1] PROVE z \in S
    <3>1. CASE z \in Plain(Nat)
        BY <3>1
    <3>2. CASE z.type = COMPOSITE /\ z.components \in Seq(f[k])
      <4>1. \A i \in DOMAIN z.components : z.components[i] \in f[k]
          BY <3>2
      <4> QED
          BY <3>2, <4>1, <1>1, <2>1, <2>2, <1>4
    <3> QED
        BY <3>1, <3>2, <2>1, <2>2, <1>1
  <2> QED
      BY <2>1, <2>2
<1> HIDE DEF T
<1>5. 0 .. MaxDepth \subseteq T
    BY <1>0, <1>3, <1>4, UpToInduction
<1>6. MaxDepth \in T
    BY <1>0, <1>5
<1> QED
    BY <1>2, <1>6 DEF T

LEMMA MapType ==
    ASSUME NEW S, NEW T, NEW zs \in Seq(S), NEW f \in [S -> T]
    PROVE  [i \in DOMAIN zs |-> f[zs[i]]] \in Seq(T)
<1>1. DOMAIN zs = 1 .. Len(zs) /\ Len(zs) \in Nat /\ \A i \in 1 .. Len(zs) : f[zs[i]] \in T
    OBVIOUS
<1> QED
    BY <1>1

\* A function of zones is given by what it is on plain ones, and how it joins
\* what it is on the parts of a composite.
Joined(f, leaf, join) ==
    \A z \in Zone :
        f[z] = IF z.type = COMPOSITE THEN join[[i \in DOMAIN z.components |-> f[z.components[i]]]]
               ELSE leaf[z]

LEMMA ZoneRecursion ==
    ASSUME NEW V, NEW leaf \in [Plain(Nat) -> V], NEW join \in [Seq(V) -> V]
    PROVE  \E f \in [Zone -> V] : Joined(f, leaf, join)
<1> DEFINE L == Nested(Nat)
           S == [Zone -> V]
           Deeper(f) == [z \in Zone |->
                            IF z.type = COMPOSITE
                            THEN join[[i \in DOMAIN z.components |-> f[z.components[i]]]]
                            ELSE leaf[z]]
           start == [z \in Zone |-> leaf[Neighbor]]
           step == [n \in 1 .. MaxDepth + 1 |-> [f \in S |-> Deeper(f)]]
<1>0. MaxDepth \in Nat \ {0}
    BY ZonesAssumption
<1>1. leaf[Neighbor] \in V
    BY DEF Plain
<1>2. \A z \in Zone :
          \/ z \in Plain(Nat) /\ z.type # COMPOSITE
          \/ z.type = COMPOSITE /\ z.components \in Seq(Zone)
  <2> SUFFICES ASSUME NEW z \in Zone
               PROVE  \/ z \in Plain(Nat) /\ z.type # COMPOSITE
                      \/ z.type = COMPOSITE /\ z.components \in Seq(Zone)
      OBVIOUS
  <2> QED
      BY ZoneTypes
<1>3. ASSUME NEW f \in S PROVE Deeper(f) \in S
  <2> SUFFICES ASSUME NEW z \in Zone
               PROVE  (IF z.type = COMPOSITE
                       THEN join[[i \in DOMAIN z.components |-> f[z.components[i]]]]
                       ELSE leaf[z]) \in V
      OBVIOUS
  <2>1. CASE z.type = COMPOSITE
    <3>1. z.components \in Seq(Zone)
        BY <2>1, <1>2
    <3>2. [i \in DOMAIN z.components |-> f[z.components[i]]] \in Seq(V)
      <4> DEFINE zs == z.components
      <4>1. zs \in Seq(Zone) /\ f \in [Zone -> V]
          BY <3>1, <1>3
      <4> HIDE DEF zs
      <4>2. [i \in DOMAIN zs |-> f[zs[i]]] \in Seq(V)
          BY <4>1, MapType
      <4> QED
          BY <4>2 DEF zs
    <3> QED
        BY <2>1, <3>2
  <2>2. CASE z.type # COMPOSITE
      BY <2>2, <1>2
  <2> QED
      BY <2>1, <2>2
<1>4. start \in S
    BY <1>1
<1>5. step \in [1 .. MaxDepth + 1 -> [S -> S]]
    BY <1>3
<1>6. \A k \in 1 .. MaxDepth + 1 : \A f \in S : step[k][f] = Deeper(f)
    OBVIOUS
<1> HIDE DEF S, start, step
<1>7. PICK g \in [0 .. MaxDepth + 1 -> S] : IsRun(g, start, step, MaxDepth + 1)
    BY <1>0, <1>4, <1>5, RecursionExists
<1>8. ASSUME NEW k \in 1 .. MaxDepth + 1
      PROVE  g[k - 1] \in S /\ g[k] = Deeper(g[k - 1])
  <2>1. k - 1 \in 0 .. MaxDepth + 1
      BY <1>0
  <2> QED
      BY <2>1, <1>6, <1>7, <1>8 DEF IsRun
<1>16. \A k \in 1 .. MaxDepth + 1 : \A z \in Zone :
          g[k][z] = IF z.type = COMPOSITE
                    THEN join[[i \in DOMAIN z.components |-> g[k - 1][z.components[i]]]]
                    ELSE leaf[z]
  <2> SUFFICES ASSUME NEW k \in 1 .. MaxDepth + 1, NEW z \in Zone
               PROVE  g[k][z] = IF z.type = COMPOSITE
                                THEN join[[i \in DOMAIN z.components |-> g[k - 1][z.components[i]]]]
                                ELSE leaf[z]
      OBVIOUS
  <2>1. g[k] = Deeper(g[k - 1])
      BY <1>8
  <2> QED
      BY <2>1
\* Once the depth of a zone is reached, its value does not change any more.
<1> DEFINE Same(k) == \A m \in k + 1 .. MaxDepth : \A z \in L[k] : g[m + 1][z] = g[m][z]
           W == {k \in 0 .. MaxDepth - 1 : Same(k)}
<1>9. \A k \in 0 .. MaxDepth : \A z \in L[k] :
          /\ z \in Zone
          /\ \/ z \in Plain(Nat) /\ z.type # COMPOSITE
             \/ k # 0 /\ z.type = COMPOSITE /\ z.components \in Seq(L[k - 1])
    BY NestedTypes, NestedInZone
<1> HIDE DEF L
<1>10. 0 \in W
  <2> SUFFICES ASSUME NEW m \in 1 .. MaxDepth, NEW z \in L[0] PROVE g[m + 1][z] = g[m][z]
      BY <1>0
  <2>1. z \in Zone /\ z.type # COMPOSITE
      BY <1>0, <1>9
  <2>2. m \in 1 .. MaxDepth + 1 /\ m + 1 \in 1 .. MaxDepth + 1
      BY <1>0
  <2>3. g[m][z] = leaf[z] /\ g[m + 1][z] = leaf[z]
      BY <1>16, <2>1, <2>2
  <2> QED
      BY <2>3
<1>11. ASSUME NEW k \in 0 .. (MaxDepth - 1) - 1, k \in W PROVE k + 1 \in W
  <2> SUFFICES ASSUME NEW m \in k + 2 .. MaxDepth, NEW z \in L[k + 1] PROVE g[m + 1][z] = g[m][z]
      BY <1>0
  <2>1. /\ k + 1 \in 0 .. MaxDepth /\ (k + 1) - 1 = k /\ m - 1 \in k + 1 .. MaxDepth
        /\ m \in 1 .. MaxDepth + 1 /\ m + 1 \in 1 .. MaxDepth + 1
        /\ (m + 1) - 1 = m /\ (m - 1) + 1 = m
      BY <1>0
  <2>2. z \in Zone
      BY <1>9, <2>1
  <2>3. /\ g[m + 1][z] = Deeper(g[m])[z]
        /\ g[m][z] = Deeper(g[m - 1])[z]
      BY <1>8, <2>1
  <2>4. CASE z.type # COMPOSITE
      BY <2>2, <2>3, <2>4
  <2>5. CASE z.type = COMPOSITE
    <3>1. z.components \in Seq(L[k])
        BY <1>9, <2>1, <2>5
    <3>2. \A i \in DOMAIN z.components : g[m][z.components[i]] = g[m - 1][z.components[i]]
      <4>1. \A y \in L[k] : g[m][y] = g[m - 1][y]
          BY <1>11, <2>1
      <4> QED
          BY <3>1, <4>1
    <3>3. [i \in DOMAIN z.components |-> g[m][z.components[i]]] =
          [i \in DOMAIN z.components |-> g[m - 1][z.components[i]]]
        BY <3>2
    <3> QED
        BY <2>2, <2>3, <2>5, <3>3
  <2> QED
      BY <2>4, <2>5
<1> HIDE DEF W
<1>12. 0 .. MaxDepth - 1 \subseteq W
  <2> DEFINE n == MaxDepth - 1
  <2>1. n \in Nat
      BY <1>0
  <2>2. \A k \in 0 .. n - 1 : k \in W => k + 1 \in W
      BY <1>11
  <2> HIDE DEF n
  <2>3. 0 .. n \subseteq W
      BY <2>1, <2>2, <1>10, UpToInduction
  <2> QED
      BY <2>3 DEF n
<1>13. \A z \in L[MaxDepth - 1] : g[MaxDepth + 1][z] = g[MaxDepth][z]
  <2>1. MaxDepth - 1 \in W
      BY <1>0, <1>12
  <2>2. MaxDepth \in (MaxDepth - 1) + 1 .. MaxDepth
      BY <1>0
  <2> QED
      BY <2>1, <2>2 DEF W
<1> DEFINE f == g[MaxDepth + 1]
<1>14. f \in [Zone -> V]
    BY <1>0, <1>7 DEF S
<1>15. Joined(f, leaf, join)
  <2> SUFFICES ASSUME NEW z \in Zone
               PROVE  f[z] = IF z.type = COMPOSITE
                             THEN join[[i \in DOMAIN z.components |-> f[z.components[i]]]]
                             ELSE leaf[z]
      BY DEF Joined
  <2>1. MaxDepth + 1 \in 1 .. MaxDepth + 1 /\ (MaxDepth + 1) - 1 = MaxDepth
      BY <1>0
  <2>2. f[z] = Deeper(g[MaxDepth])[z]
      BY <1>8, <2>1
  <2>3. CASE z.type # COMPOSITE
      BY <2>2, <2>3
  <2>4. CASE z.type = COMPOSITE
    <3>1. z.components \in Seq(L[MaxDepth - 1])
        BY <2>4, ZoneTypes DEF L
    <3>2. \A i \in DOMAIN z.components : g[MaxDepth][z.components[i]] = f[z.components[i]]
        BY <1>13, <3>1
    <3>3. [i \in DOMAIN z.components |-> g[MaxDepth][z.components[i]]] =
          [i \in DOMAIN z.components |-> f[z.components[i]]]
        BY <3>2
    <3> HIDE DEF f
    <3> QED
        BY <2>2, <2>4, <3>3
  <2> QED
      BY <2>3, <2>4
<1> HIDE DEF f
<1> QED
    BY <1>14, <1>15

-----------------------------------------------------------------------------
(***************************************************************************)
(* What the functions of zones are on each kind of zone.                   *)
(***************************************************************************)
LEMMA ContainsIs ==
    /\ ZoneContains \in [Zone -> [Plane -> BOOLEAN]]
    /\ \A z \in Zone, p \in Plane :
          ZoneContains[z][p] <=>
              \/ z.type = CIRCLE /\ SquareDistance(p, z.center) <= Square(z.radius)
              \/ z.type = POLYGON /\ PolygonContains(z.vertices, p)
              \/ z.type = COMPOSITE /\ \E i \in DOMAIN z.components : ZoneContains[z.components[i]][p]
<1> DEFINE V == [Plane -> BOOLEAN]
           Body(f, z) ==
               [p \in Plane |->
                   \/ z.type = CIRCLE /\ SquareDistance(p, z.center) <= Square(z.radius)
                   \/ z.type = POLYGON /\ PolygonContains(z.vertices, p)
                   \/ z.type = COMPOSITE /\ \E i \in DOMAIN z.components : f[z.components[i]][p]]
           leaf == [z \in Plain(Nat) |-> Body(<<>>, z)]
           join == [vs \in Seq(V) |-> [p \in Plane |-> \E i \in DOMAIN vs : vs[i][p]]]
<1>1. ZoneContains = CHOOSE f : f = [z \in Zone |-> Body(f, z)]
    BY DEF ZoneContains
<1>2. leaf \in [Plain(Nat) -> V]
  <2> SUFFICES ASSUME NEW z \in Plain(Nat), NEW p \in Plane PROVE Body(<<>>, z)[p] \in BOOLEAN
      OBVIOUS
  <2>1. z.type \in {NEIGHBOR, CIRCLE, POLYGON}
      BY PlainTypes
  <2>2. CASE z.type = NEIGHBOR
      BY <2>2, Types
  <2>3. CASE z.type = CIRCLE
      BY <2>3, Types
  <2>4. CASE z.type = POLYGON
      BY <2>4, Types DEF PolygonContains
  <2> QED
      BY <2>1, <2>2, <2>3, <2>4
<1>3. join \in [Seq(V) -> V]
    OBVIOUS
<1>4. \A z \in Plain(Nat) : leaf[z] = Body(<<>>, z)
    OBVIOUS
<1>5. \A vs \in Seq(V) : join[vs] = [p \in Plane |-> \E i \in DOMAIN vs : vs[i][p]]
    OBVIOUS
<1> HIDE DEF leaf, join
<1>6. PICK f \in [Zone -> V] : Joined(f, leaf, join)
    BY <1>2, <1>3, ZoneRecursion
<1>7. ASSUME NEW z \in Zone PROVE f[z] = Body(f, z)
  <2>1. CASE z \in Plain(Nat) /\ z.type # COMPOSITE
    <3>1. f[z] = Body(<<>>, z)
        BY <2>1, <1>4, <1>6 DEF Joined
    <3>2. z.type \in {NEIGHBOR, CIRCLE, POLYGON}
        BY <2>1, PlainTypes
    <3>3. CASE z.type = NEIGHBOR
        BY <3>1, <3>3, Types
    <3>4. CASE z.type = CIRCLE
        BY <3>1, <3>4, Types
    <3>5. CASE z.type = POLYGON
        BY <3>1, <3>5, Types
    <3> QED
        BY <3>2, <3>3, <3>4, <3>5
  <2>2. CASE z.type = COMPOSITE /\ z.components \in Seq(Zone)
    <3> DEFINE vs == [i \in DOMAIN z.components |-> f[z.components[i]]]
    <3>1. vs \in Seq(V)
      <4> HIDE DEF V
      <4> QED
          BY <2>2, MapType
    <3>2. f[z] = join[vs]
        BY <2>2, <1>6 DEF Joined
    <3>3. f[z] = [p \in Plane |-> \E i \in DOMAIN vs : vs[i][p]]
        BY <3>1, <3>2, <1>5
    <3>4. \A p : (\E i \in DOMAIN vs : vs[i][p]) <=> (\E i \in DOMAIN z.components : f[z.components[i]][p])
        OBVIOUS
    <3> HIDE DEF vs
    <3>5. Body(f, z) = [p \in Plane |-> \E i \in DOMAIN z.components : f[z.components[i]][p]]
        BY <2>2, Types
    <3> QED
        BY <3>3, <3>4, <3>5
  <2> QED
      BY <2>1, <2>2, ZoneTypes
<1>8. f = [z \in Zone |-> Body(f, z)]
  <2>1. f = [z \in Zone |-> f[z]]
      BY <1>6
  <2> QED
      BY <1>7, <2>1
<1>9. ZoneContains = [z \in Zone |-> Body(ZoneContains, z)]
  <2> HIDE DEF Body
  <2> QED
      BY <1>1, <1>8
<1>10. \A z \in Zone : Body(ZoneContains, z) \in V
    OBVIOUS
<1>11. ZoneContains \in [Zone -> V]
  <2> HIDE DEF Body, V
  <2> QED
      BY <1>9, <1>10
<1>12. \A z \in Zone, p \in Plane : ZoneContains[z][p] = Body(ZoneContains, z)[p]
  <2> HIDE DEF Body, V
  <2> QED
      BY <1>9
<1>13. ASSUME NEW z \in Zone, NEW p \in Plane
       PROVE  ZoneContains[z][p] <=>
                   \/ z.type = CIRCLE /\ SquareDistance(p, z.center) <= Square(z.radius)
                   \/ z.type = POLYGON /\ PolygonContains(z.vertices, p)
                   \/ z.type = COMPOSITE /\ \E i \in DOMAIN z.components : ZoneContains[z.components[i]][p]
    BY <1>12
<1> QED
    BY <1>11, <1>13

LEMMA CoveredByIs ==
    /\ ZoneCoveredBy \in [Zone -> [Plane -> [Nat -> BOOLEAN]]]
    /\ \A z \in Zone, c \in Plane, r \in Nat :
          ZoneCoveredBy[z][c][r] <=>
              \/ z.type = CIRCLE /\ SquareDistance(c, z.center) <= Square(z.radius + r)
              \/ z.type = POLYGON /\ PolygonCoveredBy(z.vertices, c, r)
              \/ z.type = COMPOSITE /\ \E i \in DOMAIN z.components : ZoneCoveredBy[z.components[i]][c][r]
<1> DEFINE V == [Plane -> [Nat -> BOOLEAN]]
           Body(f, z) ==
               [c \in Plane |-> [r \in Nat |->
                   \/ z.type = CIRCLE /\ SquareDistance(c, z.center) <= Square(z.radius + r)
                   \/ z.type = POLYGON /\ PolygonCoveredBy(z.vertices, c, r)
                   \/ z.type = COMPOSITE /\ \E i \in DOMAIN z.components : f[z.components[i]][c][r]]]
           leaf == [z \in Plain(Nat) |-> Body(<<>>, z)]
           join == [vs \in Seq(V) |-> [c \in Plane |-> [r \in Nat |-> \E i \in DOMAIN vs : vs[i][c][r]]]]
<1>1. ZoneCoveredBy = CHOOSE f : f = [z \in Zone |-> Body(f, z)]
    BY DEF ZoneCoveredBy
<1>2. leaf \in [Plain(Nat) -> V]
  <2> SUFFICES ASSUME NEW z \in Plain(Nat), NEW c \in Plane, NEW r \in Nat PROVE Body(<<>>, z)[c][r] \in BOOLEAN
      OBVIOUS
  <2>1. z.type \in {NEIGHBOR, CIRCLE, POLYGON}
      BY PlainTypes
  <2>2. CASE z.type = NEIGHBOR
      BY <2>2, Types
  <2>3. CASE z.type = CIRCLE
      BY <2>3, Types
  <2>4. CASE z.type = POLYGON
      BY <2>4, Types DEF PolygonCoveredBy
  <2> QED
      BY <2>1, <2>2, <2>3, <2>4
<1>3. join \in [Seq(V) -> V]
    OBVIOUS
<1>4. \A z \in Plain(Nat) : leaf[z] = Body(<<>>, z)
    OBVIOUS
<1>5. \A vs \in Seq(V) : join[vs] = [c \in Plane |-> [r \in Nat |-> \E i \in DOMAIN vs : vs[i][c][r]]]
    OBVIOUS
<1> HIDE DEF leaf, join
<1>6. PICK f \in [Zone -> V] : Joined(f, leaf, join)
    BY <1>2, <1>3, ZoneRecursion
<1>7. ASSUME NEW z \in Zone PROVE f[z] = Body(f, z)
  <2>1. CASE z \in Plain(Nat) /\ z.type # COMPOSITE
    <3>1. f[z] = Body(<<>>, z)
        BY <2>1, <1>4, <1>6 DEF Joined
    <3>2. z.type \in {NEIGHBOR, CIRCLE, POLYGON}
        BY <2>1, PlainTypes
    <3>3. CASE z.type = NEIGHBOR
        BY <3>1, <3>3, Types
    <3>4. CASE z.type = CIRCLE
        BY <3>1, <3>4, Types
    <3>5. CASE z.type = POLYGON
        BY <3>1, <3>5, Types
    <3> QED
        BY <3>2, <3>3, <3>4, <3>5
  <2>2. CASE z.type = COMPOSITE /\ z.components \in Seq(Zone)
    <3> DEFINE vs == [i \in DOMAIN z.components |-> f[z.components[i]]]
    <3>1. vs \in Seq(V)
      <4> HIDE DEF V
      <4> QED
          BY <2>2, MapType
    <3>2. f[z] = join[vs]
        BY <2>2, <1>6 DEF Joined
    <3>3. f[z] = [c \in Plane |-> [r \in Nat |-> \E i \in DOMAIN vs : vs[i][c][r]]]
        BY <3>1, <3>2, <1>5
    <3>4. \A c, r : (\E i \in DOMAIN vs : vs[i][c][r]) <=> (\E i \in DOMAIN z.components : f[z.components[i]][c][r])
        OBVIOUS
    <3> HIDE DEF vs
    <3>5. Body(f, z) = [c \in Plane |-> [r \in Nat |-> \E i \in DOMAIN z.components : f[z.components[i]][c][r]]]
        BY <2>2, Types
    <3>6. \A c \in Plane :
              [r \in Nat |-> \E i \in DOMAIN vs : vs[i][c][r]] =
              [r \in Nat |-> \E i \in DOMAIN z.components : f[z.components[i]][c][r]]
        BY <3>4
    <3> HIDE DEF Body
    <3> QED
        BY <3>3, <3>5, <3>6
  <2> QED
      BY <2>1, <2>2, ZoneTypes
<1>8. f = [z \in Zone |-> Body(f, z)]
  <2>1. f = [z \in Zone |-> f[z]]
      BY <1>6
  <2> QED
      BY <1>7, <2>1
<1>9. ZoneCoveredBy = [z \in Zone |-> Body(ZoneCoveredBy, z)]
  <2> HIDE DEF Body
  <2> QED
      BY <1>1, <1>8
<1>10. \A z \in Zone : Body(ZoneCoveredBy, z) \in V
    OBVIOUS
<1>11. ZoneCoveredBy \in [Zone -> V]
  <2> HIDE DEF Body, V
  <2> QED
      BY <1>9, <1>10
<1>12. \A z \in Zone, c \in Plane, r \in Nat : ZoneCoveredBy[z][c][r] = Body(ZoneCoveredBy, z)[c][r]
  <2> HIDE DEF Body, V
  <2> QED
      BY <1>9
<1>13. ASSUME NEW z \in Zone, NEW c \in Plane, NEW r \in Nat
       PROVE  ZoneCoveredBy[z][c][r] <=>
                   \/ z.type = CIRCLE /\ SquareDistance(c, z.center) <= Square(z.radius + r)
                   \/ z.type = POLYGON /\ PolygonCoveredBy(z.vertices, c, r)
                   \/ z.type = COMPOSITE /\ \E i \in DOMAIN z.components : ZoneCoveredBy[z.components[i]][c][r]
    BY <1>12
<1> QED
    BY <1>11, <1>13

LEMMA ExtentIs ==
    /\ Extent \in [Zone -> SUBSET Plane]
    /\ \A z \in Zone :
          /\ z.type = CIRCLE =>
                Extent[z] = {<<z.center[1] + i, z.center[2] + j>> : i, j \in {- z.radius, z.radius}}
          /\ z.type = POLYGON => Extent[z] = Range(z.vertices)
          /\ z.type = COMPOSITE =>
                Extent[z] = UNION {Extent[z.components[i]] : i \in DOMAIN z.components}
<1> DEFINE V == SUBSET Plane
           Box(z) == {<<z.center[1] + i, z.center[2] + j>> : i, j \in {- z.radius, z.radius}}
           Body(f, z) ==
               IF z.type = COMPOSITE THEN UNION {f[z.components[i]] : i \in DOMAIN z.components}
               ELSE PlainExtent(z)
           leaf == [z \in Plain(Nat) |-> Body(<<>>, z)]
           join == [vs \in Seq(V) |-> UNION {vs[i] : i \in DOMAIN vs}]
<1>1. Extent = CHOOSE f : f = [z \in Zone |-> Body(f, z)]
    BY DEF Extent
<1>14. /\ \A z : z.type = NEIGHBOR => \A f : Body(f, z) = {}
       /\ \A z : z.type = CIRCLE => \A f : Body(f, z) = Box(z)
       /\ \A z : z.type = POLYGON => \A f : Body(f, z) = Range(z.vertices)
       /\ \A z : z.type = COMPOSITE => \A f : Body(f, z) = UNION {f[z.components[i]] : i \in DOMAIN z.components}
    BY Types DEF PlainExtent
<1>15. ASSUME NEW z \in Plain(Nat), z.type = CIRCLE PROVE Box(z) \in V
  <2>1. z.center \in Int \X Int /\ z.radius \in Int
      BY <1>15, PlainTypes DEF Plane
  <2>2. z.center[1] \in Int /\ z.center[2] \in Int
      BY <2>1
  <2>3. \A i, j \in {- z.radius, z.radius} : <<z.center[1] + i, z.center[2] + j>> \in Int \X Int
      BY <2>1, <2>2
  <2> QED
      BY <2>3 DEF Plane
<1> HIDE DEF Body, Box
<1>2. leaf \in [Plain(Nat) -> V]
  <2> SUFFICES ASSUME NEW z \in Plain(Nat) PROVE Body(<<>>, z) \in V
      OBVIOUS
  <2>1. z.type \in {NEIGHBOR, CIRCLE, POLYGON}
      BY PlainTypes
  <2>2. CASE z.type = NEIGHBOR
      BY <2>2, <1>14
  <2>3. CASE z.type = CIRCLE
      BY <2>3, <1>14, <1>15
  <2>4. CASE z.type = POLYGON
    <3>1. z.vertices \in Seq(Plane)
        BY <2>4, PlainTypes
    <3> QED
        BY <3>1, <2>4, <1>14 DEF Range
  <2> QED
      BY <2>1, <2>2, <2>3, <2>4
<1>3. join \in [Seq(V) -> V]
  <2> SUFFICES ASSUME NEW vs \in Seq(V) PROVE UNION {vs[i] : i \in DOMAIN vs} \in V
      OBVIOUS
  <2>1. \A i \in DOMAIN vs : vs[i] \subseteq Plane
      OBVIOUS
  <2> QED
      BY <2>1
<1>4. \A z \in Plain(Nat) : leaf[z] = Body(<<>>, z)
    OBVIOUS
<1>5. \A vs \in Seq(V) : join[vs] = UNION {vs[i] : i \in DOMAIN vs}
    OBVIOUS
<1> HIDE DEF leaf, join, V
<1>6. PICK f \in [Zone -> V] : Joined(f, leaf, join)
    BY <1>2, <1>3, ZoneRecursion
<1>7. ASSUME NEW z \in Zone PROVE f[z] = Body(f, z)
  <2>1. CASE z \in Plain(Nat) /\ z.type # COMPOSITE
    <3>1. f[z] = Body(<<>>, z)
        BY <2>1, <1>4, <1>6 DEF Joined
    <3>2. z.type \in {NEIGHBOR, CIRCLE, POLYGON}
        BY <2>1, PlainTypes
    <3> QED
        BY <3>1, <3>2, <1>14
  <2>2. CASE z.type = COMPOSITE /\ z.components \in Seq(Zone)
    <3> DEFINE vs == [i \in DOMAIN z.components |-> f[z.components[i]]]
    <3>1. vs \in Seq(V)
        BY <2>2, MapType
    <3>2. f[z] = join[vs]
        BY <2>2, <1>6 DEF Joined
    <3>3. f[z] = UNION {vs[i] : i \in DOMAIN vs}
        BY <3>1, <3>2, <1>5
    <3>4. {vs[i] : i \in DOMAIN vs} = {f[z.components[i]] : i \in DOMAIN z.components}
        OBVIOUS
    <3> QED
        BY <3>3, <3>4, <2>2, <1>14
  <2> QED
      BY <2>1, <2>2, ZoneTypes
<1>8. f = [z \in Zone |-> Body(f, z)]
  <2>1. f = [z \in Zone |-> f[z]]
      BY <1>6
  <2> QED
      BY <1>7, <2>1
<1>9. Extent = [z \in Zone |-> Body(Extent, z)]
    BY <1>1, <1>8
<1>10. \A z \in Zone : Extent[z] = Body(Extent, z)
    BY <1>9
<1> DEFINE T == {z \in Zone : Extent[z] \in V}
<1>11. Zone \subseteq T
  <2>1. Plain(Nat) \subseteq T
    <3> SUFFICES ASSUME NEW z \in Plain(Nat) PROVE z \in T
        OBVIOUS
    <3>1. z \in Zone /\ z.type \in {NEIGHBOR, CIRCLE, POLYGON}
        BY PlainAreZones, PlainTypes
    <3>2. Body(Extent, z) = Body(<<>>, z)
        BY <3>1, <1>14
    <3> QED
        BY <3>1, <3>2, <1>2, <1>4, <1>10
  <2>2. ASSUME NEW z \in Zone, z.type = COMPOSITE, \A i \in DOMAIN z.components : z.components[i] \in T
        PROVE  z \in T
    <3>1. \A i \in DOMAIN z.components : Extent[z.components[i]] \subseteq Plane
        BY <2>2 DEF V
    <3> QED
        BY <3>1, <2>2, <1>10, <1>14 DEF V
  <2> HIDE DEF T
  <2> QED
      BY <2>1, <2>2, ZoneInduction
<1>12. Extent \in [Zone -> V]
    BY <1>9, <1>10, <1>11
<1> QED
    BY <1>10, <1>12, <1>14 DEF V, Box

-----------------------------------------------------------------------------
(***************************************************************************)
(* Serialization.                                                          *)
(***************************************************************************)
\* Concatenation by another name: the provers cite facts about "\o" only with its definition.
Cat(a, b) == a \o b

LEMMA ConcatIs ==
    ASSUME NEW T, NEW a \in Seq(T), NEW b \in Seq(T)
    PROVE  /\ a \o b \in Seq(T) /\ Len(a \o b) = Len(a) + Len(b)
           /\ \A i \in 1 .. Len(a) : (a \o b)[i] = a[i]
           /\ \A i \in 1 .. Len(b) : (a \o b)[Len(a) + i] = b[i]
  OBVIOUS

LEMMA SeqEqual ==
    ASSUME NEW T, NEW a \in Seq(T), NEW b \in Seq(T), Len(a) = Len(b), \A i \in 1 .. Len(a) : a[i] = b[i]
    PROVE  a = b
  OBVIOUS

LEMMA Associate ==
    ASSUME NEW T, NEW a \in Seq(T), NEW b \in Seq(T), NEW c \in Seq(T)
    PROVE  (a \o b) \o c = a \o (b \o c)
  OBVIOUS

LEMMA FlattenIs ==
    ASSUME NEW T, NEW s \in Seq(Seq(T)), s # <<>>
    PROVE  \E f \in [1 .. Len(s) -> Seq(T)] :
              /\ f[1] = s[1]
              /\ \A i \in 2 .. Len(s) : f[i] = f[i - 1] \o s[i]
              /\ FlattenSeq(s) = f[Len(s)]
<1> DEFINE n == Len(s)
           S == Seq(T)
           Levels(f) == f = [i \in 1 .. n |-> IF i = 1 THEN s[i] ELSE f[i - 1] \o s[i]]
           h == CHOOSE f : Levels(f)
           step == [k \in 1 .. n |-> [x \in S |-> x \o s[k]]]
<1>1. n \in Nat /\ n # 0 /\ \A k \in 1 .. n : s[k] \in S
    OBVIOUS
<1>2. FlattenSeq(s) = h[n]
    BY <1>1 DEF FlattenSeq
<1>3. <<>> \in S /\ step \in [1 .. n -> [S -> S]]
    BY <1>1
<1>4. \A k \in 1 .. n : \A x \in S : step[k][x] = x \o s[k]
    BY <1>1
<1>16. \A x \in S : <<>> \o x = x
    OBVIOUS
<1>17. \A x, y \in S : x \o y \in S
    OBVIOUS
<1> HIDE DEF step, n, S
<1>5. PICK g \in [0 .. n -> S] : IsRun(g, <<>>, step, n)
    BY <1>1, <1>3, RecursionExists
<1>6. ASSUME NEW k \in 1 .. n PROVE g[k - 1] \in S /\ g[k] = g[k - 1] \o s[k]
  <2>1. k - 1 \in 0 .. n
      BY <1>1
  <2>2. g[k - 1] \in S
      BY <2>1, <1>5
  <2> QED
      BY <2>2, <1>4, <1>5 DEF IsRun
<1>7. g[1] = s[1]
  <2>1. g[0] = <<>> /\ 1 \in 1 .. n
      BY <1>1, <1>5 DEF IsRun
  <2>2. g[1] = g[0] \o s[1] /\ s[1] \in S
    <3>1. g[1] = g[1 - 1] \o s[1]
        BY <2>1, <1>6
    <3>2. 1 - 1 = 0
        OBVIOUS
    <3> QED
        BY <3>1, <3>2, <2>1, <1>1
  <2> QED
      BY <2>1, <2>2, <1>16
<1> DEFINE f == [i \in 1 .. n |-> g[i]]
<1>8. ASSUME NEW i \in 1 .. n PROVE f[i] = IF i = 1 THEN s[i] ELSE f[i - 1] \o s[i]
  <2>1. CASE i = 1
      BY <2>1, <1>7
  <2>2. CASE i # 1
    <3>1. i - 1 \in 1 .. n
        BY <2>2, <1>1
    <3> QED
        BY <2>2, <3>1, <1>6
  <2> QED
      BY <2>1, <2>2
<1>9. Levels(f)
  <2>1. f = [i \in 1 .. n |-> f[i]]
      OBVIOUS
  <2> HIDE DEF f
  <2> QED
      BY <2>1, <1>8
<1> HIDE DEF f
<1>10. Levels(h)
    BY <1>9
<1> HIDE DEF h
<1>11. \A i \in 1 .. n : h[i] = IF i = 1 THEN s[i] ELSE h[i - 1] \o s[i]
    BY <1>10
<1>18. 1 \in 1 .. n /\ \A i \in 2 .. n : i \in 1 .. n /\ i # 1
    BY <1>1
<1>12. h[1] = s[1] /\ \A i \in 2 .. n : h[i] = h[i - 1] \o s[i]
    BY <1>18, <1>11
<1>13. \A i \in 1 .. n : h[i] = f[i]
  <2> DEFINE U == {k \in 0 .. n - 1 : h[k + 1] = g[k + 1]}
  <2>1. 0 \in U
      BY <1>1, <1>7, <1>12
  <2>2. ASSUME NEW k \in 0 .. (n - 1) - 1, k \in U PROVE k + 1 \in U
    <3>1. k + 2 \in 2 .. n /\ (k + 2) - 1 = k + 1 /\ (k + 1) + 1 = k + 2 /\ k + 1 \in 0 .. n - 1
        BY <1>1
    <3>4. k + 2 \in 1 .. n
        BY <3>1, <1>18
    <3>5. h[k + 2] = h[(k + 2) - 1] \o s[k + 2]
        BY <3>1, <1>12
    <3>6. g[k + 2] = g[(k + 2) - 1] \o s[k + 2]
        BY <3>4, <1>6
    <3>2. h[k + 2] = h[k + 1] \o s[k + 2] /\ g[k + 2] = g[k + 1] \o s[k + 2]
        BY <3>1, <3>5, <3>6
    <3>3. h[k + 1] = g[k + 1]
        BY <2>2
    <3> QED
        BY <3>1, <3>2, <3>3
  <2> HIDE DEF U
  <2>3. n - 1 \in Nat
      BY <1>1
  <2>4. 0 .. n - 1 \subseteq U
      BY <2>1, <2>2, <2>3, UpToInduction
  <2>5. \A i \in 1 .. n : i - 1 \in U /\ (i - 1) + 1 = i
      BY <1>1, <2>4
  <2> QED
      BY <2>5 DEF U, f
<1>14. \A i \in 1 .. n : h[i] \in Seq(T)
    BY <1>5, <1>13, <1>1 DEF f, S
<1>15. h \in [1 .. n -> Seq(T)]
    BY <1>10, <1>14
<1> QED
    BY <1>2, <1>12, <1>15 DEF n

LEMMA FlattenType ==
    ASSUME NEW T, NEW s \in Seq(Seq(T)) PROVE FlattenSeq(s) \in Seq(T)
<1>1. CASE s = <<>>
    BY <1>1 DEF FlattenSeq
<1>2. CASE s # <<>>
  <2> DEFINE n == Len(s)
  <2>1. n \in 1 .. n
      BY <1>2
  <2>2. PICK f \in [1 .. n -> Seq(T)] : FlattenSeq(s) = f[n]
      BY <1>2, FlattenIs
  <2> HIDE DEF n
  <2> QED
      BY <2>1, <2>2
<1> QED
    BY <1>1, <1>2

\* A buffer that starts with a flattened sequence is left entry by entry.
LeftBehind(left, s, t) ==
    /\ left[0] = Cat(FlattenSeq(s), t)
    /\ left[Len(s)] = t
    /\ \A k \in 1 .. Len(s) : left[k - 1] = Cat(s[k], left[k])

LEMMA FlattenSuffix ==
    ASSUME NEW T, NEW s \in Seq(Seq(T)), NEW t \in Seq(T)
    PROVE  \E left \in [0 .. Len(s) -> Seq(T)] : LeftBehind(left, s, t)
<1> DEFINE n == Len(s)
           S == Seq(T)
           step == [k \in 1 .. n |-> [x \in S |-> s[n + 1 - k] \o x]]
<1>1. n \in Nat /\ \A k \in 1 .. n : s[k] \in S /\ s[n + 1 - k] \in S
    OBVIOUS
<1>2. step \in [1 .. n -> [S -> S]]
    BY <1>1
<1>3. \A k \in 1 .. n : \A x \in S : step[k][x] = s[n + 1 - k] \o x
    BY <1>1
<1> HIDE DEF step, n, S
<1>8. t \in S
    BY DEF S
<1>4. PICK g \in [0 .. n -> S] : IsRun(g, t, step, n)
    BY <1>1, <1>2, <1>8, RecursionExists
<1> DEFINE left == [k \in 0 .. n |-> g[n - k]]
<1>5. left \in [0 .. n -> S] /\ left[n] = t
    BY <1>1, <1>4 DEF IsRun
<1>6. ASSUME NEW k \in 1 .. n PROVE left[k - 1] = s[k] \o left[k]
  <2> DEFINE m == n + 1 - k
  <2>1. m \in 1 .. n /\ m - 1 = n - k /\ n + 1 - m = k /\ m = n - (k - 1) /\ k - 1 \in 0 .. n /\ k \in 0 .. n
      BY <1>1
  <2> HIDE DEF m
  <2>2. g[m - 1] \in S
      BY <2>1, <1>1
  <2>3. g[m] = s[k] \o g[m - 1]
      BY <2>1, <2>2, <1>3, <1>4 DEF IsRun
  <2>4. left[k - 1] = g[m] /\ left[k] = g[m - 1]
      BY <2>1
  <2> QED
      BY <2>3, <2>4
<1> HIDE DEF left
<1>7. left[0] = FlattenSeq(s) \o t
  <2>1. CASE s = <<>>
    <3>1. n = 0 /\ FlattenSeq(s) = <<>>
        BY <2>1 DEF n, FlattenSeq
    <3> QED
        BY <3>1, <1>5
  <2>2. CASE s # <<>>
    <3>1. PICK f \in [1 .. n -> Seq(T)] :
              /\ f[1] = s[1]
              /\ \A i \in 2 .. n : f[i] = f[i - 1] \o s[i]
              /\ FlattenSeq(s) = f[n]
        BY <2>2, FlattenIs DEF n
    <3> DEFINE U == {k \in 0 .. n - 1 : f[k + 1] \o left[k + 1] = left[0]}
    <3>0. n - 1 \in Nat /\ 1 \in 1 .. n
        BY <2>2, <1>1 DEF n
    <3>2. 0 \in U
      <4>1. left[1 - 1] = s[1] \o left[1] /\ f[1] = s[1]
          BY <3>0, <3>1, <1>6
      <4>2. 1 - 1 = 0 /\ 0 + 1 = 1 /\ 0 \in 0 .. n - 1
          BY <3>0
      <4>3. f[1] \o left[1] = left[0]
          BY <4>1, <4>2
      <4> QED
          BY <4>2, <4>3
    <3>3. ASSUME NEW k \in 0 .. (n - 1) - 1, k \in U PROVE k + 1 \in U
      <4>1. k + 2 \in 2 .. n /\ k + 2 \in 1 .. n /\ (k + 2) - 1 = k + 1 /\ k + 1 \in 1 .. n /\ k + 1 \in 0 .. n - 1 /\ k + 2 \in 0 .. n
          BY <3>0, <1>1
      <4>2. f[k + 2] = f[k + 1] \o s[k + 2]
          BY <4>1, <3>1
      <4>3. left[k + 1] = s[k + 2] \o left[k + 2]
          BY <4>1, <1>6
      <4>4. f[k + 1] \in Seq(T) /\ s[k + 2] \in Seq(T) /\ left[k + 2] \in Seq(T)
          BY <4>1, <3>1, <1>1, <1>5 DEF S
      <4>8. (f[k + 1] \o s[k + 2]) \o left[k + 2] = f[k + 1] \o (s[k + 2] \o left[k + 2])
        <5> DEFINE a == f[k + 1]
                   b == s[k + 2]
                   c == left[k + 2]
        <5>1. a \in Seq(T) /\ b \in Seq(T) /\ c \in Seq(T)
            BY <4>4
        <5> HIDE DEF a, b, c
        <5>2. (a \o b) \o c = a \o (b \o c)
            BY <5>1, Associate
        <5> QED
            BY <5>2 DEF a, b, c
      <4>5. f[k + 2] \o left[k + 2] = f[k + 1] \o left[k + 1]
          BY <4>2, <4>3, <4>8
      <4>6. f[k + 1] \o left[k + 1] = left[0]
          BY <3>3
      <4>7. (k + 1) + 1 = k + 2
          BY <4>1
      <4> QED
          BY <4>1, <4>5, <4>6, <4>7
    <3> HIDE DEF U
    <3>4. 0 .. n - 1 \subseteq U
        BY <3>0, <3>2, <3>3, UpToInduction
    <3>5. n - 1 \in U /\ (n - 1) + 1 = n
        BY <3>0, <3>4, <1>1
    <3>6. f[n] \o left[n] = left[0]
        BY <3>5 DEF U
    <3> QED
        BY <3>1, <3>6, <1>5
  <2> QED
      BY <2>1, <2>2
<1> QED
    BY <1>5, <1>6, <1>7 DEF n, S, Cat, LeftBehind

\* What buffers consist of.
Entry == [width : {1, 4}, value : Int]

LEMMA EntryTypes ==
    /\ Buffer = Seq(Entry)
    /\ \A n \in Int : Byte(n) \in Entry /\ Float(n) \in Entry /\ Count(n) \in Entry
<1>1. MaxByte + 1 \in Nat \ {0}
    BY ZonesAssumption
<1>2. \A n \in Int : n % (MaxByte + 1) \in Int
    BY <1>1
<1> QED
    BY <1>2 DEF Buffer, Entry, Byte, Float, Count

LEMMA FloatsType == ASSUME NEW p \in Plane PROVE Floats(p) \in Buffer /\ Len(Floats(p)) = 2
<1>1. p[1] \in Int /\ p[2] \in Int
    BY DEF Plane
<1>2. Float(p[1]) \in Entry /\ Float(p[2]) \in Entry
    BY <1>1, EntryTypes
<1> QED
    BY <1>2, EntryTypes DEF Floats

\* The vertices as they are serialized.
LEMMA VerticesType ==
    ASSUME NEW vs \in Seq(Plane)
    PROVE  /\ [i \in DOMAIN vs |-> Floats(vs[i])] \in Seq(Buffer)
           /\ Len([i \in DOMAIN vs |-> Floats(vs[i])]) = Len(vs)
<1>1. DOMAIN vs = 1 .. Len(vs) /\ Len(vs) \in Nat /\ \A i \in 1 .. Len(vs) : Floats(vs[i]) \in Buffer
    BY FloatsType
<1> QED
    BY <1>1

LEMMA SerializePlainType == ASSUME NEW z \in Plain(Nat) PROVE SerializePlain(z) \in Buffer
<1>1. z.type \in {NEIGHBOR, CIRCLE, POLYGON}
    BY PlainTypes
<1>2. CASE z.type = NEIGHBOR
  <2>1. Byte(NEIGHBOR) \in Entry
      BY EntryTypes, Types
  <2> QED
      BY <2>1, <1>2, EntryTypes, Types DEF SerializePlain
<1>3. CASE z.type = CIRCLE
  <2>1. z.center \in Plane /\ z.radius \in Int
      BY <1>3, PlainTypes
  <2>2. <<Byte(CIRCLE)>> \in Buffer /\ Floats(z.center) \in Buffer /\ <<Float(z.radius)>> \in Buffer
      BY <2>1, EntryTypes, FloatsType, Types
  <2>3. SerializePlain(z) = <<Byte(CIRCLE)>> \o Floats(z.center) \o <<Float(z.radius)>>
      BY <1>3, Types DEF SerializePlain
  <2> QED
      BY <2>2, <2>3, EntryTypes
<1>4. CASE z.type = POLYGON
  <2> DEFINE fs == [i \in DOMAIN z.vertices |-> Floats(z.vertices[i])]
  <2>1. z.vertices \in Seq(Plane)
      BY <1>4, PlainTypes
  <2>2. fs \in Seq(Buffer) /\ Len(z.vertices) \in Int
      BY <2>1, VerticesType
  <2>3. SerializePlain(z) = <<Byte(POLYGON), Count(Len(z.vertices))>> \o FlattenSeq(fs)
      BY <1>4, Types DEF SerializePlain
  <2> HIDE DEF fs
  <2>4. FlattenSeq(fs) \in Seq(Entry)
      BY <2>2, EntryTypes, FlattenType
  <2>5. <<Byte(POLYGON), Count(Len(z.vertices))>> \in Seq(Entry)
      BY <2>2, EntryTypes, Types
  <2> QED
      BY <2>3, <2>4, <2>5, EntryTypes
<1> QED
    BY <1>1, <1>2, <1>3, <1>4

LEMMA SerializeIs ==
    /\ Serialize \in [Zone -> Buffer]
    /\ \A z \in Zone :
          Serialize[z] =
              IF z.type = COMPOSITE
              THEN <<Byte(COMPOSITE), Count(Len(z.components))>>
                   \o FlattenSeq([i \in DOMAIN z.components |-> Serialize[z.components[i]]])
              ELSE SerializePlain(z)
<1> DEFINE V == Buffer
           Body(f, z) ==
               IF z.type = COMPOSITE
               THEN <<Byte(COMPOSITE), Count(Len(z.components))>>
                    \o FlattenSeq([i \in DOMAIN z.components |-> f[z.components[i]]])
               ELSE SerializePlain(z)
           leaf == [z \in Plain(Nat) |-> SerializePlain(z)]
           join == [vs \in Seq(V) |-> <<Byte(COMPOSITE), Count(Len(vs))>> \o FlattenSeq(vs)]
<1>1. Serialize = CHOOSE f : f = [z \in Zone |-> Body(f, z)]
    BY DEF Serialize
<1>2. leaf \in [Plain(Nat) -> V]
    BY SerializePlainType
<1>3. join \in [Seq(V) -> V]
  <2> SUFFICES ASSUME NEW vs \in Seq(V)
               PROVE  <<Byte(COMPOSITE), Count(Len(vs))>> \o FlattenSeq(vs) \in V
      OBVIOUS
  <2>1. FlattenSeq(vs) \in Seq(Entry)
      BY EntryTypes, FlattenType
  <2>2. <<Byte(COMPOSITE), Count(Len(vs))>> \in Seq(Entry)
    <3>1. Len(vs) \in Int
        OBVIOUS
    <3> QED
        BY <3>1, EntryTypes, Types
  <2> QED
      BY <2>1, <2>2, EntryTypes
<1>4. \A z \in Plain(Nat) : leaf[z] = SerializePlain(z)
    OBVIOUS
<1>5. \A vs \in Seq(V) : join[vs] = <<Byte(COMPOSITE), Count(Len(vs))>> \o FlattenSeq(vs)
    OBVIOUS
<1> HIDE DEF leaf, join
<1>6. PICK f \in [Zone -> V] : Joined(f, leaf, join)
    BY <1>2, <1>3, ZoneRecursion
<1>7. ASSUME NEW z \in Zone PROVE f[z] = Body(f, z)
  <2>1. CASE z \in Plain(Nat) /\ z.type # COMPOSITE
    <3>1. f[z] = SerializePlain(z)
        BY <2>1, <1>4, <1>6 DEF Joined
    <3> QED
        BY <3>1, <2>1
  <2>2. CASE z.type = COMPOSITE /\ z.components \in Seq(Zone)
    <3> DEFINE vs == [i \in DOMAIN z.components |-> f[z.components[i]]]
    <3>1. vs \in Seq(V)
      <4> HIDE DEF V
      <4> QED
          BY <2>2, MapType
    <3>2. f[z] = join[vs]
        BY <2>2, <1>6 DEF Joined
    <3>3. Len(vs) = Len(z.components)
        BY <2>2
    <3>4. f[z] = <<Byte(COMPOSITE), Count(Len(vs))>> \o FlattenSeq(vs)
        BY <3>1, <3>2, <1>5
    <3> QED
        BY <3>3, <3>4, <2>2
  <2> QED
      BY <2>1, <2>2, ZoneTypes
<1>8. f = [z \in Zone |-> Body(f, z)]
  <2>1. f = [z \in Zone |-> f[z]]
      BY <1>6
  <2> QED
      BY <1>7, <2>1
<1> HIDE DEF Body, V
<1>9. Serialize = [z \in Zone |-> Body(Serialize, z)]
    BY <1>1, <1>8
<1>10. \A z \in Zone : Serialize[z] = Body(Serialize, z)
    BY <1>9
<1> DEFINE T == {z \in Zone : Serialize[z] \in V}
<1>11. Zone \subseteq T
  <2>1. Plain(Nat) \subseteq T
    <3> SUFFICES ASSUME NEW z \in Plain(Nat) PROVE z \in T
        OBVIOUS
    <3>1. z \in Zone /\ z.type # COMPOSITE
        BY PlainAreZones, PlainTypes
    <3> QED
        BY <3>1, <1>10, SerializePlainType DEF Body, V
  <2>2. ASSUME NEW z \in Zone, z.type = COMPOSITE, \A i \in DOMAIN z.components : z.components[i] \in T
        PROVE  z \in T
    <3> DEFINE vs == [i \in DOMAIN z.components |-> Serialize[z.components[i]]]
    <3>1. z.components \in Seq(Zone)
        BY <2>2, ZoneTypes
    <3>2. DOMAIN z.components = 1 .. Len(z.components) /\ Len(z.components) \in Nat
        BY <3>1
    <3>3. vs \in Seq(V)
        BY <2>2, <3>2
    <3>4. Serialize[z] = <<Byte(COMPOSITE), Count(Len(z.components))>> \o FlattenSeq(vs)
        BY <2>2, <1>10 DEF Body
    <3> HIDE DEF vs
    <3>5. FlattenSeq(vs) \in Seq(Entry)
        BY <3>3, EntryTypes, FlattenType DEF V
    <3>6. <<Byte(COMPOSITE), Count(Len(z.components))>> \in Seq(Entry)
        BY <3>2, EntryTypes, Types
    <3>7. Serialize[z] \in Seq(Entry)
        BY <3>4, <3>5, <3>6
    <3> QED
        BY <3>7, <2>2, EntryTypes DEF V
  <2> HIDE DEF T
  <2> QED
      BY <2>1, <2>2, ZoneInduction
<1>12. Serialize \in [Zone -> V]
    BY <1>9, <1>10, <1>11
<1> QED
    BY <1>10, <1>12 DEF V, Body
LEMMA RestoredIs ==
    /\ Restored[0] = [buf \in Buffer |-> DeserializeZone(buf, [b \in Buffer |-> Nothing])]
    /\ \A n \in 1 .. MaxDepth :
          Restored[n] = [buf \in Buffer |-> DeserializeZone(buf, Restored[n - 1])]
<1> DEFINE Z(d) == [buf \in Buffer |-> DeserializeZone(buf, d)]
           N == [b \in Buffer |-> Nothing]
           Levels(f, m) == f = [n \in 0 .. m |-> Z(IF n = 0 THEN N ELSE f[n - 1])]
           Solved == {m \in 0 .. MaxDepth : \E f : Levels(f, m)}
<1>0. MaxDepth \in Nat
    BY ZonesAssumption
<1>1. Restored = CHOOSE f : Levels(f, MaxDepth)
    BY DEF Restored
<1> HIDE DEF Z, N
<1>2. 0 \in Solved
  <2> DEFINE g == [n \in 0 .. 0 |-> Z(N)]
  <2>1. Levels(g, 0)
      OBVIOUS
  <2> HIDE DEF g
  <2> QED
      BY <2>1, <1>0
<1>3. ASSUME NEW m \in 0 .. MaxDepth - 1, m \in Solved PROVE m + 1 \in Solved
  <2>1. PICK f : Levels(f, m)
      BY <1>3
  <2> DEFINE g == [n \in 0 .. m + 1 |-> IF n = m + 1 THEN Z(f[m]) ELSE f[n]]
  <2>2. ASSUME NEW n \in 0 .. m + 1
        PROVE  g[n] = Z(IF n = 0 THEN N ELSE g[n - 1])
    <3>1. CASE n = m + 1
        BY <3>1
    <3>2. CASE n # m + 1 /\ n = 0
        BY <3>2, <2>1
    <3>3. CASE n # m + 1 /\ n # 0
      <4>1. n \in 0 .. m /\ n - 1 \in 0 .. m /\ n - 1 # m + 1
          BY <3>3
      <4>2. f[n] = Z(f[n - 1])
          BY <2>1, <4>1, <3>3
      <4>3. g[n] = f[n] /\ g[n - 1] = f[n - 1]
          BY <4>1, <3>3
      <4> QED
          BY <4>2, <4>3, <3>3
    <3> QED
        BY <3>1, <3>2, <3>3
  <2>3. g = [n \in 0 .. m + 1 |-> g[n]]
      OBVIOUS
  <2> HIDE DEF g
  <2>4. Levels(g, m + 1)
      BY <2>2, <2>3
  <2> QED
      BY <2>4, <1>0
<1> HIDE DEF Solved
<1>4. MaxDepth \in Solved
  <2>1. 0 .. MaxDepth \subseteq Solved
      BY <1>0, <1>2, <1>3, UpToInduction
  <2> QED
      BY <2>1, <1>0
<1>5. Levels(Restored, MaxDepth)
    BY <1>1, <1>4 DEF Solved
<1>6. Restored[0] = Z(N)
    BY <1>5, <1>0
<1>7. ASSUME NEW n \in 1 .. MaxDepth PROVE Restored[n] = Z(Restored[n - 1])
  <2>1. n \in 0 .. MaxDepth /\ n # 0
      BY <1>0
  <2> QED
      BY <1>5, <2>1
<1> QED
    BY <1>6, <1>7 DEF Z, N

\* What is in front of a buffer.
LEMMA OneInFront ==
    ASSUME NEW v \in Int, NEW b \in Buffer, NEW buf, buf = <<Byte(v)>> \o b
    PROVE  buf \in Buffer /\ ReadByte(buf) = v /\ After(buf, 1) = b
<1> DEFINE e == Byte(v)
<1>0. e.width = 1 /\ e.value = v /\ e \in Entry
    BY EntryTypes DEF Byte
<1> HIDE DEF e
<1>1. b \in Seq(Entry) /\ <<e>> \in Seq(Entry)
    BY <1>0, EntryTypes
<1>7. buf = <<e>> \o b
    BY DEF e
<1>2. /\ buf \in Seq(Entry) /\ Len(buf) = Len(b) + 1 /\ buf[1] = e /\ Len(b) \in Nat
      /\ \A i \in 1 .. Len(b) : buf[i + 1] = b[i]
    BY <1>1, <1>7
<1>3. buf # <<>> /\ Head(buf) = e
    BY <1>2
<1> DEFINE u == After(buf, 1)
<1>4. u \in Seq(Entry) /\ Len(u) = Len(b) /\ \A i \in 1 .. Len(b) : u[i] = buf[i + 1]
    BY <1>2 DEF After
<1> HIDE DEF u
<1>5. u = b
    BY <1>1, <1>2, <1>4, SeqEqual
<1>6. buf \in Buffer
    BY <1>2, EntryTypes
<1>8. ReadByte(buf) = v
    BY <1>0, <1>3 DEF ReadByte
<1> QED
    BY <1>5, <1>6, <1>8 DEF u

LEMMA TwoInFront ==
    ASSUME NEW d \in Entry, NEW e \in Entry, NEW b \in Buffer, NEW t \in Buffer
    PROVE  Cat(b, t) \in Buffer /\ Cat(Cat(<<d, e>>, b), t) = Cat(<<d>>, Cat(<<e>>, Cat(b, t)))
<1>1. <<e>> \o (b \o t) = (<<e>> \o b) \o t /\ b \o t \in Buffer
    BY EntryTypes
<1>4. <<d>> \in Seq(Entry) /\ <<e>> \in Seq(Entry) /\ b \in Seq(Entry)
    BY EntryTypes
<1>6. <<d>> \o <<e>> = <<d, e>>
  <2>1. <<d, e>> \in Seq(Entry) /\ Len(<<d, e>>) = 2 /\ <<d, e>>[1] = d /\ <<d, e>>[2] = e
      BY EntryTypes
  <2>2. /\ <<d>> \o <<e>> \in Seq(Entry) /\ Len(<<d>> \o <<e>>) = 2
        /\ (<<d>> \o <<e>>)[1] = d /\ (<<d>> \o <<e>>)[2] = e
      BY <1>4, ConcatIs
  <2>3. \A i \in 1 .. 2 : i = 1 \/ i = 2
      OBVIOUS
  <2> DEFINE u == <<d, e>>
             w == <<d>> \o <<e>>
  <2> HIDE DEF u, w
  <2>4. u \in Seq(Entry) /\ w \in Seq(Entry) /\ Len(w) = Len(u)
      BY <2>1, <2>2 DEF u, w
  <2>5. \A i \in 1 .. Len(w) : w[i] = u[i]
      BY <2>1, <2>2, <2>3 DEF u, w
  <2>6. w = u
      BY <2>4, <2>5, SeqEqual
  <2> QED
      BY <2>6 DEF u, w
<1>7. <<e>> \o b \in Seq(Entry)
    BY <1>4
<1>5. <<d>> \o (<<e>> \o b) = (<<d>> \o <<e>>) \o b
    BY <1>4, Associate
<1>2. <<d>> \o (<<e>> \o b) = <<d, e>> \o b /\ <<e>> \o b \in Seq(Entry) /\ <<d>> \in Seq(Entry)
    BY <1>4, <1>5, <1>6, <1>7
<1>3. <<d>> \o ((<<e>> \o b) \o t) = (<<d>> \o (<<e>> \o b)) \o t
    BY <1>2, EntryTypes, Associate
<1> QED
    BY <1>1, <1>2, <1>3 DEF Cat

\* Coordinates come back in pairs.
LEMMA FlattenPairs ==
    ASSUME NEW T, NEW s \in Seq(Seq(T)), \A i \in 1 .. Len(s) : Len(s[i]) = 2
    PROVE  /\ Len(FlattenSeq(s)) = 2 * Len(s)
           /\ \A i \in 1 .. Len(s) : FlattenSeq(s)[2 * i - 1] = s[i][1] /\ FlattenSeq(s)[2 * i] = s[i][2]
<1>1. CASE s = <<>>
    BY <1>1 DEF FlattenSeq
<1>2. CASE s # <<>>
  <2> DEFINE n == Len(s)
  <2>1. n \in Nat /\ 1 \in 1 .. n /\ n - 1 \in Nat
      BY <1>2
  <2>2. PICK f \in [1 .. n -> Seq(T)] :
            /\ f[1] = s[1]
            /\ \A i \in 2 .. n : f[i] = f[i - 1] \o s[i]
            /\ FlattenSeq(s) = f[n]
      BY <1>2, FlattenIs
  <2>3. \A i \in 1 .. n : Len(s[i]) = 2 /\ s[i] \in Seq(T)
      OBVIOUS
  <2> HIDE DEF n
  <2> DEFINE Pairs(k) == /\ Len(f[k]) = 2 * k
                         /\ \A i \in 1 .. k : f[k][2 * i - 1] = s[i][1] /\ f[k][2 * i] = s[i][2]
             U == {k \in 0 .. n - 1 : Pairs(k + 1)}
  <2>4. 0 \in U
    <3>1. Len(f[1]) = 2 /\ f[1][1] = s[1][1] /\ f[1][2] = s[1][2]
        BY <2>1, <2>2, <2>3
    <3>2. \A i \in 1 .. 1 : i = 1 /\ 2 * i - 1 = 1 /\ 2 * i = 2
        OBVIOUS
    <3>3. 0 + 1 = 1 /\ 2 * 1 = 2 /\ 0 \in 0 .. n - 1
        BY <2>1
    <3>4. Pairs(1)
        BY <3>1, <3>2, <3>3
    <3> HIDE DEF Pairs
    <3> QED
        BY <3>3, <3>4
  <2>5. ASSUME NEW k \in 0 .. (n - 1) - 1, k \in U PROVE k + 1 \in U
    <3> DEFINE a == f[k + 1]
               b == s[k + 2]
    <3>1. /\ k + 2 \in 2 .. n /\ k + 2 \in 1 .. n /\ (k + 2) - 1 = k + 1 /\ k + 1 \in 1 .. n
          /\ k + 1 \in 0 .. n - 1 /\ (k + 1) + 1 = k + 2
        BY <2>1
    <3>2. f[k + 2] = a \o b
        BY <3>1, <2>2
    <3>3. a \in Seq(T) /\ b \in Seq(T) /\ Len(b) = 2
        BY <3>1, <2>2, <2>3
    <3>4. Len(a) = 2 * (k + 1)
        BY <2>5
    <3>5. \A i \in 1 .. k + 1 : a[2 * i - 1] = s[i][1] /\ a[2 * i] = s[i][2]
        BY <2>5
    <3> HIDE DEF a, U
    <3>12. Len(a \o b) = Len(a) + Len(b)
      <4> HIDE DEF b
      <4> QED
          BY <3>3, ConcatIs
    <3>6. Len(a \o b) = 2 * (k + 2)
        BY <3>3, <3>4, <3>12
    <3>7. ASSUME NEW i \in 1 .. k + 1
          PROVE  (a \o b)[2 * i - 1] = a[2 * i - 1] /\ (a \o b)[2 * i] = a[2 * i]
      <4>1. 2 * i - 1 \in 1 .. Len(a) /\ 2 * i \in 1 .. Len(a)
          BY <3>4
      <4> QED
          BY <3>3, <4>1
    <3>8. (a \o b)[2 * (k + 2) - 1] = b[1] /\ (a \o b)[2 * (k + 2)] = b[2]
      <4>1. /\ 2 * (k + 2) - 1 \in 1 .. Len(a) + Len(b) /\ 2 * (k + 2) - 1 > Len(a)
            /\ 2 * (k + 2) \in 1 .. Len(a) + Len(b) /\ 2 * (k + 2) > Len(a)
            /\ 2 * (k + 2) - 1 - Len(a) = 1 /\ 2 * (k + 2) - Len(a) = 2
          BY <3>3, <3>4
      <4> QED
          BY <3>3, <4>1
    <3>9. \A i \in 1 .. k + 2 : i \in 1 .. k + 1 \/ i = k + 2
        BY <3>1
    <3>10. Pairs(k + 2)
        BY <3>2, <3>5, <3>6, <3>7, <3>8, <3>9
    <3> HIDE DEF Pairs
    <3> QED
        BY <3>1, <3>10 DEF U
  <2> HIDE DEF U
  <2>6. 0 .. n - 1 \subseteq U
      BY <2>1, <2>4, <2>5, UpToInduction
  <2>7. n - 1 \in U /\ (n - 1) + 1 = n
      BY <2>1, <2>6
  <2>8. Pairs(n)
      BY <2>7 DEF U
  <2> QED
      BY <2>2, <2>8 DEF n
<1> QED
    BY <1>1, <1>2

\* Parts that are restored one after the other.
InTurn(d, zs, left) ==
    \A k \in 1 .. Len(zs) : d[left[k - 1]] = [zone |-> zs[k], rest |-> left[k]]

LEMMA PartsRestored ==
    ASSUME NEW d, NEW zs \in Seq(Zone), NEW left, InTurn(d, zs, left)
    PROVE  DeserializeParts(d, left[0], Len(zs)) = [parts |-> zs, rest |-> left[Len(zs)]]
<1> DEFINE n == Len(zs)
           Levels(f) == f = [k \in 0 .. n |->
                               IF k = 0 THEN [parts |-> <<>>, rest |-> left[0]]
                               ELSE LET next == d[f[k - 1].rest]
                                    IN  [parts |-> Append(f[k - 1].parts, next.zone), rest |-> next.rest]]
           after == CHOOSE f : Levels(f)
           a == [k \in 0 .. n |-> [parts |-> SubSeq(zs, 1, k), rest |-> left[k]]]
<1>1. n \in Nat
    OBVIOUS
<1>2. DeserializeParts(d, left[0], Len(zs)) = after[n]
    BY DEF DeserializeParts
<1>3. SubSeq(zs, 1, 0) = <<>> /\ SubSeq(zs, 1, n) = zs
    OBVIOUS
<1>4. ASSUME NEW k \in 1 .. n PROVE Append(SubSeq(zs, 1, k - 1), zs[k]) = SubSeq(zs, 1, k)
    OBVIOUS
<1>5. ASSUME NEW k \in 1 .. n
      PROVE  LET next == d[a[k - 1].rest]
             IN  a[k] = [parts |-> Append(a[k - 1].parts, next.zone), rest |-> next.rest]
  <2>1. k - 1 \in 0 .. n /\ k \in 0 .. n
      BY <1>1
  <2>2. a[k - 1].rest = left[k - 1] /\ a[k - 1].parts = SubSeq(zs, 1, k - 1)
      BY <2>1
  <2>3. a[k] = [parts |-> SubSeq(zs, 1, k), rest |-> left[k]]
      BY <2>1
  <2> HIDE DEF a, n
  <2>4. d[left[k - 1]] = [zone |-> zs[k], rest |-> left[k]]
      BY DEF n, InTurn
  <2>5. d[left[k - 1]].zone = zs[k] /\ d[left[k - 1]].rest = left[k]
      BY <2>4
  <2> QED
      BY <2>2, <2>3, <2>5, <1>4
<1>6. a[0] = [parts |-> <<>>, rest |-> left[0]]
    BY <1>1, <1>3
<1> HIDE DEF n
<1>7. Levels(a)
  <2>1. a = [k \in 0 .. n |-> a[k]]
      OBVIOUS
  <2> HIDE DEF a
  <2>2. \A k \in 0 .. n : k = 0 \/ k \in 1 .. n
      BY <1>1
  <2> QED
      BY <1>5, <1>6, <2>1, <2>2
<1> HIDE DEF a
<1>8. Levels(after)
    BY <1>7
<1> HIDE DEF after
<1>9. after[0] = a[0]
    BY <1>1, <1>6, <1>8
<1> DEFINE U == {k \in 0 .. n : after[k] = a[k]}
<1>10. 0 \in U
    BY <1>1, <1>9
<1>11. ASSUME NEW k \in 0 .. n - 1, k \in U PROVE k + 1 \in U
  <2>1. k + 1 \in 1 .. n /\ k + 1 \in 0 .. n /\ (k + 1) - 1 = k /\ k + 1 # 0
      BY <1>1
  <2>2. LET next == d[after[k].rest]
        IN  after[k + 1] = [parts |-> Append(after[k].parts, next.zone), rest |-> next.rest]
      BY <1>8, <2>1
  <2>3. LET next == d[a[k].rest]
        IN  a[k + 1] = [parts |-> Append(a[k].parts, next.zone), rest |-> next.rest]
      BY <1>5, <2>1
  <2> QED
      BY <2>1, <2>2, <2>3, <1>11
<1> HIDE DEF U
<1>12. 0 .. n \subseteq U
    BY <1>1, <1>10, <1>11, UpToInduction
<1>13. after[n] = a[n] /\ n \in 0 .. n
    BY <1>1, <1>12 DEF U
<1>14. a[n] = [parts |-> SubSeq(zs, 1, n), rest |-> left[n]]
    BY <1>13 DEF a
<1> QED
    BY <1>2, <1>3, <1>13, <1>14 DEF n
\* What is restored from a buffer with a given first byte.
LEMMA TagIs ==
    ASSUME NEW d, NEW v, NEW buf, ReadByte(buf) = v, NEW body, After(buf, 1) = body
    PROVE  /\ v = NEIGHBOR => DeserializeZone(buf, d) = [zone |-> Neighbor, rest |-> body]
           /\ v = CIRCLE => DeserializeZone(buf, d) = DeserializeCircle(body)
  BY Types DEF DeserializeZone

LEMMA TagWithCountIs ==
    ASSUME NEW d, NEW v, NEW buf, ReadByte(buf) = v, NEW body, After(buf, 1) = body,
           NEW n, ReadByte(body) = n, NEW value, After(body, 1) = value
    PROVE  /\ v = POLYGON => DeserializeZone(buf, d) = DeserializePolygon(value, n)
           /\ v = COMPOSITE => DeserializeZone(buf, d) = DeserializeComposite(d, value, n)
  BY Types DEF DeserializeZone

\* Floats in front of a buffer are read, and the rest is left.
LEMMA FloatsInFront ==
    ASSUME NEW fs \in Buffer, \A i \in 1 .. Len(fs) : fs[i].width = 4, NEW t \in Buffer
    PROVE  /\ ReadFloats(fs \o t, Len(fs)) = [i \in 1 .. Len(fs) |-> fs[i].value]
           /\ After(fs \o t, Len(fs)) = t
<1> DEFINE b == fs \o t
           n == Len(fs)
<1>1. fs \in Seq(Entry) /\ t \in Seq(Entry) /\ n \in Nat /\ Len(t) \in Nat
    BY EntryTypes
<1>2. b \in Seq(Entry) /\ Len(b) = n + Len(t) /\ \A i \in 1 .. n : b[i] = fs[i]
    BY <1>1, ConcatIs
<1>3. \A i \in 1 .. Len(t) : b[n + i] = t[i]
    BY <1>1, ConcatIs
<1> DEFINE u == SubSeq(b, n + 1, Len(b))
<1> HIDE DEF b, n
<1>4. ReadFloats(b, n) = [i \in 1 .. n |-> b[i].value]
    BY <1>1, <1>2 DEF ReadFloats, n
<1>5. ReadFloats(b, n) = [i \in 1 .. n |-> fs[i].value]
    BY <1>2, <1>4
<1>6. u \in Seq(Entry) /\ Len(u) = Len(t) /\ \A i \in 1 .. Len(t) : u[i] = b[n + i]
    BY <1>1, <1>2
<1> HIDE DEF u
<1>7. u = t
    BY <1>1, <1>3, <1>6, SeqEqual
<1> QED
    BY <1>5, <1>7 DEF u, n, b, After

LEMMA NeighborRestored ==
    ASSUME NEW t \in Buffer, NEW d
    PROVE  DeserializeZone(SerializePlain(Neighbor) \o t, d) = [zone |-> Neighbor, rest |-> t]
<1> DEFINE buf == <<Byte(NEIGHBOR)>> \o t
<1>1. buf = <<Byte(NEIGHBOR)>> \o t /\ NEIGHBOR \in Int
    BY Types
<1> HIDE DEF buf
<1>2. ReadByte(buf) = NEIGHBOR /\ After(buf, 1) = t
    BY <1>1, OneInFront
<1>3. SerializePlain(Neighbor) = <<Byte(NEIGHBOR)>>
    BY Types DEF SerializePlain, Neighbor
<1>4. DeserializeZone(buf, d) = [zone |-> Neighbor, rest |-> t]
    BY <1>2, TagIs
<1> QED
    BY <1>3, <1>4 DEF buf

LEMMA CircleRestored ==
    ASSUME NEW c \in Plane, NEW r \in Nat, NEW t \in Buffer, NEW d
    PROVE  DeserializeZone(SerializePlain(Circle(c, r)) \o t, d) = [zone |-> Circle(c, r), rest |-> t]
<1> DEFINE fs == <<Float(c[1]), Float(c[2]), Float(r)>>
           body == fs \o t
           buf == <<Byte(CIRCLE)>> \o body
<1>1. Byte(CIRCLE) \in Entry /\ Float(c[1]) \in Entry /\ Float(c[2]) \in Entry /\ Float(r) \in Entry
  <2>1. c[1] \in Int /\ c[2] \in Int
      BY DEF Plane
  <2> QED
      BY <2>1, EntryTypes, Types
<1>2. fs \in Buffer /\ Len(fs) = 3 /\ \A i \in 1 .. 3 : fs[i].width = 4
  <2>1. \A i \in 1 .. 3 : i = 1 \/ i = 2 \/ i = 3
      OBVIOUS
  <2>2. fs \in Seq(Entry) /\ Len(fs) = 3
      BY <1>1
  <2>3. fs[1].width = 4 /\ fs[2].width = 4 /\ fs[3].width = 4
      BY DEF Float
  <2> QED
      BY <2>1, <2>2, <2>3, EntryTypes
<1>3. body \in Buffer
    BY <1>2, EntryTypes, ConcatIs
<1>4. SerializePlain(Circle(c, r)) \o t = buf
  <2>1. SerializePlain(Circle(c, r)) = <<Byte(CIRCLE)>> \o Floats(c) \o <<Float(r)>>
      BY Types DEF SerializePlain, Circle
  <2> DEFINE h == <<Byte(CIRCLE)>>
             p == Floats(c)
             q == <<Float(r)>>
  <2>2. h \in Seq(Entry) /\ p \in Seq(Entry) /\ q \in Seq(Entry) /\ t \in Seq(Entry)
      BY <1>1, EntryTypes, FloatsType
  <2>3. p \o q = fs
    <3>1. Len(p) = 2 /\ Len(q) = 1 /\ p[1] = fs[1] /\ p[2] = fs[2] /\ q[1] = fs[3]
        BY DEF Floats
    <3>2. fs \in Seq(Entry) /\ Len(fs) = 3
        BY <1>1
    <3>3. \A i \in 1 .. 3 : i = 1 \/ i = 2 \/ i = 3
        OBVIOUS
    <3> HIDE DEF p, q, fs
    <3>7. p \in Seq(Entry) /\ q \in Seq(Entry)
        BY <2>2
    <3> DEFINE w == p \o q
    <3>9. /\ p \o q \in Seq(Entry) /\ Len(p \o q) = Len(p) + Len(q)
          /\ \A i \in 1 .. Len(p) : (p \o q)[i] = p[i]
          /\ \A i \in 1 .. Len(q) : (p \o q)[Len(p) + i] = q[i]
        BY <3>7, ConcatIs
    <3> HIDE DEF w
    <3>10. /\ w \in Seq(Entry) /\ Len(w) = 2 + 1
           /\ \A i \in 1 .. 2 : w[i] = p[i]
           /\ \A i \in 1 .. 1 : w[2 + i] = q[i]
        BY <3>9, <3>1 DEF w
    <3>4. w \in Seq(Entry) /\ Len(w) = 3
        BY <3>10
    <3>5. w[1] = p[1] /\ w[2] = p[2] /\ w[3] = q[1]
      <4>1. 1 \in 1 .. 1 /\ 1 \in 1 .. 2 /\ 2 \in 1 .. 2 /\ 2 + 1 = 3
          OBVIOUS
      <4>2. w[2 + 1] = q[1]
          BY <3>10, <4>1
      <4> QED
          BY <3>10, <4>1, <4>2
    <3>6. \A i \in 1 .. 3 : w[i] = fs[i]
        BY <3>1, <3>3, <3>5
    <3>8. w = fs
        BY <3>2, <3>4, <3>6, SeqEqual
    <3> QED
        BY <3>8 DEF w
  <2> HIDE DEF h, p, q, fs
  <2>6. fs \in Seq(Entry)
      BY <2>2, <2>3, ConcatIs
  <2>7. (h \o p) \o q = h \o (p \o q)
      BY <2>2, Associate
  <2>4. (h \o p) \o q = h \o fs
      BY <2>3, <2>7
  <2>5. (h \o fs) \o t = h \o (fs \o t)
      BY <2>2, <2>6, Associate
  <2> QED
      BY <2>1, <2>4, <2>5 DEF h, p, q
<1> HIDE DEF fs
<1> DEFINE f == ReadFloats(body, 3)
<1>5. f = [i \in 1 .. 3 |-> fs[i].value] /\ After(body, 3) = t
    BY <1>2, FloatsInFront
<1>6. f # <<>> /\ f[1] = c[1] /\ f[2] = c[2] /\ f[3] = r
  <2>1. f[1] = fs[1].value /\ f[2] = fs[2].value /\ f[3] = fs[3].value
      BY <1>5
  <2>2. fs[1].value = c[1] /\ fs[2].value = c[2] /\ fs[3].value = r
      BY DEF fs, Float
  <2>3. DOMAIN f = 1 .. 3 /\ 1 \in 1 .. 3
      BY <1>5
  <2> HIDE DEF f
  <2>4. f # <<>>
      BY <2>3
  <2> QED
      BY <2>1, <2>2, <2>4
<1> HIDE DEF body
<1>11. buf = <<Byte(CIRCLE)>> \o body /\ CIRCLE \in Int
    BY Types
<1> HIDE DEF buf
<1>7. ReadByte(buf) = CIRCLE /\ After(buf, 1) = body
    BY <1>3, <1>11, OneInFront
<1>10. DeserializeZone(buf, d) = DeserializeCircle(body)
    BY <1>7, TagIs
<1>8. DeserializeZone(buf, d) = [zone |-> Circle(<<f[1], f[2]>>, f[3]), rest |-> After(body, 3)]
    BY <1>6, <1>10 DEF DeserializeCircle
<1>9. <<f[1], f[2]>> = c
    BY <1>6 DEF Plane
<1> HIDE DEF f
<1> QED
    BY <1>4, <1>5, <1>6, <1>8, <1>9

LEMMA PolygonRestored ==
    ASSUME NEW vs \in Seq(Plane), Len(vs) <= MaxByte, NEW t \in Buffer, NEW d
    PROVE  DeserializeZone(SerializePlain(Polygon(vs)) \o t, d) = [zone |-> Polygon(vs), rest |-> t]
<1> DEFINE n == Len(vs)
           ps == [i \in DOMAIN vs |-> Floats(vs[i])]
           fs == FlattenSeq(ps)
           value == fs \o t
           body == <<Byte(n)>> \o value
           buf == <<Byte(POLYGON)>> \o body
<1>1. n \in Nat /\ DOMAIN vs = 1 .. n /\ \A i \in 1 .. n : vs[i] \in Plane
    OBVIOUS
<1>2. Count(n) = Byte(n)
  <2>1. MaxByte \in Nat /\ n \in 0 .. MaxByte
      BY <1>1, ZonesAssumption
  <2>2. n % (MaxByte + 1) = n
      BY <2>1
  <2> QED
      BY <2>2 DEF Count
<1>3. ps \in Seq(Buffer) /\ Len(ps) = n
    BY VerticesType
<1>4. \A i \in 1 .. n : ps[i] = Floats(vs[i])
    BY <1>1
<1>5. Byte(POLYGON) \in Entry /\ Byte(n) \in Entry
    BY <1>1, EntryTypes, Types
<1>6. SerializePlain(Polygon(vs)) = <<Byte(POLYGON), Byte(n)>> \o fs
  <2>1. SerializePlain(Polygon(vs)) = <<Byte(POLYGON), Count(Len(vs))>> \o fs
      BY Types DEF SerializePlain, Polygon
  <2> QED
      BY <2>1, <1>2
<1> HIDE DEF n, ps
<1>7. fs \in Buffer
    BY <1>3, EntryTypes, FlattenType
<1>8. /\ Len(fs) = 2 * n
      /\ \A i \in 1 .. n : fs[2 * i - 1] = Float(vs[i][1]) /\ fs[2 * i] = Float(vs[i][2])
  <2>1. \A i \in 1 .. n : Len(ps[i]) = 2 /\ ps[i][1] = Float(vs[i][1]) /\ ps[i][2] = Float(vs[i][2])
    <3>1. \A p : Len(Floats(p)) = 2 /\ Floats(p)[1] = Float(p[1]) /\ Floats(p)[2] = Float(p[2])
        BY DEF Floats
    <3> QED
        BY <3>1, <1>4
  <2>2. ps \in Seq(Seq(Entry))
      BY <1>3, EntryTypes
  <2>3. /\ Len(FlattenSeq(ps)) = 2 * Len(ps)
        /\ \A i \in 1 .. Len(ps) : FlattenSeq(ps)[2 * i - 1] = ps[i][1] /\ FlattenSeq(ps)[2 * i] = ps[i][2]
      BY <1>3, <2>1, <2>2, FlattenPairs
  <2> QED
      BY <2>1, <2>3, <1>3
<1> HIDE DEF fs
<1>9. \A i \in 1 .. Len(fs) : fs[i].width = 4
  <2> SUFFICES ASSUME NEW j \in 1 .. 2 * n PROVE fs[j].width = 4
      BY <1>8
  <2>1. PICK i \in 1 .. n : j = 2 * i - 1 \/ j = 2 * i
    <3>1. CASE j % 2 = 0
      <4>1. j \div 2 \in 1 .. n /\ j = 2 * (j \div 2)
          BY <3>1, <1>1
      <4> QED
          BY <4>1
    <3>2. CASE j % 2 # 0
      <4>1. (j + 1) \div 2 \in 1 .. n /\ j = 2 * ((j + 1) \div 2) - 1
          BY <3>2, <1>1
      <4> QED
          BY <4>1
    <3> QED
        BY <3>1, <3>2
  <2>2. Float(vs[i][1]).width = 4 /\ Float(vs[i][2]).width = 4
      BY DEF Float
  <2>3. fs[2 * i - 1] = Float(vs[i][1]) /\ fs[2 * i] = Float(vs[i][2])
      BY <1>8
  <2> QED
      BY <2>1, <2>2, <2>3
<1>10. value \in Buffer /\ body \in Buffer /\ SerializePlain(Polygon(vs)) \o t = buf
  <2>1. (<<Byte(POLYGON), Byte(n)>> \o fs) \o t = buf /\ value \in Buffer
    <3>1. Cat(fs, t) \in Buffer
      <4> HIDE DEF buf
      <4> QED
          BY <1>5, <1>7, TwoInFront
    <3>2. Cat(Cat(<<Byte(POLYGON), Byte(n)>>, fs), t) = Cat(<<Byte(POLYGON)>>, Cat(<<Byte(n)>>, Cat(fs, t)))
      <4> HIDE DEF buf
      <4> QED
          BY <1>5, <1>7, TwoInFront
    <3> QED
        BY <3>1, <3>2 DEF Cat
  <2>3. body = <<Byte(n)>> \o value
      OBVIOUS
  <2>5. n \in Int
      BY <1>1
  <2>4. value \in Buffer
      BY <2>1
  <2> HIDE DEF value, body
  <2>2. body \in Buffer
      BY <2>3, <2>4, <2>5, OneInFront
  <2> QED
      BY <2>1, <2>2, <1>6
<1> DEFINE f == ReadFloats(value, 2 * n)
<1>11. f = [i \in 1 .. 2 * n |-> fs[i].value] /\ After(value, 2 * n) = t
    BY <1>7, <1>8, <1>9, FloatsInFront
<1> HIDE DEF f, value
<1>12. ~(Len(f) < 2 * n)
  <2>1. 2 * n \in Nat
      BY <1>1
  <2>2. Len(f) = 2 * n
      BY <2>1, <1>11
  <2> QED
      BY <2>1, <2>2
<1>13. [i \in 1 .. n |-> <<f[2 * i - 1], f[2 * i]>>] = vs
  <2>1. ASSUME NEW i \in 1 .. n PROVE <<f[2 * i - 1], f[2 * i]>> = vs[i]
    <3>1. 2 * i - 1 \in 1 .. 2 * n /\ 2 * i \in 1 .. 2 * n
        BY <1>1
    <3>2. f[2 * i - 1] = fs[2 * i - 1].value /\ f[2 * i] = fs[2 * i].value
        BY <3>1, <1>11
    <3>4. fs[2 * i - 1] = Float(vs[i][1]) /\ fs[2 * i] = Float(vs[i][2])
        BY <1>8
    <3>5. Float(vs[i][1]).value = vs[i][1] /\ Float(vs[i][2]).value = vs[i][2]
        BY DEF Float
    <3>3. f[2 * i - 1] = vs[i][1] /\ f[2 * i] = vs[i][2]
        BY <3>2, <3>4, <3>5
    <3> QED
        BY <3>3, <1>1 DEF Plane
  <2>2. vs = [i \in 1 .. n |-> vs[i]]
      BY <1>1
  <2> QED
      BY <2>1, <2>2
<1>18. /\ body = <<Byte(n)>> \o value /\ n \in Int
       /\ buf = <<Byte(POLYGON)>> \o body /\ POLYGON \in Int
    BY <1>1, Types
<1> HIDE DEF body, buf
<1>14. ReadByte(body) = n /\ After(body, 1) = value
    BY <1>10, <1>18, OneInFront
<1>15. ReadByte(buf) = POLYGON /\ After(buf, 1) = body
    BY <1>10, <1>18, OneInFront
<1>17. DeserializeZone(buf, d) = DeserializePolygon(value, n)
    BY <1>14, <1>15, TagWithCountIs
<1>16. DeserializeZone(buf, d) = [zone |-> Polygon([i \in 1 .. n |-> <<f[2 * i - 1], f[2 * i]>>]),
                                  rest |-> After(value, 2 * n)]
    BY <1>12, <1>17 DEF DeserializePolygon, f
<1> QED
    BY <1>10, <1>11, <1>13, <1>16
LEMMA CompositeRestored ==
    ASSUME NEW zs \in Seq(Zone), Len(zs) <= MaxByte, NEW d,
           \A i \in 1 .. Len(zs) : \A u \in Buffer :
               d[Cat(Serialize[zs[i]], u)] = [zone |-> zs[i], rest |-> u],
           NEW t \in Buffer, Composite(zs) \in Zone
    PROVE  DeserializeZone(Cat(Serialize[Composite(zs)], t), d) = [zone |-> Composite(zs), rest |-> t]
<1> DEFINE n == Len(zs)
           s == [i \in DOMAIN zs |-> Serialize[zs[i]]]
           fs == FlattenSeq(s)
           value == fs \o t
           body == <<Byte(n)>> \o value
           buf == <<Byte(COMPOSITE)>> \o body
<1>1. n \in Nat /\ DOMAIN zs = 1 .. n /\ \A i \in 1 .. n : zs[i] \in Zone
    OBVIOUS
<1>2. Count(n) = Byte(n)
  <2>1. MaxByte \in Nat /\ n \in 0 .. MaxByte
      BY <1>1, ZonesAssumption
  <2>2. n % (MaxByte + 1) = n
      BY <2>1
  <2> QED
      BY <2>2 DEF Count
<1>3. s \in Seq(Buffer) /\ Len(s) = n
  <2>1. \A i \in 1 .. n : Serialize[zs[i]] \in Buffer
      BY <1>1, SerializeIs
  <2> QED
      BY <2>1, <1>1
<1>4. \A i \in 1 .. n : s[i] = Serialize[zs[i]]
    BY <1>1
<1>5. Byte(COMPOSITE) \in Entry /\ Byte(n) \in Entry
    BY <1>1, EntryTypes, Types
<1>6. Serialize[Composite(zs)] = <<Byte(COMPOSITE), Byte(n)>> \o fs
  <2>1. Composite(zs).type = COMPOSITE /\ Composite(zs).components = zs
      BY DEF Composite
  <2>2. Serialize[Composite(zs)] = <<Byte(COMPOSITE), Count(n)>> \o fs
      BY <2>1, SerializeIs
  <2> QED
      BY <2>2, <1>2
<1> HIDE DEF n, s
<1>7. fs \in Buffer
    BY <1>3, EntryTypes, FlattenType
<1> HIDE DEF fs
<1>8. value \in Buffer /\ body \in Buffer /\ Cat(Serialize[Composite(zs)], t) = buf
  <2>1. (<<Byte(COMPOSITE), Byte(n)>> \o fs) \o t = buf /\ value \in Buffer
    <3>1. Cat(fs, t) \in Buffer
      <4> HIDE DEF buf
      <4> QED
          BY <1>5, <1>7, TwoInFront
    <3>2. Cat(Cat(<<Byte(COMPOSITE), Byte(n)>>, fs), t) = Cat(<<Byte(COMPOSITE)>>, Cat(<<Byte(n)>>, Cat(fs, t)))
      <4> HIDE DEF buf
      <4> QED
          BY <1>5, <1>7, TwoInFront
    <3> QED
        BY <3>1, <3>2 DEF Cat
  <2>3. body = <<Byte(n)>> \o value
      OBVIOUS
  <2>5. n \in Int
      BY <1>1
  <2>4. value \in Buffer
      BY <2>1
  <2> HIDE DEF value, body
  <2>2. body \in Buffer
      BY <2>3, <2>4, <2>5, OneInFront
  <2> QED
      BY <2>1, <2>2, <1>6 DEF Cat
<1>9. /\ body = <<Byte(n)>> \o value /\ n \in Int
      /\ buf = <<Byte(COMPOSITE)>> \o body /\ COMPOSITE \in Int
    BY <1>1, Types
<1>10. PICK left \in [0 .. n -> Buffer] :
           /\ left[0] = value
           /\ left[n] = t
           /\ \A k \in 1 .. n : left[k - 1] = Cat(s[k], left[k])
  <2>1. s \in Seq(Seq(Entry)) /\ t \in Seq(Entry)
      BY <1>3, EntryTypes
  <2>2. \E left \in [0 .. Len(s) -> Seq(Entry)] : LeftBehind(left, s, t)
      BY <2>1, FlattenSuffix
  <2> QED
      BY <2>2, <1>3, EntryTypes DEF fs, Cat, LeftBehind
<1>11. ASSUME NEW k \in 1 .. n PROVE d[left[k - 1]] = [zone |-> zs[k], rest |-> left[k]]
  <2>1. left[k] \in Buffer
      BY <1>1, <1>10
  <2>2. d[Cat(Serialize[zs[k]], left[k])] = [zone |-> zs[k], rest |-> left[k]]
      BY <2>1 DEF n
  <2>3. left[k - 1] = Cat(Serialize[zs[k]], left[k])
      BY <1>4, <1>10
  <2> QED
      BY <2>2, <2>3
<1>12. DeserializeParts(d, value, n) = [parts |-> zs, rest |-> t]
  <2>1. DeserializeParts(d, left[0], n) = [parts |-> zs, rest |-> left[n]]
    <3>1. InTurn(d, zs, left)
        BY <1>11 DEF n, InTurn
    <3>2. DeserializeParts(d, left[0], Len(zs)) = [parts |-> zs, rest |-> left[Len(zs)]]
        BY <3>1, PartsRestored
    <3> QED
        BY <3>2 DEF n
  <2>2. left[0] = value /\ left[n] = t
      BY <1>10
  <2> HIDE DEF value, body, buf
  <2> QED
      BY <2>1, <2>2
<1> HIDE DEF value, body, buf
<1>13. ReadByte(body) = n /\ After(body, 1) = value
    BY <1>8, <1>9, OneInFront
<1>14. ReadByte(buf) = COMPOSITE /\ After(buf, 1) = body
    BY <1>8, <1>9, OneInFront
<1>15. DeserializeZone(buf, d) = DeserializeComposite(d, value, n)
    BY <1>13, <1>14, TagWithCountIs
<1>16. DeserializeZone(buf, d) = [zone |-> Composite(zs), rest |-> t]
    BY <1>12, <1>15 DEF DeserializeComposite
<1> QED
    BY <1>8, <1>16

LEMMA PlainRestored ==
    ASSUME NEW z \in Plain(0 .. MaxByte), NEW t \in Buffer, NEW d
    PROVE  DeserializeZone(Cat(SerializePlain(z), t), d) = [zone |-> z, rest |-> t]
<1>1. CASE z = Neighbor
    BY <1>1, NeighborRestored DEF Cat
<1>2. CASE z \in [type : {CIRCLE}, center : Plane, radius : Nat]
  <2>1. z = Circle(z.center, z.radius) /\ z.center \in Plane /\ z.radius \in Nat
      BY <1>2 DEF Circle
  <2> DEFINE c == z.center
             r == z.radius
  <2> HIDE DEF c, r
  <2>2. z = Circle(c, r) /\ c \in Plane /\ r \in Nat
      BY <2>1 DEF c, r
  <2>3. DeserializeZone(SerializePlain(Circle(c, r)) \o t, d) = [zone |-> Circle(c, r), rest |-> t]
      BY <2>2, CircleRestored
  <2> QED
      BY <2>2, <2>3 DEF Cat
<1>3. CASE z \in [type : {POLYGON}, vertices : {vs \in Seq(Plane) : Len(vs) \in 0 .. MaxByte}]
  <2>1. z = Polygon(z.vertices) /\ z.vertices \in Seq(Plane) /\ Len(z.vertices) \in 0 .. MaxByte
      BY <1>3 DEF Polygon
  <2> DEFINE vs == z.vertices
  <2> HIDE DEF vs
  <2>2. z = Polygon(vs) /\ vs \in Seq(Plane) /\ Len(vs) <= MaxByte
      BY <2>1 DEF vs
  <2>3. DeserializeZone(SerializePlain(Polygon(vs)) \o t, d) = [zone |-> Polygon(vs), rest |-> t]
      BY <2>2, PolygonRestored
  <2> QED
      BY <2>2, <2>3 DEF Cat
<1> QED
    BY <1>1, <1>2, <1>3 DEF Plain

\* What comes behind a zone does not matter to it, and is left.
LEMMA BuiltRestored ==
    ASSUME NEW n \in 0 .. MaxDepth, NEW z \in Built[n], NEW t \in Buffer
    PROVE  Restored[n][Cat(Serialize[z], t)] = [zone |-> z, rest |-> t]
<1> DEFINE Back(m, x, u) == Restored[m][Cat(Serialize[x], u)] = [zone |-> x, rest |-> u]
           T == {m \in 0 .. MaxDepth : \A x \in Built[m] : \A u \in Buffer : Back(m, x, u)}
<1>0. MaxDepth \in Nat
    BY ZonesAssumption
<1>1. \A m \in 0 .. MaxDepth : \A x \in Built[m] :
          /\ x \in Zone
          /\ \/ x \in Plain(0 .. MaxByte) /\ x.type # COMPOSITE
             \/ /\ m # 0 /\ x = Composite(x.components)
                /\ x.components \in Seq(Built[m - 1]) /\ Len(x.components) \in 0 .. MaxByte
  <2> SUFFICES ASSUME NEW m \in 0 .. MaxDepth, NEW x \in Built[m]
               PROVE  /\ x \in Zone
                      /\ \/ x \in Plain(0 .. MaxByte) /\ x.type # COMPOSITE
                         \/ /\ m # 0 /\ x = Composite(x.components)
                            /\ x.components \in Seq(Built[m - 1]) /\ Len(x.components) \in 0 .. MaxByte
      OBVIOUS
  <2>1. x \in Nested(Nat)[m]
      BY BuiltAreZones
  <2>2. x \in Zone
      BY <2>1, NestedInZone
  <2>3. x \in Nested(0 .. MaxByte)[m]
      BY DEF Built
  <2> DEFINE counts == 0 .. MaxByte
  <2> HIDE DEF counts
  <2>4. \/ x \in Plain(counts) /\ x.type # COMPOSITE
        \/ /\ m # 0 /\ x = Composite(x.components) /\ x.type = COMPOSITE
           /\ x.components \in Seq(Nested(counts)[m - 1]) /\ Len(x.components) \in counts
    <3>1. x \in Nested(counts)[m]
        BY <2>3 DEF counts
    <3> QED
        BY <3>1, NestedTypes
  <2> QED
      BY <2>2, <2>4 DEF Built, counts
<1>2. \A x \in Zone, u \in Buffer : Cat(Serialize[x], u) \in Buffer
  <2> SUFFICES ASSUME NEW x \in Zone, NEW u \in Buffer PROVE Cat(Serialize[x], u) \in Buffer
      OBVIOUS
  <2>1. Serialize[x] \in Seq(Entry) /\ u \in Seq(Entry)
      BY SerializeIs, EntryTypes
  <2>2. Cat(Serialize[x], u) \in Seq(Entry)
      BY <2>1, ConcatIs DEF Cat
  <2> QED
      BY <2>2, EntryTypes
<1>3. ASSUME NEW m \in 0 .. MaxDepth, NEW d, NEW x \in Built[m], x \in Plain(0 .. MaxByte), x.type # COMPOSITE,
             NEW u \in Buffer, Restored[m] = [buf \in Buffer |-> DeserializeZone(buf, d)]
      PROVE  Back(m, x, u)
  <2>1. x \in Zone
      BY <1>1, <1>3
  <2>2. Serialize[x] = SerializePlain(x)
      BY <2>1, <1>3, SerializeIs
  <2>3. DeserializeZone(Cat(SerializePlain(x), u), d) = [zone |-> x, rest |-> u]
      BY <1>3, PlainRestored
  <2> QED
      BY <2>1, <2>2, <2>3, <1>2, <1>3
<1>4. 0 \in T
  <2> SUFFICES ASSUME NEW x \in Built[0], NEW u \in Buffer PROVE Back(0, x, u)
      BY <1>0
  <2>4. 0 \in 0 .. MaxDepth
      BY <1>0
  <2>5. \/ x \in Plain(0 .. MaxByte) /\ x.type # COMPOSITE
        \/ /\ 0 # 0 /\ x = Composite(x.components)
           /\ x.components \in Seq(Built[0 - 1]) /\ Len(x.components) \in 0 .. MaxByte
      BY <1>1, <2>4
  <2>1. x \in Plain(0 .. MaxByte) /\ x.type # COMPOSITE /\ 0 \in 0 .. MaxDepth
      BY <2>4, <2>5
  <2>2. Restored[0] = [buf \in Buffer |-> DeserializeZone(buf, [b \in Buffer |-> Nothing])]
      BY RestoredIs
  <2> DEFINE d == [b \in Buffer |-> Nothing]
  <2> HIDE DEF Back, d
  <2>3. Restored[0] = [buf \in Buffer |-> DeserializeZone(buf, d)]
      BY <2>2 DEF d
  <2> QED
      BY <2>1, <2>3, <1>3
<1>5. ASSUME NEW m \in 0 .. MaxDepth - 1, m \in T PROVE m + 1 \in T
  <2>0. m + 1 \in 1 .. MaxDepth /\ m + 1 \in 0 .. MaxDepth /\ (m + 1) - 1 = m /\ m \in 0 .. MaxDepth
      BY <1>0
  <2> SUFFICES ASSUME NEW x \in Built[m + 1], NEW u \in Buffer PROVE Back(m + 1, x, u)
      BY <2>0
  <2>1. Restored[m + 1] = [buf \in Buffer |-> DeserializeZone(buf, Restored[m])]
      BY <2>0, RestoredIs
  <2>2. x \in Zone
      BY <1>1, <2>0
  <2>3. CASE x \in Plain(0 .. MaxByte) /\ x.type # COMPOSITE
    <3> HIDE DEF Back
    <3> QED
        BY <2>0, <2>1, <2>3, <1>3
  <2>4. CASE /\ x = Composite(x.components)
             /\ x.components \in Seq(Built[m]) /\ Len(x.components) \in 0 .. MaxByte
    <3> DEFINE zs == x.components
               d == Restored[m]
    <3>1. x = Composite(zs) /\ zs \in Seq(Built[m]) /\ Len(zs) \in 0 .. MaxByte
        BY <2>4
    <3> HIDE DEF zs
    <3>2. Len(zs) <= MaxByte /\ zs \in Seq(Zone) /\ \A i \in 1 .. Len(zs) : zs[i] \in Built[m]
      <4>1. \A y \in Built[m] : y \in Zone
          BY <1>1, <2>0
      <4> QED
          BY <3>1, <4>1
    <3>3. \A i \in 1 .. Len(zs) : \A v \in Buffer : d[Cat(Serialize[zs[i]], v)] = [zone |-> zs[i], rest |-> v]
        BY <3>2, <1>5
    <3> HIDE DEF d
    <3>4. DeserializeZone(Cat(Serialize[Composite(zs)], u), d) = [zone |-> Composite(zs), rest |-> u]
        BY <3>1, <3>2, <3>3, <2>2, CompositeRestored
    <3> QED
        BY <3>1, <3>4, <2>1, <2>2, <1>2 DEF d
  <2> QED
      BY <2>0, <2>3, <2>4, <1>1
<1> HIDE DEF T
<1>6. 0 .. MaxDepth \subseteq T
    BY <1>0, <1>4, <1>5, UpToInduction
<1> QED
    BY <1>6 DEF T

-----------------------------------------------------------------------------
(***************************************************************************)
(* The zone of the application.                                            *)
(***************************************************************************)
\* Its counts are in one byte, and its depth is bounded.
Fits == zone \in Built[MaxDepth]

LEMMA BuiltIs ==
    /\ \A x \in Plain(0 .. MaxByte) : x \in Built[MaxDepth]
    /\ \A zs : zs \in Seq(Built[MaxDepth - 1]) /\ Len(zs) \in 0 .. MaxByte => Composite(zs) \in Built[MaxDepth]
    /\ \A x \in Built[MaxDepth] : x.type = COMPOSITE =>
          /\ x.components \in Seq(Built[MaxDepth - 1]) /\ Len(x.components) \in 0 .. MaxByte
          /\ x = Composite(x.components)
<1>1. MaxDepth \in 1 .. MaxDepth /\ MaxDepth \in 0 .. MaxDepth
    BY ZonesAssumption
<1>2. Built[MaxDepth] = Plain(0 .. MaxByte) \cup Composites(0 .. MaxByte, Built[MaxDepth - 1])
    BY <1>1, NestedIs DEF Built
<1>3. \A zs : zs \in Seq(Built[MaxDepth - 1]) /\ Len(zs) \in 0 .. MaxByte =>
          Composite(zs) \in Composites(0 .. MaxByte, Built[MaxDepth - 1])
    BY DEF Composites, Composite
<1>4. \A x \in Built[MaxDepth] : x.type = COMPOSITE =>
          /\ x.components \in Seq(Built[MaxDepth - 1]) /\ Len(x.components) \in 0 .. MaxByte
          /\ x = Composite(x.components)
    BY <1>1, NestedTypes DEF Built
<1> QED
    BY <1>2, <1>3, <1>4

LEMMA AppendedFits ==
    ASSUME NEW x \in Built[MaxDepth], x.type = COMPOSITE, NEW part \in Built[MaxDepth - 1]
    PROVE  Appended(x, part) \in Built[MaxDepth]
<1> DEFINE zs == x.components
<1>1. zs \in Seq(Built[MaxDepth - 1]) /\ Len(zs) \in 0 .. MaxByte /\ x = Composite(zs)
    BY BuiltIs
<1>2. CASE Len(zs) + 1 > MaxByte
    BY <1>2 DEF Appended
<1>3. CASE ~(Len(zs) + 1 > MaxByte)
  <2>1. Appended(x, part) = [x EXCEPT !.components = Append(@, part)]
      BY <1>3 DEF Appended
  <2> HIDE DEF zs
  <2>2. [Composite(zs) EXCEPT !.components = Append(@, part)] = Composite(Append(zs, part))
      BY DEF Composite
  <2>3. Append(zs, part) \in Seq(Built[MaxDepth - 1]) /\ Len(Append(zs, part)) = Len(zs) + 1
      BY <1>1
  <2>4. MaxByte \in Nat
      BY ZonesAssumption
  <2>5. Len(Append(zs, part)) \in 0 .. MaxByte
      BY <2>3, <2>4, <1>1, <1>3
  <2>6. Composite(Append(zs, part)) \in Built[MaxDepth]
      BY <2>3, <2>5, BuiltIs
  <2> QED
      BY <2>1, <2>2, <2>6, <1>1
<1> QED
    BY <1>2, <1>3

LEMMA FitsInitially == Init => Fits
<1>1. Neighbor \in Plain(0 .. MaxByte)
    BY DEF Plain
<1> QED
    BY <1>1, BuiltIs DEF Init, Fits

LEMMA StaysFit == Fits /\ [Next]_zone => Fits'
<1> SUFFICES ASSUME Fits, [Next]_zone PROVE zone' \in Built[MaxDepth]
    BY DEF Fits
<1> USE DEF Fits
<1>1. ASSUME MakeCircle PROVE zone' \in Built[MaxDepth]
    BY <1>1, ZonesAssumption DEF MakeCircle
<1>2. ASSUME MakePolygon PROVE zone' \in Built[MaxDepth]
  <2>1. PICK n \in 0 .. MaxByte : \E vs \in [1 .. n -> Corner \X Corner] : zone' = Polygon(vs)
      BY <1>2 DEF MakePolygon
  <2>5. PICK vs \in [1 .. n -> Corner \X Corner] : zone' = Polygon(vs)
      BY <2>1
  <2>2. \A i \in 1 .. n : vs[i] \in Plane
      BY ZonesAssumption DEF Plane
  <2>3. vs \in Seq(Plane) /\ Len(vs) = n
      BY <2>2, ZonesAssumption
  <2>4. Polygon(vs) \in Plain(0 .. MaxByte)
      BY <2>3 DEF Plain, Polygon
  <2> QED
      BY <2>4, <2>5, BuiltIs
<1>3. ASSUME MakeComposite PROVE zone' \in Built[MaxDepth]
  <2>1. <<>> \in Seq(Built[MaxDepth - 1]) /\ Len(<<>>) \in 0 .. MaxByte
      BY ZonesAssumption
  <2> QED
      BY <1>3, <2>1, BuiltIs DEF MakeComposite
<1>4. ASSUME NEW part \in Part, AppendPart(part) PROVE zone' \in Built[MaxDepth]
    BY <1>4, AppendedFits DEF AppendPart
<1>5. ASSUME Enclose PROVE zone' \in Built[MaxDepth]
  <2>1. <<>> \in Seq(Built[MaxDepth - 1]) /\ Len(<<>>) \in 0 .. MaxByte
      BY ZonesAssumption
  <2>2. Composite(<<>>) \in Built[MaxDepth] /\ Composite(<<>>).type = COMPOSITE
      BY <2>1, BuiltIs DEF Composite
  <2> QED
      BY <1>5, <2>2, AppendedFits DEF Enclose
<1>6. CASE UNCHANGED zone
    BY <1>6
<1> QED
    BY <1>1, <1>2, <1>3, <1>4, <1>5, <1>6 DEF Next

\* Every zone an application puts together has counts that are in one byte
\* (caf-zor.cpp): the limits on vertices and parts are checked in time.
THEOREM ZonesFit == Spec => []Fits
  BY FitsInitially, StaysFit, PTL DEF Spec

\* A forwarder restores exactly the zone the producer put in the name, and
\* nothing of the name is left (ZoR::Serialize and ZoR::Deserialize).
THEOREM ZonesRoundTrip == Spec => []RoundTrip
<1>1. Fits => RoundTrip
  <2> SUFFICES ASSUME Fits PROVE RoundTrip
      OBVIOUS
  <2>1. MaxDepth \in 0 .. MaxDepth
      BY ZonesAssumption
  <2>2. zone \in Zone
      BY <2>1, BuiltAreZones DEF Fits, Zone
  <2>3. Serialize[zone] \in Seq(Entry) /\ <<>> \in Buffer
      BY <2>2, SerializeIs, EntryTypes
  <2>4. Cat(Serialize[zone], <<>>) = Serialize[zone]
      BY <2>3 DEF Cat
  <2>5. Restored[MaxDepth][Cat(Serialize[zone], <<>>)] = [zone |-> zone, rest |-> <<>>]
      BY <2>1, <2>3, BuiltRestored DEF Fits
  <2> QED
      BY <2>4, <2>5 DEF RoundTrip, Deserialize
<1> QED
    BY <1>1, ZonesFit, PTL

-----------------------------------------------------------------------------
(***************************************************************************)
(* Sides of lines.                                                         *)
(***************************************************************************)
LEMMA SignOfProduct ==
    ASSUME NEW u \in Int, NEW t \in Int
    PROVE  /\ u * t \in Int
           /\ u > 0 /\ t > 0 => u * t > 0
           /\ u > 0 /\ t < 0 => u * t < 0
           /\ u < 0 /\ t > 0 => u * t < 0
           /\ u < 0 /\ t < 0 => u * t > 0
           /\ u = 0 => u * t = 0
           /\ t = 0 => u * t = 0
  OBVIOUS

Above(p, a) == a[2] > p[2]

LEMMA CrossesIs ==
    ASSUME NEW p \in Plane, NEW a \in Plane, NEW b \in Plane
    PROVE  /\ Turn(p, a, b) \in Int
           /\ Turn(p, b, a) = - Turn(p, a, b)
           /\ Crosses(p, b, a) <=>
                  \/ Above(p, a) /\ ~Above(p, b) /\ Turn(p, a, b) < 0
                  \/ ~Above(p, a) /\ Above(p, b) /\ Turn(p, a, b) > 0
<1> DEFINE p1 == p[1]  p2 == p[2]  a1 == a[1]  a2 == a[2]  b1 == b[1]  b2 == b[2]
<1>1. p1 \in Int /\ p2 \in Int /\ a1 \in Int /\ a2 \in Int /\ b1 \in Int /\ b2 \in Int
    BY DEF Plane
<1>2. Turn(p, a, b) = (a1 - p1) * (b2 - p2) - (a2 - p2) * (b1 - p1)
    BY DEF Turn
<1>3. Turn(p, b, a) = (b1 - p1) * (a2 - p2) - (b2 - p2) * (a1 - p1)
    BY DEF Turn
<1>4. Crosses(p, b, a) <=>
          /\ (b2 > p2) # (a2 > p2)
          /\ IF a2 - b2 > 0 THEN (p1 - b1) * (a2 - b2) < (a1 - b1) * (p2 - b2)
             ELSE (p1 - b1) * (a2 - b2) > (a1 - b1) * (p2 - b2)
    BY DEF Crosses
<1>5. (Above(p, a) <=> a2 > p2) /\ (Above(p, b) <=> b2 > p2)
    BY DEF Above
<1> HIDE DEF p1, p2, a1, a2, b1, b2
<1> DEFINE t == (a1 - p1) * (b2 - p2) - (a2 - p2) * (b1 - p1)
           m == (p1 - b1) * (a2 - b2)
           k == (a1 - b1) * (p2 - b2)
<1>6. t \in Int /\ m \in Int /\ k \in Int /\ m - k = t
    BY <1>1
<1>7. (b1 - p1) * (a2 - p2) - (b2 - p2) * (a1 - p1) = - t
    BY <1>1
<1>8. Turn(p, a, b) = t /\ Turn(p, b, a) = - t
    BY <1>2, <1>3, <1>7
<1>9. Crosses(p, b, a) <=>
          /\ (b2 > p2) # (a2 > p2)
          /\ IF a2 - b2 > 0 THEN m < k ELSE m > k
    BY <1>4
<1> HIDE DEF t, m, k
<1>10. Crosses(p, b, a) <=> (a2 > p2 /\ ~(b2 > p2) /\ t < 0) \/ (~(a2 > p2) /\ b2 > p2 /\ t > 0)
    BY <1>1, <1>6, <1>9
<1> QED
    BY <1>5, <1>6, <1>8, <1>10

LEMMA CrossingsTurn ==
    ASSUME NEW p \in Plane, NEW a \in Plane, NEW b \in Plane
    PROVE  (Crosses(p, a, b) <=> Crosses(p, b, a)) /\ ~Crosses(p, a, a)
<1> DEFINE t == Turn(p, a, b)  u == Turn(p, b, a)
<1>1. t \in Int /\ u = - t
    BY CrossesIs
<1>2. Crosses(p, b, a) <=> (Above(p, a) /\ ~Above(p, b) /\ t < 0) \/ (~Above(p, a) /\ Above(p, b) /\ t > 0)
    BY CrossesIs
<1>3. Crosses(p, a, b) <=> (Above(p, b) /\ ~Above(p, a) /\ u < 0) \/ (~Above(p, b) /\ Above(p, a) /\ u > 0)
    BY CrossesIs
<1>4. ~Crosses(p, a, a)
    BY DEF Crosses
<1> HIDE DEF t, u
<1> QED
    BY <1>1, <1>2, <1>3, <1>4

\* The sides on which three lines through pairs of points pass depend on one another.
LEMMA TurnsBalance ==
    ASSUME NEW p \in Plane, NEW a \in Plane, NEW b \in Plane, NEW c \in Plane
    PROVE  /\ (c[2] - p[2]) * Turn(p, a, b) + (a[2] - p[2]) * Turn(p, b, c)
                  + (b[2] - p[2]) * Turn(p, c, a) = 0
           /\ a[2] - p[2] \in Int /\ b[2] - p[2] \in Int /\ c[2] - p[2] \in Int
           /\ a[2] = p[2] /\ b[2] = p[2] => Turn(p, a, b) = 0
<1> DEFINE p1 == p[1]  p2 == p[2]  a1 == a[1]  a2 == a[2]  b1 == b[1]  b2 == b[2]  c1 == c[1]  c2 == c[2]
<1>1. /\ p1 \in Int /\ p2 \in Int /\ a1 \in Int /\ a2 \in Int
      /\ b1 \in Int /\ b2 \in Int /\ c1 \in Int /\ c2 \in Int
    BY DEF Plane
<1>2. /\ Turn(p, a, b) = (a1 - p1) * (b2 - p2) - (a2 - p2) * (b1 - p1)
      /\ Turn(p, b, c) = (b1 - p1) * (c2 - p2) - (b2 - p2) * (c1 - p1)
      /\ Turn(p, c, a) = (c1 - p1) * (a2 - p2) - (c2 - p2) * (a1 - p1)
    BY DEF Turn
<1> HIDE DEF p1, p2, a1, a2, b1, b2, c1, c2
<1>3. (c2 - p2) * ((a1 - p1) * (b2 - p2) - (a2 - p2) * (b1 - p1))
      + (a2 - p2) * ((b1 - p1) * (c2 - p2) - (b2 - p2) * (c1 - p1))
      + (b2 - p2) * ((c1 - p1) * (a2 - p2) - (c2 - p2) * (a1 - p1)) = 0
  <2> DEFINE x1 == a1 - p1  x2 == a2 - p2  y1 == b1 - p1  y2 == b2 - p2  z1 == c1 - p1  z2 == c2 - p2
  <2>1. x1 \in Int /\ x2 \in Int /\ y1 \in Int /\ y2 \in Int /\ z1 \in Int /\ z2 \in Int
      BY <1>1
  <2> HIDE DEF x1, x2, y1, y2, z1, z2
  <2>2. z2 * (x1 * y2 - x2 * y1) + x2 * (y1 * z2 - y2 * z1) + y2 * (z1 * x2 - z2 * x1) = 0
      BY <2>1
  <2> QED
      BY <2>2 DEF x1, x2, y1, y2, z1, z2
<1>4. a2 = p2 /\ b2 = p2 => (a1 - p1) * (b2 - p2) - (a2 - p2) * (b1 - p1) = 0
    BY <1>1
<1> QED
    BY <1>1, <1>2, <1>3, <1>4 DEF p2, a2, b2, c2

\* A triangle is crossed an odd number of times exactly from its inside.
LEMMA TriangleCrossed ==
    ASSUME NEW p \in Plane, NEW a \in Plane, NEW b \in Plane, NEW c \in Plane,
           Turn(p, a, b) # 0, Turn(p, b, c) # 0, Turn(p, c, a) # 0
    PROVE  (Crosses(p, b, a) # (Crosses(p, c, b) # Crosses(p, a, c))) <=>
               \/ Turn(p, a, b) > 0 /\ Turn(p, b, c) > 0 /\ Turn(p, c, a) > 0
               \/ Turn(p, a, b) < 0 /\ Turn(p, b, c) < 0 /\ Turn(p, c, a) < 0
<1> DEFINE r == Turn(p, a, b)  s == Turn(p, b, c)  t == Turn(p, c, a)
           x == a[2] - p[2]  y == b[2] - p[2]  z == c[2] - p[2]
<1>1. r \in Int /\ s \in Int /\ t \in Int
    BY CrossesIs
<1>2. x \in Int /\ y \in Int /\ z \in Int /\ z * r + x * s + y * t = 0
    BY TurnsBalance
<1>3. x # 0 \/ y # 0
  <2>1. a[2] \in Int /\ b[2] \in Int /\ p[2] \in Int
      BY DEF Plane
  <2>2. a[2] = p[2] /\ b[2] = p[2] => Turn(p, a, b) = 0
      BY TurnsBalance
  <2>3. ~(a[2] = p[2] /\ b[2] = p[2])
      BY <2>2
  <2> QED
      BY <2>1, <2>3
<1>4. Above(p, a) = (x > 0) /\ Above(p, b) = (y > 0) /\ Above(p, c) = (z > 0)
  <2>1. a[2] \in Int /\ b[2] \in Int /\ c[2] \in Int /\ p[2] \in Int
      BY DEF Plane
  <2> QED
      BY <2>1 DEF Above
<1>5. Crosses(p, b, a) <=> (x > 0 /\ ~(y > 0) /\ r < 0) \/ (~(x > 0) /\ y > 0 /\ r > 0)
    BY <1>4, CrossesIs
<1>6. Crosses(p, c, b) <=> (y > 0 /\ ~(z > 0) /\ s < 0) \/ (~(y > 0) /\ z > 0 /\ s > 0)
    BY <1>4, CrossesIs
<1>7. Crosses(p, a, c) <=> (z > 0 /\ ~(x > 0) /\ t < 0) \/ (~(z > 0) /\ x > 0 /\ t > 0)
    BY <1>4, CrossesIs
<1>8. r # 0 /\ s # 0 /\ t # 0
    OBVIOUS
<1> HIDE DEF r, s, t, x, y, z
<1> DEFINE u == z * r  v == x * s  w == y * t
<1>9. /\ u \in Int /\ v \in Int /\ w \in Int /\ u + v + w = 0
      /\ z > 0 /\ r > 0 => u > 0
      /\ z > 0 /\ r < 0 => u < 0
      /\ z < 0 /\ r > 0 => u < 0
      /\ z < 0 /\ r < 0 => u > 0
      /\ z = 0 => u = 0
    BY <1>1, <1>2, SignOfProduct
<1>10. /\ x > 0 /\ s > 0 => v > 0
       /\ x > 0 /\ s < 0 => v < 0
       /\ x < 0 /\ s > 0 => v < 0
       /\ x < 0 /\ s < 0 => v > 0
       /\ x = 0 => v = 0
    BY <1>1, <1>2, SignOfProduct
<1>11. /\ y > 0 /\ t > 0 => w > 0
       /\ y > 0 /\ t < 0 => w < 0
       /\ y < 0 /\ t > 0 => w < 0
       /\ y < 0 /\ t < 0 => w > 0
       /\ y = 0 => w = 0
    BY <1>1, <1>2, SignOfProduct
<1>20. x \in Int /\ y \in Int /\ z \in Int
    BY <1>2
<1> HIDE DEF u, v, w
<1> DEFINE ca == Crosses(p, b, a)  cb == Crosses(p, c, b)  cc == Crosses(p, a, c)
<1>12. ca \in BOOLEAN /\ cb \in BOOLEAN /\ cc \in BOOLEAN
    BY DEF Crosses
<1>13. (ca # (cb # cc)) <=> (r > 0 /\ s > 0 /\ t > 0) \/ (r < 0 /\ s < 0 /\ t < 0)
  <2>1. ca <=> (x > 0 /\ ~(y > 0) /\ r < 0) \/ (~(x > 0) /\ y > 0 /\ r > 0)
      BY <1>5
  <2>2. cb <=> (y > 0 /\ ~(z > 0) /\ s < 0) \/ (~(y > 0) /\ z > 0 /\ s > 0)
      BY <1>6
  <2>3. cc <=> (z > 0 /\ ~(x > 0) /\ t < 0) \/ (~(z > 0) /\ x > 0 /\ t > 0)
      BY <1>7
  <2> HIDE DEF ca, cb, cc
  <2> QED
      BY <2>1, <2>2, <2>3, <1>1, <1>3, <1>8, <1>9, <1>10, <1>11, <1>12, <1>20
<1> QED
    BY <1>13 DEF r, s, t
-----------------------------------------------------------------------------
(***************************************************************************)
(* Parity.                                                                 *)
(***************************************************************************)
Odd(S) == Cardinality(S) % 2 = 1

LEMMA OddAdd ==
    ASSUME NEW S, IsFiniteSet(S), NEW x, x \notin S
    PROVE  Odd(S \cup {x}) <=> ~Odd(S)
<1>1. Cardinality(S \cup {x}) = Cardinality(S) + 1 /\ Cardinality(S) \in Nat
    BY FS_AddElement, FS_CardinalityType
<1> QED
    BY <1>1 DEF Odd

\* Where one of two sets holds an element and the other does not.
LEMMA OddDiffer ==
    ASSUME NEW A, NEW B, IsFiniteSet(A), IsFiniteSet(B), NEW S, S = (A \cup B) \ (A \cap B)
    PROVE  Odd(S) <=> (Odd(A) # Odd(B))
<1>1. /\ IsFiniteSet(A \cup B) /\ IsFiniteSet(A \cap B)
      /\ Cardinality(A \cup B) = Cardinality(A) + Cardinality(B) - Cardinality(A \cap B)
    BY FS_Union, FS_Intersection
<1>2. Cardinality(S) = Cardinality(A \cup B) - Cardinality((A \cup B) \cap (A \cap B))
    BY <1>1, FS_Difference
<1>3. (A \cup B) \cap (A \cap B) = A \cap B
    OBVIOUS
<1> DEFINE a == Cardinality(A)  b == Cardinality(B)  m == Cardinality(A \cap B)  s == Cardinality(S)
<1>6. a \in Nat /\ b \in Nat /\ m \in Nat
    BY <1>1, FS_CardinalityType
<1>7. s = Cardinality(A \cup B) - m
    BY <1>2, <1>3
<1>8. Cardinality(A \cup B) = a + b - m
    BY <1>1
<1>4. a \in Nat /\ b \in Nat /\ m \in Nat /\ s = a + b - m - m
    BY <1>6, <1>7, <1>8
<1> HIDE DEF a, b, m, s
<1>5. s % 2 = 1 <=> (a % 2 = 1) # (b % 2 = 1)
    BY <1>4
<1> QED
    BY <1>5 DEF Odd, a, b, s

LEMMA NoneIsEven == ~Odd({})
<1>1. Cardinality({}) = 0
    BY FS_EmptySet
<1> QED
    BY <1>1 DEF Odd

\* On the way around a loop, what changes does so an even number of times.
LEMMA ModIs ==
    ASSUME NEW n \in Nat \ {0}
    PROVE  n % n = 0 /\ \A i \in 0 .. n - 1 : i % n = i
  OBVIOUS

LEMMA LoopIsEven ==
    ASSUME NEW n \in Nat \ {0}, NEW e \in [1 .. n -> BOOLEAN], NEW A \in SUBSET (1 .. n),
           \A i \in 1 .. n : i \in A <=> e[i] # e[(i % n) + 1]
    PROVE  ~Odd(A)
<1> DEFINE B(k) == A \cap (1 .. k)
           T == {k \in 0 .. n - 1 : Odd(B(k)) <=> e[1] # e[k + 1]}
<1>1. \A k \in 0 .. n : IsFiniteSet(B(k))
    BY FS_Interval, FS_Subset
<1>2. 0 \in T
  <2>1. B(0) = {}
      OBVIOUS
  <2> QED
      BY <2>1, NoneIsEven
<1>3. ASSUME NEW k \in 0 .. (n - 1) - 1, k \in T PROVE k + 1 \in T
  <2>10. (k + 1) \in 1 .. n /\ (k + 1) + 1 = k + 2 /\ k + 2 \in 1 .. n /\ k + 1 \in 0 .. n - 1
      OBVIOUS
  <2>1. (k + 1) \in 1 .. n /\ (k + 1) % n = k + 1 /\ (k + 1) + 1 = k + 2 /\ k + 2 \in 1 .. n /\ k + 1 \in 0 .. n - 1
      BY <2>10, ModIs
  <2>2. k + 1 \in A <=> e[k + 1] # e[k + 2]
      BY <2>1
  <2>3. k + 1 \in A => B(k + 1) = B(k) \cup {k + 1} /\ k + 1 \notin B(k)
      BY <2>1
  <2>4. k + 1 \notin A => B(k + 1) = B(k)
      BY <2>1
  <2>5. IsFiniteSet(B(k))
      BY <1>1, <2>1
  <2>6. Odd(B(k + 1)) <=> (k + 1 \in A) # Odd(B(k))
    <3> HIDE DEF B
    <3> QED
        BY <2>3, <2>4, <2>5, OddAdd DEF Odd
  <2>7. Odd(B(k)) <=> e[1] # e[k + 1]
      BY <1>3
  <2>8. e[1] \in BOOLEAN /\ e[k + 1] \in BOOLEAN /\ e[k + 2] \in BOOLEAN
      BY <2>1
  <2> HIDE DEF B
  <2>9. Odd(B(k + 1)) <=> e[1] # e[(k + 1) + 1]
      BY <2>1, <2>2, <2>6, <2>7, <2>8 DEF Odd
  <2> QED
      BY <2>1, <2>9
<1> HIDE DEF T
<1>4. n - 1 \in T
  <2>0. n - 1 \in Nat
      OBVIOUS
  <2>1. 0 .. n - 1 \subseteq T
      BY <2>0, <1>2, <1>3, UpToInduction
  <2> QED
      BY <2>0, <2>1
<1>5. Odd(B(n - 1)) <=> e[1] # e[n]
    BY <1>4 DEF T
<1>6. n \in A <=> e[n] # e[1]
  <2>1. n \in 1 .. n /\ (n % n) + 1 = 1
      OBVIOUS
  <2> QED
      BY <2>1
<1>10. n \notin 1 .. n - 1 /\ n - 1 \in 0 .. n /\ \A i \in 1 .. n : i = n \/ i \in 1 .. n - 1
    OBVIOUS
<1>7. n \in A => A = B(n - 1) \cup {n} /\ n \notin B(n - 1)
    BY <1>10
<1>8. n \notin A => A = B(n - 1)
    BY <1>10
<1>9. IsFiniteSet(B(n - 1))
    BY <1>1, <1>10
<1> HIDE DEF B
<1> QED
    BY <1>5, <1>6, <1>7, <1>8, <1>9, OddAdd DEF Odd

Following(vs, i) == (i % Len(vs)) + 1

Crossed(vs, p) == {i \in DOMAIN vs : Crosses(p, vs[Following(vs, i)], vs[i])}

LEMMA FollowingIs ==
    ASSUME NEW vs \in Seq(Plane), NEW i \in 1 .. Len(vs)
    PROVE  /\ Following(vs, i) \in 1 .. Len(vs)
           /\ Following(vs, i) = IF i = Len(vs) THEN 1 ELSE i + 1
           /\ vs[i] \in Plane /\ vs[Following(vs, i)] \in Plane
<1>1. Len(vs) \in Nat /\ i \in Nat /\ i <= Len(vs) /\ 1 <= i
    OBVIOUS
<1> DEFINE n == Len(vs)
<1>2. i = n => i % n = 0
    BY <1>1
<1>3. i # n => i % n = i
    BY <1>1
<1>4. Following(vs, i) = IF i = Len(vs) THEN 1 ELSE i + 1
    BY <1>1, <1>2, <1>3 DEF Following
<1>5. Following(vs, i) \in 1 .. Len(vs)
    BY <1>1, <1>4
<1> QED
    BY <1>4, <1>5

LEMMA ContainsIsOdd ==
    ASSUME NEW vs \in Seq(Plane), NEW p
    PROVE  /\ PolygonContains(vs, p) <=> Odd(Crossed(vs, p))
           /\ IsFiniteSet(Crossed(vs, p)) /\ Crossed(vs, p) \subseteq 1 .. Len(vs)
<1>1. Crossed(vs, p) \subseteq 1 .. Len(vs)
    BY DEF Crossed
<1>2. IsFiniteSet(Crossed(vs, p))
    BY <1>1, FS_Interval, FS_Subset
<1>3. PolygonContains(vs, p) <=> Odd(Crossed(vs, p))
    BY DEF PolygonContains, Odd, Crossed, Following
<1> QED
    BY <1>1, <1>2, <1>3

\* The triangles of the fan that hold p.
Inside(p, a, b, c) ==
    \/ Turn(p, a, b) > 0 /\ Turn(p, b, c) > 0 /\ Turn(p, c, a) > 0
    \/ Turn(p, a, b) < 0 /\ Turn(p, b, c) < 0 /\ Turn(p, c, a) < 0

Within(vs, p) == {i \in 2 .. Len(vs) - 1 : Inside(p, vs[1], vs[i], vs[i + 1])}

LEMMA FanIsOdd ==
    ASSUME NEW vs \in Seq(Plane), Len(vs) >= 3, NEW p \in Plane,
           \A i \in 2 .. Len(vs) - 1 :
               Turn(p, vs[1], vs[i]) # 0 /\ Turn(p, vs[i], vs[i + 1]) # 0 /\ Turn(p, vs[i + 1], vs[1]) # 0
    PROVE  PolygonContains(vs, p) <=> Odd(Within(vs, p))
<1> DEFINE n == Len(vs)
           C == Crossed(vs, p)
           W == Within(vs, p)
           e == [i \in 1 .. n |-> Crosses(p, vs[i], vs[1])]
           A == (C \cup W) \ (C \cap W)
<1>1. n \in Nat \ {0} /\ n >= 3 /\ DOMAIN vs = 1 .. n /\ \A i \in 1 .. n : vs[i] \in Plane
    OBVIOUS
<1>2. e \in [1 .. n -> BOOLEAN]
    BY DEF Crosses
<1>3. \A a, b \in Plane : (Crosses(p, a, b) <=> Crosses(p, b, a)) /\ ~Crosses(p, a, a)
    BY CrossingsTurn
<1>4. ASSUME NEW i \in 1 .. n PROVE i \in A <=> e[i] # e[(i % n) + 1]
  <2>1. i \in C <=> Crosses(p, vs[Following(vs, i)], vs[i])
      BY <1>1 DEF Crossed
  <2>2. Following(vs, i) = (i % n) + 1 /\ Following(vs, i) = (IF i = n THEN 1 ELSE i + 1) /\ Following(vs, i) \in 1 .. n
      BY FollowingIs DEF Following
  <2>3. e[i] = Crosses(p, vs[i], vs[1]) /\ e[(i % n) + 1] = Crosses(p, vs[Following(vs, i)], vs[1])
      BY <2>2
  <2>7. e[i] \in BOOLEAN /\ e[(i % n) + 1] \in BOOLEAN
      BY <1>2, <2>2
  <2>8. \A a, b : Crosses(p, a, b) \in BOOLEAN
      BY DEF Crosses
  <2>4. CASE i = 1
    <3>1. i \notin W /\ Following(vs, i) = 2 /\ 1 \in 1 .. n
        BY <2>4, <2>2, <1>1 DEF Within
    <3>2. ~e[i]
        BY <2>3, <2>4, <1>1, <1>3, <3>1
    <3>3. i \in C <=> Crosses(p, vs[2], vs[1])
        BY <3>1, <2>1, <2>4
    <3>4. e[(i % n) + 1] = Crosses(p, vs[2], vs[1])
        BY <3>1, <2>3
    <3> HIDE DEF e, C, W
    <3> QED
        BY <3>1, <3>2, <3>3, <3>4, <2>7, <2>8
  <2>5. CASE i = n
    <3>1. i \notin W /\ Following(vs, i) = 1 /\ 1 \in 1 .. n
        BY <2>5, <2>2, <1>1 DEF Within
    <3>2. ~e[(i % n) + 1]
        BY <2>3, <1>1, <1>3, <3>1
    <3>3. Crosses(p, vs[1], vs[i]) <=> Crosses(p, vs[i], vs[1])
        BY <1>1, <1>3, <3>1
    <3>4. i \in C <=> Crosses(p, vs[1], vs[i])
        BY <3>1, <2>1
    <3>5. e[i] = Crosses(p, vs[i], vs[1])
        BY <2>3
    <3> HIDE DEF e, C, W
    <3> QED
        BY <3>1, <3>2, <3>3, <3>4, <3>5, <2>7, <2>8
  <2>6. CASE i # 1 /\ i # n
    <3>11. i \in Nat /\ n \in Nat /\ 1 <= i /\ i <= n
        BY <1>1
    <3> HIDE DEF n
    <3>1. i \in 2 .. n - 1 /\ Following(vs, i) = i + 1 /\ i + 1 \in 1 .. n /\ 1 \in 1 .. n
        BY <2>6, <2>2, <3>11
    <3>2. i \in W <=> Inside(p, vs[1], vs[i], vs[i + 1])
        BY <3>1 DEF Within, n
    <3> DEFINE a == vs[1]  b == vs[i]  c == vs[i + 1]
    <3>3. a \in Plane /\ b \in Plane /\ c \in Plane
        BY <1>1, <3>1
    <3>4. Turn(p, a, b) # 0 /\ Turn(p, b, c) # 0 /\ Turn(p, c, a) # 0
        BY <3>1 DEF n
    <3>5. i \in C <=> Crosses(p, c, b)
        BY <2>1, <3>1
    <3>6. e[i] = Crosses(p, b, a) /\ e[(i % n) + 1] = Crosses(p, c, a)
        BY <2>3, <3>1
    <3> HIDE DEF a, b, c, e, C, W
    <3>7. (Crosses(p, b, a) # (Crosses(p, c, b) # Crosses(p, a, c))) <=> Inside(p, a, b, c)
        BY <3>3, <3>4, TriangleCrossed DEF Inside
    <3>8. Crosses(p, a, c) <=> Crosses(p, c, a)
        BY <1>3, <3>3
    <3>9. Crosses(p, a, c) \in BOOLEAN /\ Crosses(p, c, a) \in BOOLEAN /\ Crosses(p, b, a) \in BOOLEAN /\ Crosses(p, c, b) \in BOOLEAN
        BY DEF Crosses
    <3>10. i \in W <=> Inside(p, a, b, c)
        BY <3>2 DEF a, b, c
    <3> QED
        BY <3>5, <3>6, <3>7, <3>8, <3>9, <3>10
  <2> QED
      BY <2>4, <2>5, <2>6
<1>5. C \subseteq 1 .. n /\ W \subseteq 1 .. n
    BY <1>1 DEF Crossed, Within
<1>6. A \in SUBSET (1 .. n)
    BY <1>5
<1> HIDE DEF e, C, W, n
<1>10. IsFiniteSet(1 .. n)
    BY <1>1, FS_Interval
<1>7. IsFiniteSet(C) /\ IsFiniteSet(W)
    BY <1>10, <1>5, FS_Subset
<1>8. ~Odd(A)
  <2> HIDE DEF A, n
  <2> QED
      BY <1>1, <1>2, <1>4, <1>6, LoopIsEven
<1>9. Odd(A) <=> (Odd(C) # Odd(W))
    BY <1>7, OddDiffer
<1> QED
    BY <1>8, <1>9, ContainsIsOdd DEF C, W, Odd
-----------------------------------------------------------------------------
(***************************************************************************)
(* The edges that separate two points.                                     *)
(***************************************************************************)
\* The edge from a to b meets the segment from p to c, and not on its line.
Meets(p, c, a, b) ==
    /\ Turn(p, c, a) # Turn(p, c, b)
    /\ ~(Turn(p, c, a) > 0 /\ Turn(p, c, b) > 0) /\ ~(Turn(p, c, a) < 0 /\ Turn(p, c, b) < 0)
    /\ ~(Turn(p, a, b) > 0 /\ Turn(c, a, b) > 0) /\ ~(Turn(p, a, b) < 0 /\ Turn(c, a, b) < 0)

\* v is above p and not above c, and to the right of them.
Beside(p, c, v) == Above(p, v) /\ ~Above(c, v) /\ Turn(p, c, v) < 0

\* How the sides of the four lines through p, c, a and b depend on one another.
LEMMA FourTurns ==
    ASSUME NEW p \in Plane, NEW c \in Plane, NEW a \in Plane, NEW b \in Plane
    PROVE  /\ (c[2] - p[2]) * Turn(p, a, b) =
                  (a[2] - p[2]) * Turn(p, c, b) - (b[2] - p[2]) * Turn(p, c, a)
           /\ (c[2] - p[2]) * Turn(c, a, b) =
                  (a[2] - c[2]) * Turn(p, c, b) - (b[2] - c[2]) * Turn(p, c, a)
           /\ Turn(c, a, b) = Turn(p, a, b) + Turn(p, c, a) - Turn(p, c, b)
<1> DEFINE p1 == p[1]  p2 == p[2]  a1 == a[1]  a2 == a[2]  b1 == b[1]  b2 == b[2]  c1 == c[1]  c2 == c[2]
<1>1. /\ p1 \in Int /\ p2 \in Int /\ a1 \in Int /\ a2 \in Int
      /\ b1 \in Int /\ b2 \in Int /\ c1 \in Int /\ c2 \in Int
    BY DEF Plane
<1>2. /\ Turn(p, a, b) = (a1 - p1) * (b2 - p2) - (a2 - p2) * (b1 - p1)
      /\ Turn(c, a, b) = (a1 - c1) * (b2 - c2) - (a2 - c2) * (b1 - c1)
      /\ Turn(p, c, a) = (c1 - p1) * (a2 - p2) - (c2 - p2) * (a1 - p1)
      /\ Turn(p, c, b) = (c1 - p1) * (b2 - p2) - (c2 - p2) * (b1 - p1)
    BY DEF Turn
<1> HIDE DEF p1, p2, a1, a2, b1, b2, c1, c2
<1> DEFINE x1 == a1 - p1  x2 == a2 - p2  y1 == b1 - p1  y2 == b2 - p2  z1 == c1 - p1  z2 == c2 - p2
<1>3. x1 \in Int /\ x2 \in Int /\ y1 \in Int /\ y2 \in Int /\ z1 \in Int /\ z2 \in Int
    BY <1>1
<1>4. a1 - c1 = x1 - z1 /\ a2 - c2 = x2 - z2 /\ b1 - c1 = y1 - z1 /\ b2 - c2 = y2 - z2
    BY <1>1
<1>5. /\ Turn(p, a, b) = x1 * y2 - x2 * y1
      /\ Turn(c, a, b) = (x1 - z1) * (y2 - z2) - (x2 - z2) * (y1 - z1)
      /\ Turn(p, c, a) = z1 * x2 - z2 * x1
      /\ Turn(p, c, b) = z1 * y2 - z2 * y1
    BY <1>2, <1>4
<1> HIDE DEF x1, x2, y1, y2, z1, z2
<1>6. z2 * (x1 * y2 - x2 * y1) = x2 * (z1 * y2 - z2 * y1) - y2 * (z1 * x2 - z2 * x1)
    BY <1>3
<1>7. (x1 - z1) * (y2 - z2) - (x2 - z2) * (y1 - z1)
          = (x1 * y2 - x2 * y1) + (z1 * x2 - z2 * x1) - (z1 * y2 - z2 * y1)
    BY <1>3
<1>8. z2 * ((x1 - z1) * (y2 - z2) - (x2 - z2) * (y1 - z1))
          = (x2 - z2) * (z1 * y2 - z2 * y1) - (y2 - z2) * (z1 * x2 - z2 * x1)
    BY <1>3
<1>9. z2 * Turn(p, a, b) = x2 * Turn(p, c, b) - y2 * Turn(p, c, a)
    BY <1>5, <1>6
<1>10. z2 * Turn(c, a, b) = (x2 - z2) * Turn(p, c, b) - (y2 - z2) * Turn(p, c, a)
    BY <1>5, <1>8
<1>11. Turn(c, a, b) = Turn(p, a, b) + Turn(p, c, a) - Turn(p, c, b)
    BY <1>5, <1>7
<1>12. a2 - c2 = x2 - z2 /\ b2 - c2 = y2 - z2
    BY <1>4
<1> QED
    BY <1>9, <1>10, <1>11, <1>12 DEF x2, y2, z2, a2, b2, c2, p2

\* The two rays to the right differ at an edge that does not meet the segment
\* between their points only in as much as one end of it is beside the segment.
LEMMA RaysDiffer ==
    ASSUME NEW p \in Plane, NEW c \in Plane, p[2] < c[2], NEW a \in Plane, NEW b \in Plane,
           ~Meets(p, c, a, b)
    PROVE  (Crosses(p, b, a) # Crosses(c, b, a)) <=> (Beside(p, c, a) # Beside(p, c, b))
<1> DEFINE al == Turn(p, c, a)  be == Turn(p, c, b)  tp == Turn(p, a, b)  tc == Turn(c, a, b)
           x == a[2] - p[2]  y == b[2] - p[2]  z == c[2] - p[2]
           xc == a[2] - c[2]  yc == b[2] - c[2]
<1>1. al \in Int /\ be \in Int /\ tp \in Int /\ tc \in Int
    BY CrossesIs
<1>2. a[2] \in Int /\ b[2] \in Int /\ p[2] \in Int /\ c[2] \in Int
    BY DEF Plane
<1>3. x \in Int /\ y \in Int /\ z \in Int /\ z > 0 /\ xc \in Int /\ yc \in Int /\ xc = x - z /\ yc = y - z
    BY <1>2
<1>4. (Above(p, a) <=> x > 0) /\ (Above(p, b) <=> y > 0) /\ (Above(c, a) <=> xc > 0) /\ (Above(c, b) <=> yc > 0)
    BY <1>2 DEF Above
<1>5. Crosses(p, b, a) <=> (x > 0 /\ ~(y > 0) /\ tp < 0) \/ (~(x > 0) /\ y > 0 /\ tp > 0)
    BY <1>4, CrossesIs
<1>6. Crosses(c, b, a) <=> (xc > 0 /\ ~(yc > 0) /\ tc < 0) \/ (~(xc > 0) /\ yc > 0 /\ tc > 0)
    BY <1>4, CrossesIs
<1>7. /\ Beside(p, c, a) <=> x > 0 /\ ~(xc > 0) /\ al < 0
      /\ Beside(p, c, b) <=> y > 0 /\ ~(yc > 0) /\ be < 0
    BY <1>4 DEF Beside
<1>8. z * tp = x * be - y * al /\ z * tc = xc * be - yc * al /\ tc = tp + al - be
    BY FourTurns
<1>9. ~(/\ al # be
        /\ ~(al > 0 /\ be > 0) /\ ~(al < 0 /\ be < 0)
        /\ ~(tp > 0 /\ tc > 0) /\ ~(tp < 0 /\ tc < 0))
    BY DEF Meets
<1> HIDE DEF al, be, tp, tc, x, y, z, xc, yc
<1> DEFINE u == z * tp  v == z * tc  xb == x * be  ya == y * al  xcb == xc * be  yca == yc * al
<1>10. /\ u \in Int /\ v \in Int /\ xb \in Int /\ ya \in Int /\ xcb \in Int /\ yca \in Int
       /\ u = xb - ya /\ v = xcb - yca
    BY <1>1, <1>3, <1>8
<1>11. /\ tp > 0 => u > 0
       /\ tp < 0 => u < 0
       /\ tp = 0 => u = 0
    BY <1>1, <1>3, SignOfProduct
<1>12. /\ tc > 0 => v > 0
       /\ tc < 0 => v < 0
       /\ tc = 0 => v = 0
    BY <1>1, <1>3, SignOfProduct
<1>13. /\ x > 0 /\ be > 0 => xb > 0
       /\ x > 0 /\ be < 0 => xb < 0
       /\ x < 0 /\ be > 0 => xb < 0
       /\ x < 0 /\ be < 0 => xb > 0
       /\ x = 0 \/ be = 0 => xb = 0
    BY <1>1, <1>3, SignOfProduct
<1>14. /\ y > 0 /\ al > 0 => ya > 0
       /\ y > 0 /\ al < 0 => ya < 0
       /\ y < 0 /\ al > 0 => ya < 0
       /\ y < 0 /\ al < 0 => ya > 0
       /\ y = 0 \/ al = 0 => ya = 0
    BY <1>1, <1>3, SignOfProduct
<1>15. /\ xc > 0 /\ be > 0 => xcb > 0
       /\ xc > 0 /\ be < 0 => xcb < 0
       /\ xc < 0 /\ be > 0 => xcb < 0
       /\ xc < 0 /\ be < 0 => xcb > 0
       /\ xc = 0 \/ be = 0 => xcb = 0
    BY <1>1, <1>3, SignOfProduct
<1>16. /\ yc > 0 /\ al > 0 => yca > 0
       /\ yc > 0 /\ al < 0 => yca < 0
       /\ yc < 0 /\ al > 0 => yca < 0
       /\ yc < 0 /\ al < 0 => yca > 0
       /\ yc = 0 \/ al = 0 => yca = 0
    BY <1>1, <1>3, SignOfProduct
<1> HIDE DEF u, v, xb, ya, xcb, yca
<1> DEFINE cp == Crosses(p, b, a)  cc == Crosses(c, b, a)  ba == Beside(p, c, a)  bb == Beside(p, c, b)
<1>17. cp \in BOOLEAN /\ cc \in BOOLEAN /\ ba \in BOOLEAN /\ bb \in BOOLEAN
    BY DEF Crosses, Beside
<1> HIDE DEF cp, cc, ba, bb
<1>18. (cp # cc) <=> (ba # bb)
  <2>1. /\ cp <=> (x > 0 /\ ~(y > 0) /\ tp < 0) \/ (~(x > 0) /\ y > 0 /\ tp > 0)
        /\ cc <=> (xc > 0 /\ ~(yc > 0) /\ tc < 0) \/ (~(xc > 0) /\ yc > 0 /\ tc > 0)
        /\ ba <=> x > 0 /\ ~(xc > 0) /\ al < 0
        /\ bb <=> y > 0 /\ ~(yc > 0) /\ be < 0
      BY <1>5, <1>6, <1>7 DEF cp, cc, ba, bb
  <2> QED
      BY <2>1, <1>1, <1>3, <1>8, <1>9, <1>10, <1>11, <1>12, <1>13, <1>14, <1>15, <1>16, <1>17, SMTT(60)
<1> QED
    BY <1>18 DEF cp, cc, ba, bb

LEMMA FitsIsZone ==
    Fits => /\ zone \in Zone /\ Point \subseteq Plane /\ Reach \subseteq Nat
            /\ zone.type = POLYGON => zone.vertices \in Seq(Plane)
<1>1. MaxDepth \in 0 .. MaxDepth
    BY ZonesAssumption
<1>2. ASSUME Fits PROVE zone \in Zone
    BY <1>1, <1>2, BuiltAreZones DEF Fits, Zone
<1>3. Point \subseteq Plane /\ Reach \subseteq Nat
    BY ZonesAssumption DEF Point, Plane
<1>4. ASSUME zone \in Zone, zone.type = POLYGON PROVE zone.vertices \in Seq(Plane)
    BY <1>4, ZoneTypes, PlainTypes, Types
<1> QED
    BY <1>2, <1>3, <1>4

\* The ray casting of Polygon::contains finds what lies in an odd number of
\* the triangles that fan out from the first vertex.
THEOREM ZonesInsideByParity == Spec => []InsideByParity
<1>1. Fits => InsideByParity
  <2> SUFFICES ASSUME Fits, zone.type = POLYGON, NEW p \in Point, Len(zone.vertices) >= 3,
                      \A i \in 2 .. Len(zone.vertices) - 1 : \A k \in 1 .. 3 :
                          <<Turn(p, zone.vertices[1], zone.vertices[i]),
                            Turn(p, zone.vertices[i], zone.vertices[i + 1]),
                            Turn(p, zone.vertices[i + 1], zone.vertices[1])>>[k] # 0
               PROVE  ZoneContains[zone][p] <=>
                          Cardinality({i \in 2 .. Len(zone.vertices) - 1 :
                              \/ \A k \in 1 .. 3 :
                                    <<Turn(p, zone.vertices[1], zone.vertices[i]),
                                      Turn(p, zone.vertices[i], zone.vertices[i + 1]),
                                      Turn(p, zone.vertices[i + 1], zone.vertices[1])>>[k] > 0
                              \/ \A k \in 1 .. 3 :
                                    <<Turn(p, zone.vertices[1], zone.vertices[i]),
                                      Turn(p, zone.vertices[i], zone.vertices[i + 1]),
                                      Turn(p, zone.vertices[i + 1], zone.vertices[1])>>[k] < 0}) % 2 = 1
      BY DEF InsideByParity
  <2> DEFINE vs == zone.vertices
  <2>1. vs \in Seq(Plane) /\ p \in Plane /\ zone \in Zone
      BY FitsIsZone
  <2>2. \A x, y, z : /\ <<x, y, z>>[1] = x /\ <<x, y, z>>[2] = y /\ <<x, y, z>>[3] = z
                     /\ 1 \in 1 .. 3 /\ 2 \in 1 .. 3 /\ 3 \in 1 .. 3
      OBVIOUS
  <2>3. \A i \in 2 .. Len(vs) - 1 :
            Turn(p, vs[1], vs[i]) # 0 /\ Turn(p, vs[i], vs[i + 1]) # 0 /\ Turn(p, vs[i + 1], vs[1]) # 0
      BY <2>2
  <2>4. PolygonContains(vs, p) <=> Odd(Within(vs, p))
      BY <2>1, <2>3, FanIsOdd
  <2>5. ZoneContains[zone][p] <=> PolygonContains(vs, p)
      BY <2>1, ContainsIs, Types
  <2>6. \A x, y, z :
            /\ (\A k \in 1 .. 3 : <<x, y, z>>[k] > 0) <=> x > 0 /\ y > 0 /\ z > 0
            /\ (\A k \in 1 .. 3 : <<x, y, z>>[k] < 0) <=> x < 0 /\ y < 0 /\ z < 0
      OBVIOUS
  <2>7. Within(vs, p) = {i \in 2 .. Len(vs) - 1 :
            \/ \A k \in 1 .. 3 :
                  <<Turn(p, vs[1], vs[i]), Turn(p, vs[i], vs[i + 1]), Turn(p, vs[i + 1], vs[1])>>[k] > 0
            \/ \A k \in 1 .. 3 :
                  <<Turn(p, vs[1], vs[i]), Turn(p, vs[i], vs[i + 1]), Turn(p, vs[i + 1], vs[1])>>[k] < 0}
      BY <2>6 DEF Within, Inside
  <2> QED
      BY <2>4, <2>5, <2>7 DEF Odd
<1> QED
    BY <1>1, ZonesFit, PTL

LEMMA MeetsTurns ==
    ASSUME NEW p \in Plane, NEW c \in Plane, NEW a \in Plane, NEW b \in Plane, Meets(c, p, a, b)
    PROVE  Meets(p, c, a, b)
<1> DEFINE ua == Turn(p, c, a)  ub == Turn(p, c, b)  wa == Turn(c, p, a)  wb == Turn(c, p, b)
           tp == Turn(p, a, b)  tc == Turn(c, a, b)
<1>1. ua \in Int /\ ub \in Int /\ wa \in Int /\ wb \in Int
    BY CrossesIs
<1>2. \A v \in Plane : Turn(c, p, v) = - Turn(p, c, v)
  <2> SUFFICES ASSUME NEW v \in Plane PROVE Turn(c, p, v) = - Turn(p, c, v)
      OBVIOUS
  <2> DEFINE p1 == p[1]  p2 == p[2]  c1 == c[1]  c2 == c[2]  v1 == v[1]  v2 == v[2]
  <2>1. p1 \in Int /\ p2 \in Int /\ c1 \in Int /\ c2 \in Int /\ v1 \in Int /\ v2 \in Int
      BY DEF Plane
  <2>2. /\ Turn(c, p, v) = (p1 - c1) * (v2 - c2) - (p2 - c2) * (v1 - c1)
        /\ Turn(p, c, v) = (c1 - p1) * (v2 - p2) - (c2 - p2) * (v1 - p1)
      BY DEF Turn
  <2> HIDE DEF p1, p2, c1, c2, v1, v2
  <2>3. (p1 - c1) * (v2 - c2) - (p2 - c2) * (v1 - c1) = - ((c1 - p1) * (v2 - p2) - (c2 - p2) * (v1 - p1))
      BY <2>1
  <2> QED
      BY <2>2, <2>3
<1>3. wa = - ua /\ wb = - ub
    BY <1>2
<1>4. /\ wa # wb
      /\ ~(wa > 0 /\ wb > 0) /\ ~(wa < 0 /\ wb < 0)
      /\ ~(tc > 0 /\ tp > 0) /\ ~(tc < 0 /\ tp < 0)
    BY DEF Meets
<1>6. Meets(p, c, a, b) <=>
        /\ ua # ub
        /\ ~(ua > 0 /\ ub > 0) /\ ~(ua < 0 /\ ub < 0)
        /\ ~(tp > 0 /\ tc > 0) /\ ~(tp < 0 /\ tc < 0)
    BY DEF Meets
<1> HIDE DEF ua, ub, wa, wb, tp, tc
<1>5. /\ ua # ub
      /\ ~(ua > 0 /\ ub > 0) /\ ~(ua < 0 /\ ub < 0)
      /\ ~(tp > 0 /\ tc > 0) /\ ~(tp < 0 /\ tc < 0)
    BY <1>1, <1>3, <1>4
<1> QED
    BY <1>5, <1>6

\* If no edge meets the segment between them, points at different heights are both inside or both outside.
LEMMA NoneBetween ==
    ASSUME NEW vs \in Seq(Plane), NEW p \in Plane, NEW c \in Plane, p[2] < c[2],
           \A i \in 1 .. Len(vs) : ~Meets(p, c, vs[i], vs[Following(vs, i)])
    PROVE  PolygonContains(vs, p) <=> PolygonContains(vs, c)
<1> DEFINE n == Len(vs)
           P == Crossed(vs, p)
           C == Crossed(vs, c)
           e == [i \in 1 .. n |-> Beside(p, c, vs[i])]
           A == (P \cup C) \ (P \cap C)
<1>1. n \in Nat /\ DOMAIN vs = 1 .. n
    OBVIOUS
<1>2. e \in [1 .. n -> BOOLEAN]
    BY DEF Beside
<1>3. ASSUME NEW i \in 1 .. n PROVE i \in A <=> e[i] # e[(i % n) + 1]
  <2> DEFINE a == vs[i]  b == vs[Following(vs, i)]
  <2>1. a \in Plane /\ b \in Plane /\ Following(vs, i) \in 1 .. n /\ Following(vs, i) = (i % n) + 1
      BY FollowingIs DEF Following
  <2>2. (i \in P <=> Crosses(p, b, a)) /\ (i \in C <=> Crosses(c, b, a))
      BY <1>1 DEF Crossed
  <2>3. e[i] = Beside(p, c, a) /\ e[(i % n) + 1] = Beside(p, c, b)
      BY <2>1
  <2>4. ~Meets(p, c, a, b)
      OBVIOUS
  <2> HIDE DEF a, b, P, C, e
  <2>5. (Crosses(p, b, a) # Crosses(c, b, a)) <=> (Beside(p, c, a) # Beside(p, c, b))
      BY <2>1, <2>4, RaysDiffer
  <2>6. Crosses(p, b, a) \in BOOLEAN /\ Crosses(c, b, a) \in BOOLEAN
      BY DEF Crosses
  <2> QED
      BY <2>2, <2>3, <2>5, <2>6
<1>4. /\ IsFiniteSet(P) /\ P \subseteq 1 .. n /\ (PolygonContains(vs, p) <=> Odd(P))
      /\ IsFiniteSet(C) /\ C \subseteq 1 .. n /\ (PolygonContains(vs, c) <=> Odd(C))
    BY ContainsIsOdd
<1>5. A \in SUBSET (1 .. n)
    BY <1>4
<1>6. Odd(A) <=> (Odd(P) # Odd(C))
  <2> HIDE DEF P, C
  <2> QED
      BY <1>4, OddDiffer
<1>7. ~Odd(A)
  <2>1. CASE n = 0
    <3>1. A = {}
        BY <1>5, <2>1
    <3> QED
        BY <3>1, NoneIsEven
  <2>2. CASE n # 0
    <3> HIDE DEF A, n, e
    <3> QED
        BY <2>2, <1>1, <1>2, <1>3, <1>5, LoopIsEven
  <2> QED
      BY <2>1, <2>2
<1> HIDE DEF A, P, C
<1> QED
    BY <1>4, <1>6, <1>7 DEF Odd

\* The same if they are at one height.
LEMMA NoneBetweenLevel ==
    ASSUME NEW vs \in Seq(Plane), NEW p \in Plane, NEW c \in Plane, p[2] = c[2],
           \A i \in 1 .. Len(vs) : ~Meets(p, c, vs[i], vs[Following(vs, i)])
    PROVE  PolygonContains(vs, p) <=> PolygonContains(vs, c)
<1>1. ASSUME NEW i \in 1 .. Len(vs)
      PROVE  Crosses(p, vs[Following(vs, i)], vs[i]) <=> Crosses(c, vs[Following(vs, i)], vs[i])
  <2> DEFINE a == vs[i]  b == vs[Following(vs, i)]
             al == Turn(p, c, a)  be == Turn(p, c, b)  tp == Turn(p, a, b)  tc == Turn(c, a, b)
             d == c[1] - p[1]
  <2>1. a \in Plane /\ b \in Plane
      BY FollowingIs
  <2>2. a[2] \in Int /\ b[2] \in Int /\ p[2] \in Int /\ c[2] \in Int /\ d \in Int
      BY <2>1 DEF Plane
  <2>3. al \in Int /\ be \in Int /\ tp \in Int /\ tc \in Int
      BY <2>1, CrossesIs
  <2>4. ~Meets(p, c, a, b)
      OBVIOUS
  <2>5. al = d * (a[2] - p[2]) /\ be = d * (b[2] - p[2])
    <3>1. /\ al = (c[1] - p[1]) * (a[2] - p[2]) - (c[2] - p[2]) * (a[1] - p[1])
          /\ be = (c[1] - p[1]) * (b[2] - p[2]) - (c[2] - p[2]) * (b[1] - p[1])
        BY DEF Turn
    <3>3. a[1] \in Int /\ b[1] \in Int /\ p[1] \in Int
      <4> HIDE DEF a, b
      <4> QED
          BY <2>1 DEF Plane
    <3>2. c[2] - p[2] = 0 /\ a[1] - p[1] \in Int /\ b[1] - p[1] \in Int /\ a[2] - p[2] \in Int /\ b[2] - p[2] \in Int
      <4> HIDE DEF a, b, al, be, tp, tc, d
      <4> QED
          BY <2>2, <3>3
    <3> QED
        BY <3>1, <3>2, <2>2
  <2>6. tc = tp + al - be
      BY <2>1, FourTurns
  <2>7. (Above(p, a) <=> a[2] - p[2] > 0) /\ (Above(p, b) <=> b[2] - p[2] > 0)
        /\ (Above(c, a) <=> a[2] - p[2] > 0) /\ (Above(c, b) <=> b[2] - p[2] > 0)
      BY <2>2 DEF Above
  <2> DEFINE x == a[2] - p[2]  y == b[2] - p[2]
  <2>8. Crosses(p, b, a) <=> (x > 0 /\ ~(y > 0) /\ tp < 0) \/ (~(x > 0) /\ y > 0 /\ tp > 0)
      BY <2>1, <2>7, CrossesIs
  <2>9. Crosses(c, b, a) <=> (x > 0 /\ ~(y > 0) /\ tc < 0) \/ (~(x > 0) /\ y > 0 /\ tc > 0)
      BY <2>1, <2>7, CrossesIs
  <2>10. ~(/\ al # be
           /\ ~(al > 0 /\ be > 0) /\ ~(al < 0 /\ be < 0)
           /\ ~(tp > 0 /\ tc > 0) /\ ~(tp < 0 /\ tc < 0))
      BY <2>4 DEF Meets
  <2>11. x \in Int /\ y \in Int
      BY <2>2
  <2>12. al = d * x /\ be = d * y
      BY <2>5
  <2> HIDE DEF al, be, tp, tc, x, y, d
  <2>13. /\ d > 0 /\ x > 0 => al > 0
         /\ d > 0 /\ x < 0 => al < 0
         /\ d < 0 /\ x > 0 => al < 0
         /\ d < 0 /\ x < 0 => al > 0
         /\ d = 0 \/ x = 0 => al = 0
      BY <2>2, <2>11, <2>12, SignOfProduct
  <2>14. /\ d > 0 /\ y > 0 => be > 0
         /\ d > 0 /\ y < 0 => be < 0
         /\ d < 0 /\ y > 0 => be < 0
         /\ d < 0 /\ y < 0 => be > 0
         /\ d = 0 \/ y = 0 => be = 0
      BY <2>2, <2>11, <2>12, SignOfProduct
  <2> DEFINE cp == Crosses(p, b, a)  cc == Crosses(c, b, a)
  <2>15. cp \in BOOLEAN /\ cc \in BOOLEAN
      BY DEF Crosses
  <2> HIDE DEF cp, cc
  <2>16. cp <=> cc
    <3>1. /\ cp <=> (x > 0 /\ ~(y > 0) /\ tp < 0) \/ (~(x > 0) /\ y > 0 /\ tp > 0)
          /\ cc <=> (x > 0 /\ ~(y > 0) /\ tc < 0) \/ (~(x > 0) /\ y > 0 /\ tc > 0)
        BY <2>8, <2>9 DEF cp, cc
    <3> QED
        BY <3>1, <2>2, <2>3, <2>6, <2>10, <2>11, <2>13, <2>14, <2>15, SMTT(60)
  <2> QED
      BY <2>16 DEF cp, cc, a, b
<1>2. Crossed(vs, p) = Crossed(vs, c)
    BY <1>1 DEF Crossed
<1> QED
    BY <1>2, ContainsIsOdd DEF Odd

\* An edge meets the segment between a point inside and one outside.
LEMMA OneBetween ==
    ASSUME NEW vs \in Seq(Plane), NEW p \in Plane, NEW c \in Plane,
           PolygonContains(vs, p), ~PolygonContains(vs, c)
    PROVE  \E i \in 1 .. Len(vs) : Meets(p, c, vs[i], vs[Following(vs, i)])
<1> SUFFICES ASSUME \A i \in 1 .. Len(vs) : ~Meets(p, c, vs[i], vs[Following(vs, i)])
             PROVE  FALSE
    OBVIOUS
<1>1. p[2] \in Int /\ c[2] \in Int
    BY DEF Plane
<1>2. CASE p[2] < c[2]
    BY <1>2, NoneBetween
<1>3. CASE c[2] < p[2]
  <2>1. \A i \in 1 .. Len(vs) : ~Meets(c, p, vs[i], vs[Following(vs, i)])
      BY FollowingIs, MeetsTurns
  <2> QED
      BY <1>3, <2>1, NoneBetween
<1>4. CASE p[2] = c[2]
    BY <1>4, NoneBetweenLevel
<1> QED
    BY <1>1, <1>2, <1>3, <1>4

-----------------------------------------------------------------------------
(***************************************************************************)
(* Squares and products.                                                   *)
(***************************************************************************)
LEMMA SquareIs ==
    ASSUME NEW i \in Int
    PROVE  i * i \in Nat /\ (i # 0 => i * i > 0)
<1>1. i * i \in Int
    OBVIOUS
<1>2. /\ i > 0 => i * i > 0
      /\ i < 0 => i * i > 0
      /\ i = 0 => i * i = 0
    BY SignOfProduct
<1> QED
    BY <1>1, <1>2

LEMMA ScaledIs ==
    ASSUME NEW m \in Int, m > 0, NEW x \in Int, NEW y \in Int
    PROVE  m * x \in Int /\ m * y \in Int /\ (m * x <= m * y <=> x <= y)
<1>1. m * x \in Int /\ m * y \in Int /\ m * (x - y) = m * x - m * y
    OBVIOUS
<1>2. /\ x - y > 0 => m * (x - y) > 0
      /\ x - y < 0 => m * (x - y) < 0
      /\ x - y = 0 => m * (x - y) = 0
  <2>1. x - y \in Int
      OBVIOUS
  <2> QED
      BY <2>1, SignOfProduct
<1> DEFINE u == m * x  v == m * y  t == m * (x - y)
<1>3. u \in Int /\ v \in Int /\ t = u - v /\ (x - y > 0 => t > 0) /\ (x - y < 0 => t < 0) /\ (x - y = 0 => t = 0)
    BY <1>1, <1>2
<1> HIDE DEF u, v, t
<1>4. u <= v <=> x <= y
    BY <1>3
<1> QED
    BY <1>3, <1>4 DEF u, v

LEMMA SquaresOrdered ==
    ASSUME NEW x \in Nat, NEW y \in Nat
    PROVE  x * x <= y * y <=> x <= y
<1>1. x + y \in Int /\ y - x \in Int
    OBVIOUS
<1>2. /\ x + y > 0 /\ y - x > 0 => (x + y) * (y - x) > 0
      /\ x + y > 0 /\ y - x < 0 => (x + y) * (y - x) < 0
      /\ y - x = 0 => (x + y) * (y - x) = 0
    BY <1>1, SignOfProduct
<1> DEFINE u == x * x  v == y * y  t == (x + y) * (y - x)
<1>3. u \in Int /\ v \in Int /\ t = v - u
    OBVIOUS
<1>4. x + y > 0 /\ y - x > 0 => t > 0
    BY <1>2
<1>5. x + y > 0 /\ y - x < 0 => t < 0
    BY <1>2
<1>6. y - x = 0 => t = 0
    BY <1>2
<1> HIDE DEF u, v, t
<1>7. u <= v <=> x <= y
    BY <1>3, <1>4, <1>5, <1>6
<1> QED
    BY <1>7 DEF u, v

\* Lagrange's identity, and what it says of the two products.
LEMMA Lagrange ==
    ASSUME NEW e1 \in Int, NEW e2 \in Int, NEW d1 \in Int, NEW d2 \in Int
    PROVE  /\ (e1 * d1 + e2 * d2) * (e1 * d1 + e2 * d2) + (e1 * d2 - e2 * d1) * (e1 * d2 - e2 * d1)
                  = (e1 * e1 + e2 * e2) * (d1 * d1 + d2 * d2)
           /\ (e1 * d2 - e2 * d1) * (e1 * d2 - e2 * d1) <= (e1 * e1 + e2 * e2) * (d1 * d1 + d2 * d2)
           /\ (e1 * d1 + e2 * d2) * (e1 * d1 + e2 * d2) <= (e1 * e1 + e2 * e2) * (d1 * d1 + d2 * d2)
<1> DEFINE s == e1 * d1 + e2 * d2  t == e1 * d2 - e2 * d1
           m == (e1 * e1 + e2 * e2) * (d1 * d1 + d2 * d2)
<1>1. s * s + t * t = m
    OBVIOUS
<1>2. s \in Int /\ t \in Int
    OBVIOUS
<1> HIDE DEF s, t, m
<1>3. s * s \in Nat /\ t * t \in Nat
    BY <1>2, SquareIs
<1> DEFINE x == s * s  y == t * t
<1>4. x \in Nat /\ y \in Nat /\ x + y = m
    BY <1>1, <1>3
<1> HIDE DEF x, y
<1>5. x <= m /\ y <= m /\ x + y = m
    BY <1>4
<1> QED
    BY <1>5 DEF x, y, s, t, m

\* Two numbers that have not the same sign.
LEMMA Straddle ==
    ASSUME NEW x \in Int, NEW k \in Int,
           ~(x > 0 /\ x + k > 0), ~(x < 0 /\ x + k < 0)
    PROVE  x * x <= k * k /\ k * x <= 0 /\ k * (x + k) >= 0
<1> DEFINE ax == IF x < 0 THEN - x ELSE x
           ak == IF k < 0 THEN - k ELSE k
<1>1. ax \in Nat /\ ak \in Nat /\ ax <= ak
    OBVIOUS
<1>2. ax * ax = x * x /\ ak * ak = k * k
    OBVIOUS
<1> HIDE DEF ax, ak
<1>3. ax * ax <= ak * ak
    BY <1>1, SquaresOrdered
<1>4. x + k \in Int
    OBVIOUS
<1>5. k * x <= 0
  <2>1. /\ k > 0 /\ x < 0 => k * x < 0
        /\ k < 0 /\ x > 0 => k * x < 0
        /\ k = 0 => k * x = 0
        /\ x = 0 => k * x = 0
      BY SignOfProduct
  <2> DEFINE u == k * x
  <2>2. /\ u \in Int
        /\ k > 0 /\ x < 0 => u < 0
        /\ k < 0 /\ x > 0 => u < 0
        /\ k = 0 => u = 0
        /\ x = 0 => u = 0
      BY <2>1, SignOfProduct
  <2> HIDE DEF u
  <2>3. u <= 0
      BY <2>2
  <2> QED
      BY <2>3 DEF u
<1>6. k * (x + k) >= 0
  <2> DEFINE y == x + k  u == k * y
  <2>1. y \in Int
      OBVIOUS
  <2>3. (k > 0 => y >= 0) /\ (k < 0 => y <= 0)
      OBVIOUS
  <2> HIDE DEF y
  <2>2. /\ u \in Int
        /\ k > 0 /\ y > 0 => u > 0
        /\ k < 0 /\ y < 0 => u > 0
        /\ k = 0 => u = 0
        /\ y = 0 => u = 0
      BY <2>1, SignOfProduct
  <2> HIDE DEF u
  <2>4. u >= 0
      BY <2>1, <2>2, <2>3
  <2> QED
      BY <2>4 DEF u, y
<1> QED
    BY <1>2, <1>3, <1>5, <1>6

\* A vector w with the multiple of d that reaches a multiple of e that is not longer.
LEMMA EndIsNear ==
    ASSUME NEW e1 \in Int, NEW e2 \in Int, NEW w1 \in Int, NEW w2 \in Int, NEW d1 \in Int, NEW d2 \in Int,
           NEW k \in Int, k # 0, NEW g \in Int, NEW s \in Int, s * s <= k * k,
           k * w1 + g * d1 = - (s * e1), k * w2 + g * d2 = - (s * e2),
           (k * g) * (w1 * d1 + w2 * d2) >= 0
    PROVE  w1 * w1 + w2 * w2 <= e1 * e1 + e2 * e2
<1> DEFINE ww == w1 * w1 + w2 * w2  ee == e1 * e1 + e2 * e2  dd == d1 * d1 + d2 * d2
           num == w1 * d1 + w2 * d2  kk == k * k  ss == s * s  gg == g * g  kg == k * g
           X == k * w1 + g * d1  Y == k * w2 + g * d2
<1>1. X * X + Y * Y = kk * ww + kg * num + kg * num + gg * dd
    OBVIOUS
<1>2. X * X + Y * Y = ss * ee
  <2> DEFINE x == - (s * e1)  y == - (s * e2)
  <2>1. x * x + y * y = ss * ee
      OBVIOUS
  <2>2. X = x /\ Y = y
      OBVIOUS
  <2> HIDE DEF X, Y, x, y, ss, ee
  <2> QED
      BY <2>1, <2>2
<1>3. ww \in Nat /\ ee \in Nat /\ dd \in Nat /\ kk \in Nat /\ kk > 0 /\ ss \in Nat /\ gg \in Nat /\ num \in Int /\ kg \in Int
  <2>1. /\ w1 * w1 \in Nat /\ w2 * w2 \in Nat /\ e1 * e1 \in Nat /\ e2 * e2 \in Nat
        /\ d1 * d1 \in Nat /\ d2 * d2 \in Nat /\ k * k \in Nat /\ k * k > 0 /\ s * s \in Nat /\ g * g \in Nat
      BY SquareIs
  <2> QED
      BY <2>1
<1>4. ss <= kk /\ kg * num >= 0
    OBVIOUS
<1> HIDE DEF ww, ee, dd, num, kk, ss, gg, kg, X, Y
<1>5. gg * dd >= 0
  <2>1. gg * dd \in Int /\ (gg > 0 /\ dd > 0 => gg * dd > 0) /\ (gg = 0 => gg * dd = 0) /\ (dd = 0 => gg * dd = 0)
      BY <1>3, SignOfProduct
  <2> DEFINE t == gg * dd
  <2>2. t \in Int /\ (gg > 0 /\ dd > 0 => t > 0) /\ (gg = 0 => t = 0) /\ (dd = 0 => t = 0)
      BY <2>1
  <2> HIDE DEF t
  <2>3. t >= 0
      BY <2>2, <1>3
  <2> QED
      BY <2>3 DEF t
<1>6. ss * ee <= kk * ee
  <2>1. CASE ee = 0
      BY <2>1, <1>3
  <2>2. CASE ee > 0
    <3>1. ee * ss <= ee * kk
        BY <2>2, <1>3, <1>4, ScaledIs
    <3>2. ee * ss = ss * ee /\ ee * kk = kk * ee
        BY <1>3
    <3> QED
        BY <3>1, <3>2
  <2> QED
      BY <2>1, <2>2, <1>3
<1>7. kk * ww <= kk * ee
  <2> DEFINE u == kk * ww  v == kg * num  w == gg * dd  x == ss * ee  y == kk * ee
  <2>1. u \in Int /\ v \in Int /\ w \in Int /\ x \in Int /\ y \in Int
      BY <1>3
  <2>2. x = u + v + v + w /\ v >= 0 /\ w >= 0 /\ x <= y
      BY <1>1, <1>2, <1>4, <1>5, <1>6
  <2> HIDE DEF u, v, w, x, y
  <2>3. u <= y
      BY <2>1, <2>2
  <2> QED
      BY <2>3 DEF u, y
<1>8. ww <= ee
    BY <1>3, <1>7, ScaledIs
<1> QED
    BY <1>8 DEF ww, ee

LEMMA SignsAgree ==
    ASSUME NEW x \in Int, NEW y \in Int, (x >= 0 /\ y >= 0) \/ (x <= 0 /\ y <= 0)
    PROVE  x * y >= 0
<1> DEFINE t == x * y
<1>1. /\ t \in Int
      /\ x > 0 /\ y > 0 => t > 0
      /\ x < 0 /\ y < 0 => t > 0
      /\ x = 0 => t = 0
      /\ y = 0 => t = 0
    BY SignOfProduct
<1> HIDE DEF t
<1>2. t >= 0
    BY <1>1
<1> QED
    BY <1>2 DEF t

\* x and x + k have not the same sign.
Astride(x, k) == ~(x > 0 /\ x + k > 0) /\ ~(x < 0 /\ x + k < 0)

\* What is between w and the segment from 0 to d is not longer than e.
FootWithin(e1, e2, w1, w2, d1, d2) ==
    LET num == w1 * d1 + w2 * d2
        len == d1 * d1 + d2 * d2
    IN  /\ len > 0
        /\ num <= 0 => w1 * w1 + w2 * w2 <= e1 * e1 + e2 * e2
        /\ num >= len => (w1 - d1) * (w1 - d1) + (w2 - d2) * (w2 - d2) <= e1 * e1 + e2 * e2
        /\ (w1 * w1 + w2 * w2) * len - num * num <= (e1 * e1 + e2 * e2) * len

\* It is not if the segment from 0 to d crosses the one from w - e to w.
LEMMA FootIsNear ==
    ASSUME NEW e1 \in Int, NEW e2 \in Int, NEW w1 \in Int, NEW w2 \in Int, NEW d1 \in Int, NEW d2 \in Int,
           e1 * d2 - e2 * d1 # 0,
           Astride(e2 * w1 - e1 * w2, e1 * d2 - e2 * d1),
           Astride(w2 * d1 - w1 * d2, e1 * d2 - e2 * d1)
    PROVE  FootWithin(e1, e2, w1, w2, d1, d2)
<1> DEFINE al == e2 * w1 - e1 * w2
           tc == w2 * d1 - w1 * d2
           k == e1 * d2 - e2 * d1
           num == w1 * d1 + w2 * d2
           len == d1 * d1 + d2 * d2
<1>7. al \in Int /\ tc \in Int /\ k \in Int /\ num \in Int /\ len \in Int /\ k # 0
    OBVIOUS
<1>8. ~(al > 0 /\ al + k > 0) /\ ~(al < 0 /\ al + k < 0) /\ ~(tc > 0 /\ tc + k > 0) /\ ~(tc < 0 /\ tc + k < 0)
    BY DEF Astride
<1>10. FootWithin(e1, e2, w1, w2, d1, d2) <=>
        /\ len > 0
        /\ num <= 0 => w1 * w1 + w2 * w2 <= e1 * e1 + e2 * e2
        /\ num >= len => (w1 - d1) * (w1 - d1) + (w2 - d2) * (w2 - d2) <= e1 * e1 + e2 * e2
        /\ (w1 * w1 + w2 * w2) * len - num * num <= (e1 * e1 + e2 * e2) * len
    BY DEF FootWithin
<1>9. /\ al = e2 * w1 - e1 * w2 /\ tc = w2 * d1 - w1 * d2 /\ k = e1 * d2 - e2 * d1
      /\ num = w1 * d1 + w2 * d2 /\ len = d1 * d1 + d2 * d2
    OBVIOUS
<1> HIDE DEF al, tc, k, num, len
<1>1. tc * tc <= k * k /\ k * al <= 0 /\ k * (al + k) >= 0
    BY <1>7, <1>8, Straddle
<1>2. k * w1 + al * d1 = - (tc * e1) /\ k * w2 + al * d2 = - (tc * e2)
    BY DEF al, tc, k
<1>3. len > 0
  <2>1. d1 # 0 \/ d2 # 0
      BY <1>7, <1>9
  <2>2. d1 * d1 \in Nat /\ d2 * d2 \in Nat /\ (d1 # 0 => d1 * d1 > 0) /\ (d2 # 0 => d2 * d2 > 0)
      BY SquareIs
  <2> DEFINE x == d1 * d1  y == d2 * d2
  <2>3. x \in Nat /\ y \in Nat /\ (x > 0 \/ y > 0) /\ len = x + y
      BY <2>1, <2>2, <1>9
  <2> HIDE DEF x, y
  <2> QED
      BY <2>3, <1>7
<1>4. ASSUME num <= 0 PROVE w1 * w1 + w2 * w2 <= e1 * e1 + e2 * e2
  <2>1. k * al \in Int /\ w1 * d1 + w2 * d2 <= 0 /\ w1 * d1 + w2 * d2 \in Int
      BY <1>4, <1>7, <1>9
  <2>2. (k * al) * (w1 * d1 + w2 * d2) >= 0
      BY <1>1, <2>1, SignsAgree
  <2> QED
      BY <1>1, <1>2, <1>7, <2>2, EndIsNear
<1>5. ASSUME num >= len
      PROVE (w1 - d1) * (w1 - d1) + (w2 - d2) * (w2 - d2) <= e1 * e1 + e2 * e2
  <2> DEFINE u1 == w1 - d1  u2 == w2 - d2  be == al + k
  <2>1. u1 \in Int /\ u2 \in Int /\ be \in Int
      BY <1>7
  <2>2. k * u1 + be * d1 = k * w1 + al * d1 /\ k * u2 + be * d2 = k * w2 + al * d2
      BY <1>7
  <2>3. u1 * d1 + u2 * d2 = num - len
      BY DEF num, len
  <2>4. k * be >= 0 /\ k * be \in Int
      BY <1>1, <1>7
  <2>7. num - len >= 0 /\ num - len \in Int
      BY <1>5, <1>7
  <2> HIDE DEF u1, u2, be
  <2>5. (k * be) * (u1 * d1 + u2 * d2) >= 0
      BY <2>3, <2>4, <2>7, SignsAgree
  <2>8. k * u1 + be * d1 = - (tc * e1) /\ k * u2 + be * d2 = - (tc * e2)
      BY <1>2, <2>2
  <2>6. u1 * u1 + u2 * u2 <= e1 * e1 + e2 * e2
      BY <1>1, <1>7, <2>1, <2>5, <2>8, EndIsNear
  <2> QED
      BY <2>6 DEF u1, u2
<1>6. (w1 * w1 + w2 * w2) * len - num * num <= (e1 * e1 + e2 * e2) * len
  <2> DEFINE W == (w1 * w1 + w2 * w2) * len  E == (e1 * e1 + e2 * e2) * len  N == num * num  T == tc * tc  K == k * k
  <2>1. W \in Int /\ E \in Int /\ N \in Int /\ T \in Int /\ K \in Int
      BY <1>7
  <2>2. N + T = W
    <3>1. (w1 * d1 + w2 * d2) * (w1 * d1 + w2 * d2) + (w1 * d2 - w2 * d1) * (w1 * d2 - w2 * d1)
                  = (w1 * w1 + w2 * w2) * (d1 * d1 + d2 * d2)
        BY Lagrange
    <3>2. (w1 * d2 - w2 * d1) * (w1 * d2 - w2 * d1) = T
        BY DEF tc
    <3>3. N = (w1 * d1 + w2 * d2) * (w1 * d1 + w2 * d2) /\ W = (w1 * w1 + w2 * w2) * (d1 * d1 + d2 * d2)
        BY DEF num, len
    <3> QED
        BY <3>1, <3>2, <3>3
  <2>3. K <= E
    <3>1. (e1 * d2 - e2 * d1) * (e1 * d2 - e2 * d1) <= (e1 * e1 + e2 * e2) * (d1 * d1 + d2 * d2)
        BY Lagrange
    <3> QED
        BY <3>1 DEF k, len
  <2>4. T <= K
      BY <1>1
  <2> HIDE DEF W, E, N, T, K
  <2>5. W - N <= E
      BY <2>1, <2>2, <2>3, <2>4
  <2> QED
      BY <2>5 DEF W, N, E
<1> QED
    BY <1>3, <1>4, <1>5, <1>6, <1>10

LEMMA MeetIsNear ==
    ASSUME NEW p \in Plane, NEW c \in Plane, NEW a \in Plane, NEW b \in Plane, Meets(p, c, a, b),
           NEW r \in Nat, SquareDistance(p, c) <= Square(r)
    PROVE  NearSegment(c, a, b, r)
<1> DEFINE p1 == p[1]  p2 == p[2]  c1 == c[1]  c2 == c[2]  a1 == a[1]  a2 == a[2]  b1 == b[1]  b2 == b[2]
<1>1. /\ p1 \in Int /\ p2 \in Int /\ c1 \in Int /\ c2 \in Int
      /\ a1 \in Int /\ a2 \in Int /\ b1 \in Int /\ b2 \in Int
    BY DEF Plane
<1> DEFINE e1 == c1 - p1  e2 == c2 - p2  w1 == c1 - a1  w2 == c2 - a2  d1 == b1 - a1  d2 == b2 - a2
           al == Turn(p, c, a)  be == Turn(p, c, b)  tp == Turn(p, a, b)  tc == Turn(c, a, b)
           k == be - al
           len == d1 * d1 + d2 * d2
           num == w1 * d1 + w2 * d2
           rr == r * r
<1>2. /\ e1 \in Int /\ e2 \in Int /\ w1 \in Int /\ w2 \in Int /\ d1 \in Int /\ d2 \in Int
      /\ al \in Int /\ be \in Int /\ tp \in Int /\ tc \in Int /\ k \in Int
    BY <1>1, CrossesIs
<1>3. al = e2 * w1 - e1 * w2 /\ be = e2 * w1 - e1 * w2 + e1 * d2 - e2 * d1 /\ tc = w2 * d1 - w1 * d2
  <2>1. /\ al = (c1 - p1) * (a2 - p2) - (c2 - p2) * (a1 - p1)
        /\ be = (c1 - p1) * (b2 - p2) - (c2 - p2) * (b1 - p1)
        /\ tc = (a1 - c1) * (b2 - c2) - (a2 - c2) * (b1 - c1)
      BY DEF Turn
  <2>2. /\ a1 - p1 = e1 - w1 /\ a2 - p2 = e2 - w2 /\ b1 - p1 = e1 - w1 + d1 /\ b2 - p2 = e2 - w2 + d2
        /\ a1 - c1 = - w1 /\ a2 - c2 = - w2 /\ b1 - c1 = d1 - w1 /\ b2 - c2 = d2 - w2
    <3> HIDE DEF p1, p2, c1, c2, a1, a2, b1, b2
    <3> QED
        BY <1>1
  <2>3. /\ al = e1 * (e2 - w2) - e2 * (e1 - w1)
        /\ be = e1 * (e2 - w2 + d2) - e2 * (e1 - w1 + d1)
        /\ tc = (- w1) * (d2 - w2) - (- w2) * (d1 - w1)
      BY <2>1, <2>2
  <2> HIDE DEF e1, e2, w1, w2, d1, d2, al, be, tc
  <2> QED
      BY <1>2, <2>3
<1>4. tc = tp + al - be
    BY FourTurns
<1>5. /\ al # be
      /\ ~(al > 0 /\ be > 0) /\ ~(al < 0 /\ be < 0)
      /\ ~(tp > 0 /\ tc > 0) /\ ~(tp < 0 /\ tc < 0)
    BY DEF Meets
<1>6. e1 * e1 + e2 * e2 <= rr
  <2>1. (p1 - c1) * (p1 - c1) + (p2 - c2) * (p2 - c2) <= rr
      BY DEF SquareDistance, Square
  <2> HIDE DEF p1, p2, c1, c2, rr
  <2>2. (p1 - c1) * (p1 - c1) + (p2 - c2) * (p2 - c2) = e1 * e1 + e2 * e2
      BY <1>1
  <2> QED
      BY <2>1, <2>2
<1>7. NearSegment(c, a, b, r) <=>
        IF len = 0 \/ num <= 0 THEN w1 * w1 + w2 * w2 <= rr
        ELSE IF num >= len THEN (c1 - b1) * (c1 - b1) + (c2 - b2) * (c2 - b2) <= rr
        ELSE (w1 * w1 + w2 * w2) * len - num * num <= rr * len
    BY DEF NearSegment, SquareDistance, Square
<1>8. c1 - b1 = w1 - d1 /\ c2 - b2 = w2 - d2
  <2> HIDE DEF p1, p2, c1, c2, a1, a2, b1, b2
  <2> QED
      BY <1>1
<1> HIDE DEF p1, p2, c1, c2, a1, a2, b1, b2, e1, e2, w1, w2, d1, d2, al, be, tp, tc
<1>9. k = e1 * d2 - e2 * d1 /\ k # 0 /\ be = al + k /\ tp = tc + k
    BY <1>2, <1>3, <1>4, <1>5
<1>10. len \in Int /\ num \in Int /\ rr \in Int
    BY <1>2
<1>11. Astride(al, k) /\ Astride(tc, k)
    BY <1>2, <1>5, <1>9 DEF Astride
<1>12. al = e2 * w1 - e1 * w2 /\ tc = w2 * d1 - w1 * d2
    BY <1>3
<1>13. FootWithin(e1, e2, w1, w2, d1, d2)
  <2>1. k = e1 * d2 - e2 * d1 /\ k # 0
      BY <1>9
  <2> HIDE DEF k
  <2>2. e1 * d2 - e2 * d1 # 0 /\ Astride(e2 * w1 - e1 * w2, e1 * d2 - e2 * d1) /\ Astride(w2 * d1 - w1 * d2, e1 * d2 - e2 * d1)
      BY <2>1, <1>11, <1>12
  <2> QED
      BY <1>2, <2>2, FootIsNear
<1>17. /\ len > 0
       /\ num <= 0 => w1 * w1 + w2 * w2 <= e1 * e1 + e2 * e2
       /\ num >= len => (w1 - d1) * (w1 - d1) + (w2 - d2) * (w2 - d2) <= e1 * e1 + e2 * e2
       /\ (w1 * w1 + w2 * w2) * len - num * num <= (e1 * e1 + e2 * e2) * len
    BY <1>13 DEF FootWithin
<1> HIDE DEF k, len, num, rr
<1> DEFINE ww == w1 * w1 + w2 * w2  ee == e1 * e1 + e2 * e2
           uu == (w1 - d1) * (w1 - d1) + (w2 - d2) * (w2 - d2)
<1>14. ww \in Int /\ ee \in Int /\ uu \in Int
    BY <1>2
<1>15. NearSegment(c, a, b, r) <=>
        IF len = 0 \/ num <= 0 THEN ww <= rr
        ELSE IF num >= len THEN uu <= rr
        ELSE ww * len - num * num <= rr * len
    BY <1>7, <1>8
<1>16. /\ len > 0 /\ ee <= rr
       /\ num <= 0 => ww <= ee
       /\ num >= len => uu <= ee
       /\ ww * len - num * num <= ee * len
    BY <1>6, <1>17
<1> HIDE DEF ww, ee, uu
<1>18. ee * len <= rr * len
  <2>1. len * ee <= len * rr
      BY <1>10, <1>14, <1>16, ScaledIs
  <2>2. len * ee = ee * len /\ len * rr = rr * len
      BY <1>10, <1>14
  <2> QED
      BY <2>1, <2>2
<1>19. ww * len - num * num <= rr * len
  <2> DEFINE x == ww * len - num * num  y == ee * len  z == rr * len
  <2>1. x \in Int /\ y \in Int /\ z \in Int /\ x <= y /\ y <= z
      BY <1>10, <1>14, <1>16, <1>18
  <2> HIDE DEF x, y, z
  <2>2. x <= z
      BY <2>1
  <2> QED
      BY <2>2 DEF x, z
<1>20. (num <= 0 => ww <= rr) /\ (num >= len => uu <= rr)
    BY <1>10, <1>14, <1>16
<1> QED
    BY <1>15, <1>16, <1>19, <1>20, <1>10

\* From whoever is inside, an RSU in range covers the polygon.
LEMMA PolygonCovered ==
    ASSUME NEW vs \in Seq(Plane), NEW p \in Plane, NEW c \in Plane, NEW r \in Nat,
           PolygonContains(vs, p), SquareDistance(p, c) <= Square(r)
    PROVE  PolygonCoveredBy(vs, c, r)
<1>1. CASE PolygonContains(vs, c)
    BY <1>1 DEF PolygonCoveredBy
<1>2. CASE ~PolygonContains(vs, c)
  <2>1. PICK i \in 1 .. Len(vs) : Meets(p, c, vs[i], vs[Following(vs, i)])
      BY <1>2, OneBetween
  <2> DEFINE a == vs[i]  b == vs[Following(vs, i)]
  <2>2. a \in Plane /\ b \in Plane
      BY FollowingIs
  <2>3. NearSegment(c, a, b, r)
    <3> HIDE DEF a, b
    <3>1. Meets(p, c, a, b)
        BY <2>1 DEF a, b
    <3> QED
        BY <2>2, <3>1, MeetIsNear
  <2>4. <<a, b>> \in Edges(vs)
      BY DEF Edges, Following
  <2>5. <<a, b>>[1] = a /\ <<a, b>>[2] = b
      OBVIOUS
  <2> HIDE DEF a, b
  <2>6. BoundaryWithin(vs, c, r)
      BY <2>3, <2>4, <2>5 DEF BoundaryWithin
  <2> QED
      BY <2>6 DEF PolygonCoveredBy
<1> QED
    BY <1>1, <1>2

LEMMA ProductsOrdered ==
    ASSUME NEW a \in Nat, NEW b \in Nat, NEW c \in Nat, NEW d \in Nat, a <= b, c <= d
    PROVE  a * c <= b * d
<1>1. a * c <= b * c
  <2>1. CASE c > 0
    <3>1. c * a <= c * b
        BY <2>1, ScaledIs
    <3>2. c * a = a * c /\ c * b = b * c
        OBVIOUS
    <3> QED
        BY <3>1, <3>2
  <2>2. CASE c = 0
      BY <2>2
  <2> QED
      BY <2>1, <2>2
<1>2. b * c <= b * d
  <2>1. CASE b > 0
      BY <2>1, ScaledIs
  <2>2. CASE b = 0
      BY <2>2
  <2> QED
      BY <2>1, <2>2
<1> DEFINE x == a * c  y == b * c  z == b * d
<1>3. x \in Int /\ y \in Int /\ z \in Int /\ x <= y /\ y <= z
    BY <1>1, <1>2
<1> HIDE DEF x, y, z
<1>4. x <= z
    BY <1>3
<1> QED
    BY <1>4 DEF x, z

\* The triangle inequality, in squares.
LEMMA TriangleInequality ==
    ASSUME NEW u1 \in Int, NEW u2 \in Int, NEW v1 \in Int, NEW v2 \in Int, NEW R \in Nat, NEW r \in Nat,
           u1 * u1 + u2 * u2 <= R * R, v1 * v1 + v2 * v2 <= r * r
    PROVE  (u1 + v1) * (u1 + v1) + (u2 + v2) * (u2 + v2) <= (R + r) * (R + r)
<1> DEFINE uu == u1 * u1 + u2 * u2  vv == v1 * v1 + v2 * v2  t == u1 * v1 + u2 * v2
           m == R * r  RR == R * R  rr == r * r
<1>1. uu \in Nat /\ vv \in Nat /\ RR \in Nat /\ rr \in Nat
  <2>1. u1 * u1 \in Nat /\ u2 * u2 \in Nat /\ v1 * v1 \in Nat /\ v2 * v2 \in Nat /\ R * R \in Nat /\ r * r \in Nat
      BY SquareIs
  <2> QED
      BY <2>1
<1>2. t \in Int /\ m \in Nat
    OBVIOUS
<1>3. t * t <= uu * vv
    BY Lagrange
<1>4. uu <= RR /\ vv <= rr
    OBVIOUS
<1>5. RR * rr = m * m
    OBVIOUS
<1>6. (u1 + v1) * (u1 + v1) + (u2 + v2) * (u2 + v2) = uu + t + t + vv
    OBVIOUS
<1>7. (R + r) * (R + r) = RR + m + m + rr
    OBVIOUS
<1> HIDE DEF uu, vv, t, m, RR, rr
<1>8. uu * vv <= RR * rr
    BY <1>1, <1>4, ProductsOrdered
<1>9. t * t <= m * m
  <2> DEFINE x == t * t  y == uu * vv  z == RR * rr  w == m * m
  <2>1. x \in Int /\ y \in Int /\ z \in Int /\ w \in Int /\ x <= y /\ y <= z /\ z = w
      BY <1>1, <1>2, <1>3, <1>5, <1>8
  <2> HIDE DEF x, y, z, w
  <2>2. x <= w
      BY <2>1
  <2> QED
      BY <2>2 DEF x, w
<1>10. t <= m
    BY <1>2, <1>9, SquaresOrdered
<1> QED
    BY <1>1, <1>2, <1>4, <1>6, <1>7, <1>10

LEMMA CircleCovered ==
    ASSUME NEW o \in Plane, NEW R \in Nat, NEW p \in Plane, NEW c \in Plane, NEW r \in Nat,
           SquareDistance(p, o) <= Square(R), SquareDistance(p, c) <= Square(r)
    PROVE  SquareDistance(c, o) <= Square(R + r)
<1> DEFINE p1 == p[1]  p2 == p[2]  c1 == c[1]  c2 == c[2]  o1 == o[1]  o2 == o[2]
           u1 == p1 - o1  u2 == p2 - o2  v1 == c1 - p1  v2 == c2 - p2
<1>1. p1 \in Int /\ p2 \in Int /\ c1 \in Int /\ c2 \in Int /\ o1 \in Int /\ o2 \in Int
    BY DEF Plane
<1>2. /\ u1 * u1 + u2 * u2 <= R * R
      /\ (p1 - c1) * (p1 - c1) + (p2 - c2) * (p2 - c2) <= r * r
      /\ SquareDistance(c, o) = (c1 - o1) * (c1 - o1) + (c2 - o2) * (c2 - o2)
      /\ Square(R + r) = (R + r) * (R + r)
    BY DEF SquareDistance, Square
<1> HIDE DEF p1, p2, c1, c2, o1, o2
<1>3. u1 \in Int /\ u2 \in Int /\ v1 \in Int /\ v2 \in Int /\ c1 - o1 = u1 + v1 /\ c2 - o2 = u2 + v2
    BY <1>1
<1>4. (p1 - c1) * (p1 - c1) + (p2 - c2) * (p2 - c2) = v1 * v1 + v2 * v2
    BY <1>1
<1>6. v1 * v1 + v2 * v2 <= r * r
    BY <1>2, <1>4
<1>7. SquareDistance(c, o) = (u1 + v1) * (u1 + v1) + (u2 + v2) * (u2 + v2)
    BY <1>2, <1>3
<1>8. u1 * u1 + u2 * u2 <= R * R
    BY <1>2
<1> HIDE DEF u1, u2, v1, v2
<1>5. (u1 + v1) * (u1 + v1) + (u2 + v2) * (u2 + v2) <= (R + r) * (R + r)
    BY <1>3, <1>6, <1>8, TriangleInequality
<1> QED
    BY <1>2, <1>5, <1>7

LEMMA ZoneCovered ==
    ASSUME NEW p \in Plane, NEW c \in Plane, NEW r \in Nat, SquareDistance(p, c) <= Square(r)
    PROVE  \A z \in Zone : ZoneContains[z][p] => ZoneCoveredBy[z][c][r]
<1> DEFINE S == {z \in Zone : ZoneContains[z][p] => ZoneCoveredBy[z][c][r]}
<1>1. \A z \in Zone :
          ZoneContains[z][p] <=>
              \/ z.type = CIRCLE /\ SquareDistance(p, z.center) <= Square(z.radius)
              \/ z.type = POLYGON /\ PolygonContains(z.vertices, p)
              \/ z.type = COMPOSITE /\ \E i \in DOMAIN z.components : ZoneContains[z.components[i]][p]
    BY ContainsIs
<1>2. \A z \in Zone :
          ZoneCoveredBy[z][c][r] <=>
              \/ z.type = CIRCLE /\ SquareDistance(c, z.center) <= Square(z.radius + r)
              \/ z.type = POLYGON /\ PolygonCoveredBy(z.vertices, c, r)
              \/ z.type = COMPOSITE /\ \E i \in DOMAIN z.components : ZoneCoveredBy[z.components[i]][c][r]
    BY CoveredByIs
<1>3. Plain(Nat) \subseteq S
  <2> SUFFICES ASSUME NEW z \in Plain(Nat), ZoneContains[z][p] PROVE ZoneCoveredBy[z][c][r]
      BY PlainAreZones
  <2>1. z \in Zone /\ z.type # COMPOSITE
      BY PlainAreZones, PlainTypes
  <2>2. CASE z.type = CIRCLE /\ SquareDistance(p, z.center) <= Square(z.radius)
    <3>1. z.center \in Plane /\ z.radius \in Nat
        BY <2>2, PlainTypes
    <3> QED
        BY <3>1, <2>1, <2>2, <1>2, CircleCovered
  <2>3. CASE z.type = POLYGON /\ PolygonContains(z.vertices, p)
    <3>1. z.vertices \in Seq(Plane)
        BY <2>3, PlainTypes
    <3> QED
        BY <3>1, <2>1, <2>3, <1>2, PolygonCovered
  <2> QED
      BY <2>1, <2>2, <2>3, <1>1
<1>4. ASSUME NEW z \in Zone, z.type = COMPOSITE, \A i \in DOMAIN z.components : z.components[i] \in S
      PROVE  z \in S
  <2>1. CIRCLE # COMPOSITE /\ POLYGON # COMPOSITE
      BY Types
  <2> SUFFICES ASSUME ZoneContains[z][p] PROVE ZoneCoveredBy[z][c][r]
      OBVIOUS
  <2>2. PICK i \in DOMAIN z.components : ZoneContains[z.components[i]][p]
      BY <2>1, <1>1, <1>4
  <2>3. ZoneCoveredBy[z.components[i]][c][r]
      BY <2>2, <1>4
  <2> QED
      BY <2>3, <1>2, <1>4
<1> HIDE DEF S
<1>5. Zone \subseteq S
    BY <1>3, <1>4, ZoneInduction
<1> QED
    BY <1>5 DEF S

\* Whoever is in a zone and in range of an RSU is in range of one that is
\* responsible for it (ZoR::contains and ZoR::isCoveredBy).
THEOREM ZonesContainedIsCovered == Spec => []ContainedIsCovered
<1>1. Fits => ContainedIsCovered
  <2> SUFFICES ASSUME Fits, NEW p \in Point, ZoneContains[zone][p], NEW c \in Point, NEW r \in Reach,
                      SquareDistance(p, c) <= Square(r)
               PROVE  ZoneCoveredBy[zone][c][r]
      BY DEF ContainedIsCovered
  <2> QED
      BY FitsIsZone, ZoneCovered
<1> QED
    BY <1>1, ZonesFit, PTL

-----------------------------------------------------------------------------
(***************************************************************************)
(* Boxes.                                                                  *)
(***************************************************************************)
\* The box around the points S is in reach r of c.
NearBox(S, c, r) ==
    LET xs == {p[1] : p \in S}
        ys == {p[2] : p \in S}
    IN  \E west, east \in xs, south, north \in ys :
            Square(Gap(c[1], west, east)) + Square(Gap(c[2], south, north)) <= Square(r)

LEMMA NearBoxIs ==
    ASSUME NEW S, NEW c, NEW r, NEW a \in S, NEW b \in S, NEW u \in S, NEW v \in S,
           Square(Gap(c[1], a[1], b[1])) + Square(Gap(c[2], u[2], v[2])) <= Square(r)
    PROVE  NearBox(S, c, r)
<1>1. /\ a[1] \in {p[1] : p \in S} /\ b[1] \in {p[1] : p \in S}
      /\ u[2] \in {p[2] : p \in S} /\ v[2] \in {p[2] : p \in S}
    OBVIOUS
<1> QED
    BY <1>1 DEF NearBox

LEMMA NearBoxGrows ==
    ASSUME NEW S, NEW T, S \subseteq T, NEW c, NEW r, NearBox(S, c, r)
    PROVE  NearBox(T, c, r)
<1>1. {p[1] : p \in S} \subseteq {p[1] : p \in T} /\ {p[2] : p \in S} \subseteq {p[2] : p \in T}
    OBVIOUS
<1> QED
    BY <1>1 DEF NearBox

LEMMA GapIs ==
    ASSUME NEW i \in Int, NEW low \in Int, NEW high \in Int
    PROVE  /\ Gap(i, low, high) \in Nat
           /\ low <= i /\ i <= high => Square(Gap(i, low, high)) = 0
           /\ Square(Gap(i, low, low)) = (i - low) * (i - low)
<1>1. Gap(i, low, high) \in Nat
    BY DEF Gap
<1>2. low <= i /\ i <= high => Square(Gap(i, low, high)) = 0
    BY DEF Gap, Square
<1>3. CASE i < low
  <2>1. Gap(i, low, low) = low - i
      BY <1>3 DEF Gap
  <2>2. (low - i) * (low - i) = (i - low) * (i - low)
      OBVIOUS
  <2> QED
      BY <1>1, <1>2, <2>1, <2>2 DEF Square
<1>4. CASE ~(i < low)
  <2>1. Gap(i, low, low) = i - low
      BY <1>4 DEF Gap
  <2> QED
      BY <1>1, <1>2, <2>1 DEF Square
<1> QED
    BY <1>3, <1>4

\* A circle and its box.
LEMMA BothGaps ==
    ASSUME NEW R \in Nat, NEW r \in Nat, NEW g \in Nat, NEW h \in Nat,
           (R + g) * (R + g) + (R + h) * (R + h) <= (R + r) * (R + r)
    PROVE  g * g + h * h <= r * r
<1> SUFFICES ASSUME ~(g * g + h * h <= r * r) PROVE FALSE
    OBVIOUS
<1> DEFINE gg == g * g  hh == h * h  rr == r * r  gh == g * h  RR == R * R
           s == g + h  Rs == R * s  Rr == R * r
<1>1. (R + g) * (R + g) + (R + h) * (R + h) = RR + RR + Rs + Rs + gg + hh
    OBVIOUS
<1>2. (R + r) * (R + r) = RR + Rr + Rr + rr
    OBVIOUS
<1>3. s * s = gg + hh + gh + gh /\ s \in Nat
    OBVIOUS
<1>4. gg \in Nat /\ hh \in Nat /\ rr \in Nat /\ RR \in Nat
    BY SquareIs
<1>5. gh \in Nat
  <2>1. gh >= 0 /\ gh \in Int
      BY SignsAgree
  <2> QED
      BY <2>1
<1>6. gg + hh > rr
  <2>1. ~(gg + hh <= rr)
      OBVIOUS
  <2> HIDE DEF gg, hh, rr
  <2> QED
      BY <1>4, <2>1
<1>7. r <= s
  <2>1. r * r <= s * s
    <3> DEFINE t == s * s
    <3>1. t = gg + hh + gh + gh
        BY <1>3
    <3> HIDE DEF t, gg, hh, rr, gh
    <3>2. rr <= t
        BY <1>4, <1>5, <1>6, <3>1
    <3> QED
        BY <3>2 DEF t, rr
  <2> HIDE DEF s
  <2> QED
      BY <1>3, <2>1, SquaresOrdered
<1>8. Rr <= Rs
  <2> HIDE DEF s
  <2>1. R <= R
      OBVIOUS
  <2> QED
      BY <1>3, <1>7, <2>1, ProductsOrdered
<1>9. Rr \in Int /\ Rs \in Int
    BY <1>3
<1> HIDE DEF gg, hh, rr, gh, RR, s, Rs, Rr
<1> QED
    BY <1>1, <1>2, <1>4, <1>6, <1>8, <1>9

LEMMA OneGap ==
    ASSUME NEW R \in Nat, NEW r \in Nat, NEW g \in Nat, NEW B \in Nat,
           (R + g) * (R + g) + B <= (R + r) * (R + r)
    PROVE  g * g <= r * r
<1> DEFINE x == R + g  y == R + r
<1>1. x \in Nat /\ y \in Nat
    OBVIOUS
<1>2. x * x \in Nat /\ y * y \in Nat
    BY <1>1, SquareIs
<1>3. x * x <= y * y
  <2> DEFINE t == x * x  u == y * y
  <2>1. t \in Nat /\ u \in Nat /\ t + B <= u
      BY <1>2
  <2> HIDE DEF t, u
  <2>2. t <= u
      BY <2>1
  <2> QED
      BY <2>2 DEF t, u
<1>4. x <= y
  <2> HIDE DEF x, y
  <2> QED
      BY <1>1, <1>3, SquaresOrdered
<1>5. g <= r
    BY <1>4
<1> QED
    BY <1>5, SquaresOrdered

\* How far a coordinate is from the interval of a circle, and from its center.
LEMMA CircleGap ==
    ASSUME NEW i \in Int, NEW o \in Int, NEW R \in Nat
    PROVE  LET g == Gap(i, o - R, o + R)
           IN  /\ g \in Nat
               /\ g # 0 => (i - o) * (i - o) = (R + g) * (R + g)
<1> DEFINE g == Gap(i, o - R, o + R)
<1>1. g \in Nat
    BY DEF Gap
<1>2. CASE i < o - R
  <2>1. g = (o - R) - i
      BY <1>2 DEF Gap
  <2>2. R + g = - (i - o)
      BY <2>1
  <2>3. (- (i - o)) * (- (i - o)) = (i - o) * (i - o)
      OBVIOUS
  <2> QED
      BY <1>1, <2>2, <2>3
<1>3. CASE i > o + R
  <2>1. g = i - (o + R)
      BY <1>3 DEF Gap
  <2>2. R + g = i - o
      BY <2>1
  <2> QED
      BY <1>1, <2>2
<1>4. CASE ~(i < o - R) /\ ~(i > o + R)
  <2>1. g = 0
      BY <1>4 DEF Gap
  <2> QED
      BY <2>1
<1> QED
    BY <1>2, <1>3, <1>4

LEMMA CircleNear ==
    ASSUME NEW o \in Plane, NEW R \in Nat, NEW c \in Plane, NEW r \in Nat,
           SquareDistance(c, o) <= Square(R + r)
    PROVE  NearBox({<<o[1] + i, o[2] + j>> : i, j \in {- R, R}}, c, r)
<1> DEFINE S == {<<o[1] + i, o[2] + j>> : i, j \in {- R, R}}
           o1 == o[1]  o2 == o[2]  c1 == c[1]  c2 == c[2]
           a == <<o[1] + (- R), o[2] + (- R)>>
           b == <<o[1] + R, o[2] + R>>
           g == Gap(c1, o1 - R, o1 + R)
           h == Gap(c2, o2 - R, o2 + R)
<1>1. o1 \in Int /\ o2 \in Int /\ c1 \in Int /\ c2 \in Int
    BY DEF Plane
<1>2. a \in S /\ b \in S
    OBVIOUS
<1>3. a[1] = o1 - R /\ a[2] = o2 - R /\ b[1] = o1 + R /\ b[2] = o2 + R
    BY <1>1
<1>4. (c1 - o1) * (c1 - o1) + (c2 - o2) * (c2 - o2) <= (R + r) * (R + r)
    BY DEF SquareDistance, Square
<1> HIDE DEF o1, o2, c1, c2
<1>5. /\ g \in Nat /\ h \in Nat
      /\ g # 0 => (c1 - o1) * (c1 - o1) = (R + g) * (R + g)
      /\ h # 0 => (c2 - o2) * (c2 - o2) = (R + h) * (R + h)
    BY <1>1, CircleGap
<1> HIDE DEF g, h
<1> DEFINE A == (c1 - o1) * (c1 - o1)  B == (c2 - o2) * (c2 - o2)  M == (R + r) * (R + r)
<1>6. A \in Nat /\ B \in Nat /\ M \in Int
  <2>1. c1 - o1 \in Int /\ c2 - o2 \in Int
      BY <1>1
  <2> QED
      BY <2>1, SquareIs
<1>7. g * g + h * h <= r * r
  <2>1. CASE g # 0 /\ h # 0
    <3>1. (R + g) * (R + g) + (R + h) * (R + h) <= (R + r) * (R + r)
        BY <2>1, <1>4, <1>5
    <3> QED
        BY <3>1, <1>5, BothGaps
  <2>2. CASE g # 0 /\ h = 0
    <3>1. (R + g) * (R + g) + B <= (R + r) * (R + r)
        BY <2>2, <1>4, <1>5
    <3> HIDE DEF B
    <3>2. g * g <= r * r
        BY <3>1, <1>5, <1>6, OneGap
    <3>3. h * h = 0 /\ g * g \in Int
        BY <2>2, <1>5
    <3> QED
        BY <3>2, <3>3
  <2>3. CASE g = 0 /\ h # 0
    <3>1. A + (R + h) * (R + h) <= (R + r) * (R + r)
        BY <2>3, <1>4, <1>5
    <3> HIDE DEF A
    <3>4. (R + h) * (R + h) + A <= (R + r) * (R + r)
        BY <3>1, <1>5, <1>6
    <3>2. h * h <= r * r
        BY <3>4, <1>5, <1>6, OneGap
    <3>3. g * g = 0 /\ h * h \in Int
        BY <2>3, <1>5
    <3> QED
        BY <3>2, <3>3
  <2>4. CASE g = 0 /\ h = 0
    <3>1. g * g = 0 /\ h * h = 0
        BY <2>4
    <3>2. r * r \in Nat
        BY SquareIs
    <3> QED
        BY <3>1, <3>2
  <2> QED
      BY <2>1, <2>2, <2>3, <2>4
<1>8. Square(Gap(c[1], a[1], b[1])) + Square(Gap(c[2], a[2], b[2])) <= Square(r)
  <2>1. Gap(c[1], a[1], b[1]) = g /\ Gap(c[2], a[2], b[2]) = h
      BY <1>3 DEF g, h, c1, c2
  <2> QED
      BY <2>1, <1>7 DEF Square
<1> HIDE DEF S, a, b
<1>9. NearBox(S, c, r)
    BY <1>2, <1>8, NearBoxIs
<1> QED
    BY <1>9 DEF S

\* Where the foot is between the ends, the gap to them is not more than the distance to it.
GapWithin(i, a, b, low, high, len, num) ==
    (len * Gap(i, low, high)) * (len * Gap(i, low, high))
        <= (len * (i - a) - num * (b - a)) * (len * (i - a) - num * (b - a))

LEMMA FootGap ==
    ASSUME NEW i \in Int, NEW a \in Int, NEW b \in Int, NEW low \in {a, b}, NEW high \in {a, b},
           low <= a, low <= b, high >= a, high >= b,
           NEW len \in Int, NEW num \in Int, 0 < num, num < len
    PROVE  GapWithin(i, a, b, low, high, len, num)
<1> DEFINE g == Gap(i, low, high)
           V == len * (i - a) - num * (b - a)
           G == len * g
<1>1. low \in Int /\ high \in Int
    OBVIOUS
<1>2. g \in Nat /\ V \in Int
    BY <1>1, GapIs
<1>3. G \in Nat
  <2>1. len >= 0 /\ g >= 0 /\ len \in Int /\ g \in Int
      BY <1>2
  <2> HIDE DEF g
  <2>2. len * g >= 0
      BY <2>1, SignsAgree
  <2> QED
      BY <2>1, <2>2
<1>4. CASE i < low
  <2>1. g = low - i
      BY <1>4 DEF Gap
  <2>2. V + G = len * (low - a) - num * (b - a)
    <3>1. G = len * (low - i)
        BY <2>1
    <3>2. len * (i - a) - num * (b - a) + len * (low - i) = len * (low - a) - num * (b - a)
        BY <1>1
    <3> QED
        BY <3>1, <3>2
  <2>3. len * (low - a) - num * (b - a) <= 0
    <3>1. CASE low = a
      <4>1. len * (low - a) = 0 /\ b - a >= 0 /\ b - a \in Int /\ num >= 0
          BY <3>1, <1>1
      <4>2. num * (b - a) >= 0
          BY <4>1, SignsAgree
      <4>3. num * (b - a) \in Int
          OBVIOUS
      <4> QED
          BY <4>1, <4>2, <4>3
    <3>2. CASE low = b
      <4>1. len - num >= 0 /\ a - b >= 0 /\ len - num \in Int /\ a - b \in Int
          BY <3>2, <1>1
      <4>2. (len - num) * (a - b) >= 0
          BY <4>1, SignsAgree
      <4>3. len * (b - a) - num * (b - a) = - ((len - num) * (a - b))
          OBVIOUS
      <4>4. (len - num) * (a - b) \in Int
          OBVIOUS
      <4> QED
          BY <3>2, <4>2, <4>3, <4>4
    <3> QED
        BY <3>1, <3>2
  <2>4. V + G <= 0
      BY <2>2, <2>3
  <2> HIDE DEF V, G
  <2>5. - V \in Nat /\ G <= - V
      BY <1>2, <1>3, <2>4
  <2>6. G * G <= (- V) * (- V)
      BY <1>3, <2>5, SquaresOrdered
  <2>7. (- V) * (- V) = V * V
      BY <1>2
  <2>8. G * G <= V * V
      BY <2>6, <2>7
  <2> QED
      BY <2>8 DEF G, V, GapWithin
<1>5. CASE i > high /\ ~(i < low)
  <2>1. g = i - high
      BY <1>5 DEF Gap
  <2>2. V - G = len * (high - a) - num * (b - a)
    <3>1. G = len * (i - high)
        BY <2>1
    <3>2. len * (i - a) - num * (b - a) - len * (i - high) = len * (high - a) - num * (b - a)
        BY <1>1
    <3> QED
        BY <3>1, <3>2
  <2>3. len * (high - a) - num * (b - a) >= 0
    <3>1. CASE high = a
      <4>1. len * (high - a) = 0 /\ a - b >= 0 /\ a - b \in Int /\ num >= 0
          BY <3>1, <1>1
      <4>2. num * (a - b) >= 0
          BY <4>1, SignsAgree
      <4>3. num * (a - b) \in Int /\ num * (b - a) = - (num * (a - b))
          OBVIOUS
      <4> QED
          BY <4>1, <4>2, <4>3
    <3>2. CASE high = b
      <4>1. len - num >= 0 /\ b - a >= 0 /\ len - num \in Int /\ b - a \in Int
          BY <3>2, <1>1
      <4>2. (len - num) * (b - a) >= 0
          BY <4>1, SignsAgree
      <4>3. len * (b - a) - num * (b - a) = (len - num) * (b - a)
          OBVIOUS
      <4> QED
          BY <3>2, <4>2, <4>3
    <3> QED
        BY <3>1, <3>2
  <2>4. V - G >= 0
      BY <2>2, <2>3
  <2> HIDE DEF V, G
  <2>5. V \in Nat /\ G <= V
      BY <1>2, <1>3, <2>4
  <2>8. G * G <= V * V
      BY <1>3, <2>5, SquaresOrdered
  <2> QED
      BY <2>8 DEF G, V, GapWithin
<1>6. CASE ~(i < low) /\ ~(i > high)
  <2>1. g = 0
      BY <1>6 DEF Gap
  <2>2. G * G = 0
      BY <2>1
  <2>3. V * V \in Nat
      BY <1>2, SquareIs
  <2> QED
      BY <2>2, <2>3 DEF GapWithin
<1> QED
    BY <1>4, <1>5, <1>6

\* Its square in both coordinates, for an edge d and a point at w from its start.
LEMMA FootNearBox ==
    ASSUME NEW w1 \in Int, NEW w2 \in Int, NEW d1 \in Int, NEW d2 \in Int, NEW g \in Nat, NEW h \in Nat,
           NEW rr \in Nat, NEW len \in Int, NEW num \in Int, 0 < len,
           len = d1 * d1 + d2 * d2, num = w1 * d1 + w2 * d2,
           (w1 * w1 + w2 * w2) * len - num * num <= rr * len,
           (len * g) * (len * g) <= (len * w1 - num * d1) * (len * w1 - num * d1),
           (len * h) * (len * h) <= (len * w2 - num * d2) * (len * w2 - num * d2)
    PROVE  g * g + h * h <= rr
<1> DEFINE ww == w1 * w1 + w2 * w2
           X == len * w1 - num * d1
           Y == len * w2 - num * d2
           D == ww * len - num * num
           ll == len * len
           q == g * g + h * h
<1>1. X * X + Y * Y = len * D
  <2>1. X * X + Y * Y = ll * ww - len * num * (w1 * d1 + w2 * d2) - len * num * (w1 * d1 + w2 * d2)
                          + num * num * (d1 * d1 + d2 * d2)
      OBVIOUS
  <2>2. X * X + Y * Y = ll * ww - len * num * num - len * num * num + num * num * len
    <3> DEFINE u == w1 * d1 + w2 * d2  v == d1 * d1 + d2 * d2
    <3>1. X * X + Y * Y = ll * ww - len * num * u - len * num * u + num * num * v
        BY <2>1
    <3>2. u = num /\ v = len
        OBVIOUS
    <3> HIDE DEF u, v, X, Y, ll, ww
    <3> QED
        BY <3>1, <3>2
  <2>3. ww \in Int
      OBVIOUS
  <2> HIDE DEF ww, X, Y
  <2> QED
      BY <2>2, <2>3
<1>2. D <= rr * len
    OBVIOUS
<1>3. D \in Int /\ rr * len \in Int /\ ll \in Int /\ q \in Int
    OBVIOUS
<1>4. len * D <= len * (rr * len)
  <2> HIDE DEF D
  <2> QED
      BY <1>2, <1>3, ScaledIs
<1>5. len * (rr * len) = ll * rr
    OBVIOUS
<1>6. ll * q = (len * g) * (len * g) + (len * h) * (len * h)
    OBVIOUS
<1>7. ll > 0
    BY SquareIs
<1>8. ll * q <= ll * rr
  <2> DEFINE A == (len * g) * (len * g)  B == (len * h) * (len * h)  XX == X * X  YY == Y * Y
             P == len * D  Q == ll * rr  T == ll * q
  <2>1. A \in Int /\ B \in Int /\ XX \in Int /\ YY \in Int /\ P \in Int /\ Q \in Int /\ T \in Int
      BY <1>3
  <2>2. A <= XX /\ B <= YY
      OBVIOUS
  <2>3. T = A + B /\ XX + YY = P /\ P <= Q
    <3>1. T = A + B
        BY <1>6
    <3>2. XX + YY = P
        BY <1>1
    <3>3. P <= Q
        BY <1>4, <1>5
    <3> QED
        BY <3>1, <3>2, <3>3
  <2> HIDE DEF A, B, XX, YY, P, Q, T
  <2>4. T <= Q
      BY <2>1, <2>2, <2>3
  <2> QED
      BY <2>4 DEF T, Q
<1> HIDE DEF ll, q
<1>9. q <= rr
    BY <1>3, <1>7, <1>8, ScaledIs
<1> QED
    BY <1>9 DEF q

LEMMA PointIsNear ==
    ASSUME NEW S, NEW a \in S, a \in Plane, NEW c \in Plane, NEW r \in Nat,
           SquareDistance(c, a) <= Square(r)
    PROVE  NearBox(S, c, r)
<1> DEFINE a1 == a[1]  a2 == a[2]  c1 == c[1]  c2 == c[2]
<1>1. a1 \in Int /\ a2 \in Int /\ c1 \in Int /\ c2 \in Int
    BY DEF Plane
<1>2. (c1 - a1) * (c1 - a1) + (c2 - a2) * (c2 - a2) <= Square(r)
    BY DEF SquareDistance, Square
<1>3. Square(Gap(c1, a1, a1)) + Square(Gap(c2, a2, a2)) <= Square(r)
  <2> HIDE DEF a1, a2, c1, c2
  <2> QED
      BY <1>1, <1>2, GapIs
<1> QED
    BY <1>3, NearBoxIs

LEMMA SegmentIsNear ==
    ASSUME NEW S, NEW a \in S, NEW b \in S, a \in Plane, b \in Plane, NEW c \in Plane, NEW r \in Nat,
           NearSegment(c, a, b, r)
    PROVE  NearBox(S, c, r)
<1> DEFINE a1 == a[1]  a2 == a[2]  b1 == b[1]  b2 == b[2]  c1 == c[1]  c2 == c[2]
           w1 == c1 - a1  w2 == c2 - a2  d1 == b1 - a1  d2 == b2 - a2
           len == d1 * d1 + d2 * d2
           num == w1 * d1 + w2 * d2
           rr == r * r
           ww == w1 * w1 + w2 * w2
           L1 == IF a1 <= b1 THEN a ELSE b
           H1 == IF a1 <= b1 THEN b ELSE a
           L2 == IF a2 <= b2 THEN a ELSE b
           H2 == IF a2 <= b2 THEN b ELSE a
<1>1. a1 \in Int /\ a2 \in Int /\ b1 \in Int /\ b2 \in Int /\ c1 \in Int /\ c2 \in Int
    BY DEF Plane
<1>2. IF len = 0 \/ num <= 0 THEN SquareDistance(c, a) <= Square(r)
      ELSE IF num >= len THEN SquareDistance(c, b) <= Square(r)
      ELSE ww * len - num * num <= rr * len
    BY DEF NearSegment, SquareDistance, Square
<1>3. CASE SquareDistance(c, a) <= Square(r)
    BY <1>3, PointIsNear
<1>4. CASE SquareDistance(c, b) <= Square(r)
    BY <1>4, PointIsNear
<1>5. CASE len # 0 /\ 0 < num /\ num < len /\ ww * len - num * num <= rr * len
  <2>1. L1 \in S /\ H1 \in S /\ L2 \in S /\ H2 \in S
      OBVIOUS
  <2> DEFINE l1 == L1[1]  h1 == H1[1]  l2 == L2[2]  h2 == H2[2]
             g == Gap(c1, l1, h1)
             h == Gap(c2, l2, h2)
  <2>2. /\ l1 \in {a1, b1} /\ h1 \in {a1, b1} /\ l2 \in {a2, b2} /\ h2 \in {a2, b2}
        /\ l1 <= a1 /\ l1 <= b1 /\ h1 >= a1 /\ h1 >= b1
        /\ l2 <= a2 /\ l2 <= b2 /\ h2 >= a2 /\ h2 >= b2
    <3>1. CASE a1 <= b1
      <4>1. l1 = a1 /\ h1 = b1
          BY <3>1
      <4>2. CASE a2 <= b2
        <5>1. l2 = a2 /\ h2 = b2
            BY <4>2
        <5> HIDE DEF a1, a2, b1, b2, l1, h1, l2, h2
        <5> QED
            BY <1>1, <3>1, <4>1, <4>2, <5>1
      <4>3. CASE ~(a2 <= b2)
        <5>1. l2 = b2 /\ h2 = a2
            BY <4>3
        <5> HIDE DEF a1, a2, b1, b2, l1, h1, l2, h2
        <5> QED
            BY <1>1, <3>1, <4>1, <4>3, <5>1
      <4> QED
          BY <4>2, <4>3
    <3>2. CASE ~(a1 <= b1)
      <4>1. l1 = b1 /\ h1 = a1
          BY <3>2
      <4>2. CASE a2 <= b2
        <5>1. l2 = a2 /\ h2 = b2
            BY <4>2
        <5> HIDE DEF a1, a2, b1, b2, l1, h1, l2, h2
        <5> QED
            BY <1>1, <3>2, <4>1, <4>2, <5>1
      <4>3. CASE ~(a2 <= b2)
        <5>1. l2 = b2 /\ h2 = a2
            BY <4>3
        <5> HIDE DEF a1, a2, b1, b2, l1, h1, l2, h2
        <5> QED
            BY <1>1, <3>2, <4>1, <4>3, <5>1
      <4> QED
          BY <4>2, <4>3
    <3> QED
        BY <3>1, <3>2
  <2>8. Square(Gap(c[1], L1[1], H1[1])) = g * g /\ Square(Gap(c[2], L2[2], H2[2])) = h * h /\ Square(r) = rr
      BY DEF Square
  <2> HIDE DEF a1, a2, b1, b2, c1, c2, l1, h1, l2, h2
  <2>3. len \in Int /\ num \in Int /\ w1 \in Int /\ w2 \in Int /\ d1 \in Int /\ d2 \in Int
      BY <1>1
  <2>4. rr \in Nat
      BY SquareIs
  <2>5. g \in Nat /\ h \in Nat
    <3>1. l1 \in Int /\ h1 \in Int /\ l2 \in Int /\ h2 \in Int
        BY <1>1, <2>2
    <3> QED
        BY <1>1, <3>1, GapIs
  <2>6. (len * g) * (len * g) <= (len * w1 - num * d1) * (len * w1 - num * d1)
    <3>1. GapWithin(c1, a1, b1, l1, h1, len, num)
      <4> HIDE DEF len, num
      <4> QED
          BY <1>1, <1>5, <2>2, <2>3, FootGap
    <3> QED
        BY <3>1 DEF GapWithin
  <2>7. (len * h) * (len * h) <= (len * w2 - num * d2) * (len * w2 - num * d2)
    <3>1. GapWithin(c2, a2, b2, l2, h2, len, num)
      <4> HIDE DEF len, num
      <4> QED
          BY <1>1, <1>5, <2>2, <2>3, FootGap
    <3> QED
        BY <3>1 DEF GapWithin
  <2>9. g * g + h * h <= rr
    <3>1. len = d1 * d1 + d2 * d2 /\ num = w1 * d1 + w2 * d2 /\ (w1 * w1 + w2 * w2) * len - num * num <= rr * len
        BY <1>5
    <3>2. 0 < len
      <4> HIDE DEF len, num
      <4> QED
          BY <1>5, <2>3
    <3> HIDE DEF len, num, w1, w2, d1, d2, g, h, rr, ww
    <3> QED
        BY <2>3, <2>4, <2>5, <2>6, <2>7, <3>1, <3>2, FootNearBox
  <2>10. Square(Gap(c[1], L1[1], H1[1])) + Square(Gap(c[2], L2[2], H2[2])) <= Square(r)
      BY <2>8, <2>9
  <2> HIDE DEF L1, H1, L2, H2
  <2> QED
      BY <2>1, <2>10, NearBoxIs
<1> HIDE DEF w1, w2, d1, d2
<1>6. len \in Int /\ num \in Int
  <2>1. w1 \in Int /\ w2 \in Int /\ d1 \in Int /\ d2 \in Int
    <3> HIDE DEF a1, a2, b1, b2, c1, c2
    <3> QED
        BY <1>1 DEF w1, w2, d1, d2
  <2> QED
      BY <2>1
<1> HIDE DEF len, num, ww, rr
<1> QED
    BY <1>2, <1>3, <1>4, <1>5, <1>6

\* A crossing to the right of c: one end is not to the left of it, one is above and one is not.
LEMMA CrossingReaches ==
    ASSUME NEW c \in Plane, NEW a \in Plane, NEW b \in Plane, Crosses(c, b, a)
    PROVE  /\ a[1] >= c[1] \/ b[1] >= c[1]
           /\ (a[2] >= c[2] /\ b[2] <= c[2]) \/ (b[2] >= c[2] /\ a[2] <= c[2])
<1> DEFINE x1 == a[1] - c[1]  y1 == a[2] - c[2]  x2 == b[1] - c[1]  y2 == b[2] - c[2]
           t == Turn(c, a, b)
<1>1. a[1] \in Int /\ a[2] \in Int /\ b[1] \in Int /\ b[2] \in Int /\ c[1] \in Int /\ c[2] \in Int
    BY DEF Plane
<1>2. x1 \in Int /\ y1 \in Int /\ x2 \in Int /\ y2 \in Int
    BY <1>1
<1>3. t = x1 * y2 - y1 * x2
    BY DEF Turn
<1>4. (Above(c, a) <=> y1 > 0) /\ (Above(c, b) <=> y2 > 0)
    BY <1>1 DEF Above
<1>12. Crosses(c, b, a) <=> (y1 > 0 /\ ~(y2 > 0) /\ t < 0) \/ (~(y1 > 0) /\ y2 > 0 /\ t > 0)
    BY <1>4, CrossesIs
<1>5. (y1 > 0 /\ ~(y2 > 0) /\ t < 0) \/ (~(y1 > 0) /\ y2 > 0 /\ t > 0)
    BY <1>12
<1>6. /\ a[1] >= c[1] <=> x1 >= 0
      /\ b[1] >= c[1] <=> x2 >= 0
      /\ a[2] >= c[2] <=> y1 >= 0
      /\ b[2] >= c[2] <=> y2 >= 0
      /\ a[2] <= c[2] <=> y1 <= 0
      /\ b[2] <= c[2] <=> y2 <= 0
    BY <1>1
<1> HIDE DEF x1, y1, x2, y2, t
<1> DEFINE u == x1 * y2  v == y1 * x2
<1>7. u \in Int /\ v \in Int /\ t = u - v
    BY <1>2, <1>3
<1>8. /\ x1 < 0 /\ y2 < 0 => u > 0
      /\ x1 < 0 /\ y2 > 0 => u < 0
      /\ y2 = 0 => u = 0
    BY <1>2, SignOfProduct
<1>9. /\ y1 > 0 /\ x2 < 0 => v < 0
      /\ y1 < 0 /\ x2 < 0 => v > 0
      /\ y1 = 0 => v = 0
    BY <1>2, SignOfProduct
<1> HIDE DEF u, v
<1>10. x1 >= 0 \/ x2 >= 0
    BY <1>2, <1>5, <1>7, <1>8, <1>9
<1>11. (y1 >= 0 /\ y2 <= 0) \/ (y2 >= 0 /\ y1 <= 0)
    BY <1>2, <1>5
<1> QED
    BY <1>6, <1>10, <1>11

\* To the right of c, an edge is crossed exactly if one end is above c and the other is not.
LEMMA RightIsCrossed ==
    ASSUME NEW c \in Plane, NEW a \in Plane, NEW b \in Plane, a[1] > c[1], b[1] > c[1]
    PROVE  Crosses(c, b, a) <=> (Above(c, a) # Above(c, b))
<1> DEFINE x1 == a[1] - c[1]  y1 == a[2] - c[2]  x2 == b[1] - c[1]  y2 == b[2] - c[2]
           t == Turn(c, a, b)
<1>1. a[1] \in Int /\ a[2] \in Int /\ b[1] \in Int /\ b[2] \in Int /\ c[1] \in Int /\ c[2] \in Int
    BY DEF Plane
<1>2. x1 \in Int /\ y1 \in Int /\ x2 \in Int /\ y2 \in Int /\ x1 > 0 /\ x2 > 0
    BY <1>1
<1>3. t = x1 * y2 - y1 * x2
    BY DEF Turn
<1>4. (Above(c, a) <=> y1 > 0) /\ (Above(c, b) <=> y2 > 0)
    BY <1>1 DEF Above
<1>5. Crosses(c, b, a) <=> (y1 > 0 /\ ~(y2 > 0) /\ t < 0) \/ (~(y1 > 0) /\ y2 > 0 /\ t > 0)
    BY <1>4, CrossesIs
<1>6. Above(c, a) \in BOOLEAN /\ Above(c, b) \in BOOLEAN
    BY DEF Above
<1> HIDE DEF x1, y1, x2, y2, t
<1> DEFINE u == x1 * y2  v == y1 * x2
<1>7. u \in Int /\ v \in Int /\ t = u - v
    BY <1>2, <1>3
<1>8. /\ y2 < 0 => u < 0
      /\ y2 > 0 => u > 0
      /\ y2 = 0 => u = 0
    BY <1>2, SignOfProduct
<1>9. /\ y1 > 0 => v > 0
      /\ y1 < 0 => v < 0
      /\ y1 = 0 => v = 0
    BY <1>2, SignOfProduct
<1> HIDE DEF u, v
<1>10. (y1 > 0 /\ ~(y2 > 0) => t < 0) /\ (~(y1 > 0) /\ y2 > 0 => t > 0)
    BY <1>2, <1>7, <1>8, <1>9
<1> QED
    BY <1>4, <1>5, <1>6, <1>10

\* Whoever is inside a polygon is in its bounding box.
LEMMA InsideIsNear ==
    ASSUME NEW vs \in Seq(Plane), NEW c \in Plane, NEW r \in Nat, PolygonContains(vs, c)
    PROVE  NearBox(Range(vs), c, r)
<1> DEFINE n == Len(vs)
           C == Crossed(vs, c)
           S == Range(vs)
<1>1. n \in Nat /\ DOMAIN vs = 1 .. n /\ \A i \in 1 .. n : vs[i] \in Plane /\ vs[i] \in S
    BY DEF Range
<1>2. Odd(C) /\ C \subseteq 1 .. n
    BY ContainsIsOdd
<1>3. PICK i \in 1 .. n : i \in C
  <2>1. C # {}
      BY <1>2, NoneIsEven
  <2> QED
      BY <1>2, <2>1
<1> DEFINE a == vs[i]  b == vs[Following(vs, i)]
<1>4. a \in Plane /\ b \in Plane /\ a \in S /\ b \in S /\ Crosses(c, b, a)
    BY <1>1, <1>3, FollowingIs DEF Crossed
<1>5. n # 0
    BY <1>3
<1> HIDE DEF a, b
<1>6. PICK east \in {a, b} : east[1] >= c[1]
    BY <1>4, CrossingReaches
<1>7. PICK south \in {a, b}, north \in {a, b} : south[2] <= c[2] /\ north[2] >= c[2]
    BY <1>4, CrossingReaches
<1>8. PICK west \in S : west \in Plane /\ west[1] <= c[1]
  <2> SUFFICES ASSUME \A v \in S : v \in Plane => ~(v[1] <= c[1]) PROVE FALSE
      OBVIOUS
  <2>1. \A v \in Plane : v[1] \in Int /\ v[2] \in Int
      BY DEF Plane
  <2>2. \A j \in 1 .. n : vs[j][1] > c[1]
      BY <1>1, <2>1
  <2> DEFINE e == [j \in 1 .. n |-> Above(c, vs[j])]
  <2>3. e \in [1 .. n -> BOOLEAN]
      BY DEF Above
  <2>4. ASSUME NEW j \in 1 .. n PROVE j \in C <=> e[j] # e[(j % n) + 1]
    <3> DEFINE f == vs[j]  g == vs[Following(vs, j)]
    <3>1. f \in Plane /\ g \in Plane /\ Following(vs, j) \in 1 .. n /\ Following(vs, j) = (j % n) + 1
        BY FollowingIs DEF Following
    <3>2. f[1] > c[1] /\ g[1] > c[1]
        BY <2>2, <3>1
    <3>3. j \in C <=> Crosses(c, g, f)
        BY <1>1 DEF Crossed
    <3>4. e[j] = Above(c, f) /\ e[(j % n) + 1] = Above(c, g)
        BY <3>1
    <3> HIDE DEF f, g, C, e
    <3>5. Crosses(c, g, f) <=> (Above(c, f) # Above(c, g))
        BY <3>1, <3>2, RightIsCrossed
    <3> QED
        BY <3>3, <3>4, <3>5
  <2> HIDE DEF e, C
  <2>5. ~Odd(C)
    <3> HIDE DEF n
    <3> QED
        BY <1>1, <1>2, <1>5, <2>3, <2>4, LoopIsEven
  <2> QED
      BY <1>2, <2>5
<1>9. Square(Gap(c[1], west[1], east[1])) = 0 /\ Square(Gap(c[2], south[2], north[2])) = 0
  <2>1. /\ c[1] \in Int /\ c[2] \in Int /\ west[1] \in Int /\ east[1] \in Int
        /\ south[2] \in Int /\ north[2] \in Int
    <3>1. \A v \in Plane : v[1] \in Int /\ v[2] \in Int
        BY DEF Plane
    <3> QED
        BY <1>4, <3>1, <1>8
  <2>2. west[1] <= c[1] /\ c[1] <= east[1] /\ south[2] <= c[2] /\ c[2] <= north[2]
      BY <2>1, <1>6, <1>7, <1>8
  <2> QED
      BY <2>1, <2>2, GapIs
<1>10. 0 + 0 <= Square(r)
  <2>1. r * r \in Nat
      BY SquareIs
  <2> QED
      BY <2>1 DEF Square
<1>11. west \in S /\ east \in S /\ south \in S /\ north \in S
    BY <1>4, <1>8
<1> HIDE DEF S
<1>12. NearBox(S, c, r)
    BY <1>9, <1>10, <1>11, NearBoxIs
<1> QED
    BY <1>12 DEF S

LEMMA PolygonNear ==
    ASSUME NEW vs \in Seq(Plane), NEW c \in Plane, NEW r \in Nat, PolygonCoveredBy(vs, c, r)
    PROVE  NearBox(Range(vs), c, r)
<1>1. CASE PolygonContains(vs, c)
    BY <1>1, InsideIsNear
<1>2. CASE BoundaryWithin(vs, c, r)
  <2>1. PICK e \in Edges(vs) : NearSegment(c, e[1], e[2], r)
      BY <1>2 DEF BoundaryWithin
  <2>2. PICK i \in 1 .. Len(vs) : e = <<vs[i], vs[Following(vs, i)]>>
      BY <2>1 DEF Edges, Following
  <2> DEFINE a == vs[i]  b == vs[Following(vs, i)]
  <2>3. a \in Plane /\ b \in Plane /\ a \in Range(vs) /\ b \in Range(vs)
      BY FollowingIs DEF Range
  <2>4. e[1] = a /\ e[2] = b
      BY <2>2
  <2> HIDE DEF a, b
  <2>5. NearSegment(c, a, b, r)
      BY <2>1, <2>4
  <2> QED
      BY <2>3, <2>5, SegmentIsNear
<1> QED
    BY <1>1, <1>2 DEF PolygonCoveredBy

LEMMA ZoneNear ==
    ASSUME NEW c \in Plane, NEW r \in Nat
    PROVE  \A z \in Zone : ZoneCoveredBy[z][c][r] => NearBox(Extent[z], c, r)
<1> DEFINE S == {z \in Zone : ZoneCoveredBy[z][c][r] => NearBox(Extent[z], c, r)}
<1>1. \A z \in Zone :
          ZoneCoveredBy[z][c][r] <=>
              \/ z.type = CIRCLE /\ SquareDistance(c, z.center) <= Square(z.radius + r)
              \/ z.type = POLYGON /\ PolygonCoveredBy(z.vertices, c, r)
              \/ z.type = COMPOSITE /\ \E i \in DOMAIN z.components : ZoneCoveredBy[z.components[i]][c][r]
    BY CoveredByIs
<1>2. \A z \in Zone :
          /\ z.type = CIRCLE =>
                Extent[z] = {<<z.center[1] + i, z.center[2] + j>> : i, j \in {- z.radius, z.radius}}
          /\ z.type = POLYGON => Extent[z] = Range(z.vertices)
          /\ z.type = COMPOSITE =>
                Extent[z] = UNION {Extent[z.components[i]] : i \in DOMAIN z.components}
    BY ExtentIs
<1>3. Plain(Nat) \subseteq S
  <2> SUFFICES ASSUME NEW z \in Plain(Nat), ZoneCoveredBy[z][c][r] PROVE NearBox(Extent[z], c, r)
      BY PlainAreZones
  <2>1. z \in Zone /\ z.type # COMPOSITE
      BY PlainAreZones, PlainTypes
  <2>2. CASE z.type = CIRCLE /\ SquareDistance(c, z.center) <= Square(z.radius + r)
    <3> DEFINE o == z.center  R == z.radius
    <3>1. o \in Plane /\ R \in Nat
        BY <2>2, PlainTypes
    <3>2. Extent[z] = {<<o[1] + i, o[2] + j>> : i, j \in {- R, R}}
        BY <2>1, <2>2, <1>2
    <3>3. SquareDistance(c, o) <= Square(R + r)
        BY <2>2
    <3> HIDE DEF o, R
    <3>4. NearBox({<<o[1] + i, o[2] + j>> : i, j \in {- R, R}}, c, r)
        BY <3>1, <3>3, CircleNear
    <3> QED
        BY <3>2, <3>4
  <2>3. CASE z.type = POLYGON /\ PolygonCoveredBy(z.vertices, c, r)
    <3>1. z.vertices \in Seq(Plane)
        BY <2>3, PlainTypes
    <3>2. NearBox(Range(z.vertices), c, r)
        BY <3>1, <2>3, PolygonNear
    <3> QED
        BY <3>2, <2>1, <2>3, <1>2
  <2> QED
      BY <2>1, <2>2, <2>3, <1>1
<1>4. ASSUME NEW z \in Zone, z.type = COMPOSITE, \A i \in DOMAIN z.components : z.components[i] \in S
      PROVE  z \in S
  <2>1. CIRCLE # COMPOSITE /\ POLYGON # COMPOSITE
      BY Types
  <2> SUFFICES ASSUME ZoneCoveredBy[z][c][r] PROVE NearBox(Extent[z], c, r)
      OBVIOUS
  <2>2. PICK i \in DOMAIN z.components : ZoneCoveredBy[z.components[i]][c][r]
      BY <2>1, <1>1, <1>4
  <2>3. NearBox(Extent[z.components[i]], c, r)
      BY <2>2, <1>4
  <2>4. Extent[z.components[i]] \subseteq Extent[z]
      BY <2>2, <1>2, <1>4
  <2> QED
      BY <2>3, <2>4, NearBoxGrows
<1> HIDE DEF S
<1>5. Zone \subseteq S
    BY <1>3, <1>4, ZoneInduction
<1> QED
    BY <1>5 DEF S

\* No RSU is responsible for a zone that it cannot reach (ZoR::isCoveredBy and
\* Polygon::distanceToBoundary): it is in range of the box around the zone.
THEOREM ZonesCoveredIsNear == Spec => []CoveredIsNear
<1>1. Fits => CoveredIsNear
  <2> SUFFICES ASSUME Fits PROVE CoveredIsNear
      OBVIOUS
  <2>1. \A c \in Point : \A r \in Reach : ZoneCoveredBy[zone][c][r] => NearBox(Extent[zone], c, r)
      BY FitsIsZone, ZoneNear
  <2> QED
      BY <2>1 DEF CoveredIsNear, NearBox
<1> QED
    BY <1>1, ZonesFit, PTL
=============================================================================
