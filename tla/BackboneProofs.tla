--------------------------- MODULE BackboneProofs ---------------------------
(***************************************************************************)
(* What holds of the backbone for every set of RSUs, all costs of links    *)
(* and any number of links: the graph stays symmetric, Mira and            *)
(* ComputeDestinationNodes answer what their reference definitions say.    *)
(***************************************************************************)
EXTENDS Backbone, Induction

Links(G, n) == {Faces(G, n)[i] : i \in DOMAIN Faces(G, n)}

LinkType(G) == [remoteNodeId : DOMAIN G, linkCost : Nat \ {0}]

\* A finite graph every link of which has both its ends.
GoodGraph(G) ==
    /\ DOMAIN G \subseteq Nat /\ IsFiniteSet(DOMAIN G)
    /\ \A n \in DOMAIN G : G[n] \in Seq(LinkType(G))
    /\ \A n \in DOMAIN G : \A f \in Links(G, n) : Face(n, f.linkCost) \in Links(G, f.remoteNodeId)

LEMMA LinksOf ==
    ASSUME NEW G, GoodGraph(G), NEW n \in DOMAIN G
    PROVE  /\ Faces(G, n) \in Seq(LinkType(G))
           /\ DOMAIN Faces(G, n) = 1 .. Len(Faces(G, n)) /\ Len(Faces(G, n)) \in Nat
           /\ Faces(G, n) = G[n]
           /\ \A f \in Links(G, n) :
                 /\ f.remoteNodeId \in DOMAIN G /\ f.linkCost \in Nat /\ f.linkCost # 0
                 /\ Face(n, f.linkCost) \in Links(G, f.remoteNodeId)
<1>1. Faces(G, n) = G[n] /\ G[n] \in Seq(LinkType(G))
    BY DEF Faces, GoodGraph
<1> DEFINE s == G[n]
<1>2. s \in Seq(LinkType(G))
    BY <1>1
<1> HIDE DEF s
<1>3. DOMAIN s = 1 .. Len(s) /\ Len(s) \in Nat /\ \A i \in DOMAIN s : s[i] \in LinkType(G)
    BY <1>2
<1>4. \A f \in Links(G, n) : f \in LinkType(G)
    BY <1>1, <1>3 DEF Links, s
<1>5. \A f \in LinkType(G) : f.remoteNodeId \in DOMAIN G /\ f.linkCost \in Nat /\ f.linkCost # 0
    BY DEF LinkType
<1> QED
    BY <1>1, <1>2, <1>3, <1>4, <1>5 DEF GoodGraph, s

-----------------------------------------------------------------------------
(***************************************************************************)
(* The search.  A node is settled when the pair with its distance has      *)
(* left the queue.                                                         *)
(***************************************************************************)
SearchType(G) ==
    [distance : UNION {[D -> Nat] : D \in SUBSET DOMAIN G},
     parent   : UNION {[D -> DOMAIN G] : D \in SUBSET DOMAIN G},
     queue    : SUBSET (Nat \X DOMAIN G)]

Settled(x) == {n \in DOMAIN x.distance : <<x.distance[n], n>> \notin x.queue}

\* n is next on the way from m, by a face of m.
Tight(G, dist, m, n) ==
    \E f \in Links(G, m) : f.remoteNodeId = n /\ dist[n] = dist[m] + f.linkCost

SearchInv(G, src, x) ==
    /\ x \in SearchType(G)
    /\ IsFiniteSet(x.queue)
    /\ src \in DOMAIN x.distance /\ x.distance[src] = 0
    /\ DOMAIN x.parent = DOMAIN x.distance \ {src}
    /\ \A p \in x.queue : p[2] \in DOMAIN x.distance /\ x.distance[p[2]] <= p[1]
    /\ \A m \in Settled(x) : \A p \in x.queue : x.distance[m] <= p[1]
    /\ \A n \in DOMAIN x.parent :
          x.parent[n] \in Settled(x) /\ Tight(G, x.distance, x.parent[n], n)

\* n is the node that was settled last.
Last1(x, n) ==
    /\ n \in Settled(x)
    /\ \A m \in Settled(x) : x.distance[m] <= x.distance[n]
    /\ \A p \in x.queue : x.distance[n] <= p[1]

Follows(x, n, f) ==
    /\ f.remoteNodeId \in DOMAIN x.distance
    /\ x.distance[f.remoteNodeId] <= x.distance[n] + f.linkCost

\* From x to y no distance grows, and those of settled nodes stay.
Closer(x, y) ==
    /\ DOMAIN x.distance \subseteq DOMAIN y.distance
    /\ \A m \in DOMAIN x.distance : y.distance[m] <= x.distance[m]
    /\ \A m \in Settled(x) : y.distance[m] = x.distance[m]

LEMMA SearchParts ==
    ASSUME NEW G, NEW x
    PROVE  x \in SearchType(G) <=>
               /\ x = [distance |-> x.distance, parent |-> x.parent, queue |-> x.queue]
               /\ DOMAIN x.distance \subseteq DOMAIN G /\ x.distance \in [DOMAIN x.distance -> Nat]
               /\ DOMAIN x.parent \subseteq DOMAIN G /\ x.parent \in [DOMAIN x.parent -> DOMAIN G]
               /\ x.queue \subseteq Nat \X DOMAIN G
  BY DEF SearchType

LEMMA OneMore ==
    ASSUME NEW S, IsFiniteSet(S), NEW e
    PROVE  IsFiniteSet(S \cup {e}) /\ Cardinality(S \cup {e}) <= Cardinality(S) + 1
<1> DEFINE T == S \cup {e}
<1>1. /\ IsFiniteSet(T)
      /\ Cardinality(T) = (IF e \in S THEN Cardinality(S) ELSE Cardinality(S) + 1)
    BY FS_AddElement
<1>2. Cardinality(S) \in Nat
    BY FS_CardinalityType
<1> QED
    BY <1>1, <1>2

LEMMA RelaxKeeps ==
    ASSUME NEW G, GoodGraph(G), NEW src \in DOMAIN G, NEW x, SearchInv(G, src, x),
           NEW n, Last1(x, n), NEW f \in Links(G, n)
    PROVE  LET y == Relax(x, n, f)
           IN  /\ SearchInv(G, src, y) /\ Last1(y, n)
               /\ Settled(y) = Settled(x) /\ Closer(x, y) /\ Follows(y, n, f)
               /\ Cardinality(y.queue) <= Cardinality(x.queue) + 1
<1> DEFINE r    == f.remoteNodeId
           cost == x.distance[n] + f.linkCost
           y    == Relax(x, n, f)
<1>1. /\ x = [distance |-> x.distance, parent |-> x.parent, queue |-> x.queue]
      /\ DOMAIN x.distance \subseteq DOMAIN G /\ x.distance \in [DOMAIN x.distance -> Nat]
      /\ DOMAIN x.parent \subseteq DOMAIN G /\ x.parent \in [DOMAIN x.parent -> DOMAIN G]
      /\ x.queue \subseteq Nat \X DOMAIN G
    BY SearchParts DEF SearchInv
<1>2. n \in DOMAIN x.distance /\ n \in DOMAIN G /\ x.distance[n] \in Nat
    BY <1>1 DEF Last1, Settled
<1>3. r \in DOMAIN G /\ f.linkCost \in Nat /\ f.linkCost # 0 /\ cost \in Nat /\ x.distance[n] < cost
  <2>1. r \in DOMAIN G /\ f.linkCost \in Nat /\ f.linkCost # 0
      BY <1>2, LinksOf
  <2> QED
      BY <1>2, <2>1
<1>4. IsFiniteSet(x.queue) /\ Cardinality(x.queue) \in Nat
    BY FS_CardinalityType DEF SearchInv
<1>5. CASE r \in DOMAIN x.distance /\ x.distance[r] <= cost
  <2>1. y = x
      BY <1>5 DEF Relax
  <2>2. Closer(x, x)
      BY <1>1 DEF Closer
  <2>3. Follows(x, n, f)
      BY <1>5 DEF Follows
  <2> QED
      BY <2>1, <2>2, <2>3, <1>4
<1>6. CASE ~(r \in DOMAIN x.distance /\ x.distance[r] <= cost)
  <2> DEFINE pair == <<cost, r>>
             dist == With(x.distance, r, cost)
             par  == With(x.parent, r, n)
             q    == x.queue \cup {pair}
  <2>1. y = [distance |-> dist, parent |-> par, queue |-> q]
      BY <1>6 DEF Relax
  <2>2. /\ DOMAIN dist = DOMAIN x.distance \cup {r} /\ dist[r] = cost
        /\ \A m \in DOMAIN x.distance : m # r => dist[m] = x.distance[m]
        /\ DOMAIN par = DOMAIN x.parent \cup {r} /\ par[r] = n
        /\ \A m \in DOMAIN x.parent : m # r => par[m] = x.parent[m]
        /\ dist \in [DOMAIN dist -> Nat] /\ par \in [DOMAIN par -> DOMAIN G]
      BY <1>1, <1>2, <1>3 DEF With
  <2> HIDE DEF dist, par
  <2>3. y.distance = dist /\ y.parent = par /\ y.queue = q
      BY <2>1
  <2>4. y \in SearchType(G)
    <3>1. y.queue \subseteq Nat \X DOMAIN G
        BY <1>1, <1>3, <2>3
    <3> QED
        BY <3>1, <1>1, <1>3, <2>1, <2>2, <2>3, SearchParts
  <2> HIDE DEF y
  <2>5. r \notin Settled(x)
    <3> SUFFICES ASSUME r \in Settled(x) PROVE FALSE
        OBVIOUS
    <3>1. r \in DOMAIN x.distance /\ x.distance[r] <= x.distance[n] /\ x.distance[r] \in Nat
        BY <1>1 DEF Last1, Settled
    <3> QED
        BY <3>1, <1>2, <1>3, <1>6
  <2>6. \A m \in DOMAIN x.distance : m # r => (<<dist[m], m>> \in q <=> <<x.distance[m], m>> \in x.queue)
      BY <2>2
  <2>7. <<dist[r], r>> \in q
      BY <2>2
  <2>8. Settled(y) = Settled(x)
    <3>1. \A m \in DOMAIN x.distance : m # r => (m \in Settled(y) <=> m \in Settled(x))
        BY <2>2, <2>3, <2>6 DEF Settled
    <3>2. r \notin Settled(y)
        BY <2>3, <2>7 DEF Settled
    <3>3. \A m \in Settled(y) : m \in DOMAIN x.distance \cup {r}
        BY <2>2, <2>3 DEF Settled
    <3>4. \A m \in Settled(x) : m \in DOMAIN x.distance
        BY DEF Settled
    <3> QED
        BY <3>1, <3>2, <3>3, <3>4, <2>5
  <2>9. \A m \in Settled(x) : m # r /\ m \in DOMAIN x.distance /\ dist[m] = x.distance[m]
      BY <2>2, <2>5 DEF Settled
  <2>10. Closer(x, y)
    <3>1. \A m \in DOMAIN x.distance : dist[m] <= x.distance[m]
      <4> SUFFICES ASSUME NEW m \in DOMAIN x.distance PROVE dist[m] <= x.distance[m]
          OBVIOUS
      <4>1. CASE m = r
        <5>1. x.distance[m] \in Nat /\ ~(x.distance[m] <= cost) /\ dist[m] = cost
            BY <4>1, <1>1, <1>6, <2>2
        <5> QED
            BY <5>1, <1>3
      <4>2. CASE m # r
        <5>1. x.distance[m] \in Nat /\ dist[m] = x.distance[m]
            BY <4>2, <1>1, <2>2
        <5> QED
            BY <5>1
      <4> QED
          BY <4>1, <4>2
    <3> QED
        BY <3>1, <2>2, <2>3, <2>9 DEF Closer
  <2>11. Follows(y, n, f)
    <3>1. dist[n] = x.distance[n]
        BY <2>9 DEF Last1
    <3> QED
        BY <3>1, <2>2, <2>3, <1>3 DEF Follows
  <2>12. r # src
    <3>1. src \in DOMAIN x.distance /\ x.distance[src] = 0
        BY DEF SearchInv
    <3> QED
        BY <3>1, <1>3, <1>6
  <2>13. IsFiniteSet(q) /\ Cardinality(q) <= Cardinality(x.queue) + 1
      BY <1>4, OneMore
  <2>14. src \in DOMAIN dist /\ dist[src] = 0 /\ DOMAIN par = DOMAIN dist \ {src}
      BY <2>2, <2>12 DEF SearchInv
  <2>15. \A p \in q : p[2] \in DOMAIN dist /\ dist[p[2]] <= p[1]
    <3> SUFFICES ASSUME NEW p \in q PROVE p[2] \in DOMAIN dist /\ dist[p[2]] <= p[1]
        OBVIOUS
    <3>1. CASE p = pair
        BY <3>1, <2>2, <1>3
    <3>2. CASE p \in x.queue
      <4>1. /\ p[2] \in DOMAIN x.distance /\ x.distance[p[2]] <= p[1] /\ p[1] \in Nat
            /\ x.distance[p[2]] \in Nat
          BY <3>2, <1>1 DEF SearchInv
      <4>2. dist[p[2]] <= x.distance[p[2]] /\ dist[p[2]] \in Nat /\ p[2] \in DOMAIN dist
          BY <4>1, <2>2, <2>3, <2>10 DEF Closer
      <4> QED
          BY <4>1, <4>2
    <3> QED
        BY <3>1, <3>2
  <2>16. \A m \in Settled(x) : \A p \in q : dist[m] <= p[1]
    <3> SUFFICES ASSUME NEW m \in Settled(x), NEW p \in q PROVE x.distance[m] <= p[1]
        BY <2>9
    <3>1. CASE p = pair
      <4>1. x.distance[m] <= x.distance[n] /\ x.distance[m] \in Nat
          BY <1>1 DEF Last1, Settled
      <4> QED
          BY <3>1, <4>1, <1>2, <1>3
    <3>2. CASE p \in x.queue
        BY <3>2 DEF SearchInv
    <3> QED
        BY <3>1, <3>2
  <2>17. ASSUME NEW m \in DOMAIN par
         PROVE  par[m] \in Settled(x) /\ Tight(G, dist, par[m], m)
    <3>1. CASE m = r
      <4>1. par[m] = n /\ dist[m] = cost /\ dist[n] = x.distance[n] /\ n \in Settled(x)
          BY <3>1, <2>2, <2>9 DEF Last1
      <4> QED
          BY <3>1, <4>1 DEF Tight
    <3>2. CASE m # r
      <4>1. m \in DOMAIN x.parent /\ par[m] = x.parent[m] /\ m \in DOMAIN x.distance
          BY <3>2, <2>2 DEF SearchInv
      <4>2. x.parent[m] \in Settled(x) /\ Tight(G, x.distance, x.parent[m], m)
          BY <4>1 DEF SearchInv
      <4>3. dist[m] = x.distance[m] /\ dist[par[m]] = x.distance[par[m]]
          BY <3>2, <4>1, <4>2, <2>2, <2>9
      <4> QED
          BY <4>1, <4>2, <4>3 DEF Tight
    <3> QED
        BY <3>1, <3>2
  <2>18. SearchInv(G, src, y)
      BY <2>3, <2>4, <2>8, <2>13, <2>14, <2>15, <2>16, <2>17 DEF SearchInv
  <2>19. Last1(y, n)
    <3>1. n \in Settled(x) /\ dist[n] = x.distance[n]
        BY <2>9 DEF Last1
    <3>2. \A m \in Settled(x) : dist[m] <= dist[n]
        BY <3>1, <2>9 DEF Last1
    <3>3. \A p \in q : dist[n] <= p[1]
        BY <3>1, <2>16
    <3> QED
        BY <3>1, <3>2, <3>3, <2>3, <2>8 DEF Last1
  <2> QED
      BY <2>3, <2>8, <2>10, <2>11, <2>13, <2>18, <2>19 DEF y
<1> QED
    BY <1>5, <1>6

\* The faces of n, one after the other.
LEMMA RelaxingKeeps ==
    ASSUME NEW G, GoodGraph(G), NEW src \in DOMAIN G, NEW x, SearchInv(G, src, x),
           NEW n \in DOMAIN G, Last1(x, n)
    PROVE  LET faces == Faces(G, n)
               y     == Relaxing(x, n, faces)[Len(faces)]
           IN  /\ SearchInv(G, src, y)
               /\ Settled(y) = Settled(x) /\ Closer(x, y)
               /\ \A f \in Links(G, n) : Follows(y, n, f)
               /\ Cardinality(y.queue) <= Cardinality(x.queue) + Len(faces)
<1> DEFINE faces == Faces(G, n)
           N     == Len(faces)
           S     == {z \in SearchType(G) : SearchInv(G, src, z) /\ Last1(z, n)}
           Loop(g) == [i \in 0 .. N |-> IF i = 0 THEN x ELSE Relax(g[i - 1], n, faces[i])]
           step  == [i \in 1 .. N |-> [z \in S |-> Relax(z, n, faces[i])]]
<1>1. N \in Nat /\ \A i \in 1 .. N : faces[i] \in Links(G, n)
    BY LinksOf DEF Links
<1>2. Relaxing(x, n, faces) = CHOOSE g : g = Loop(g)
    BY DEF Relaxing
<1>3. Links(G, n) = {faces[i] : i \in 1 .. N}
    BY LinksOf DEF Links
<1> HIDE DEF faces, N
<1>4. x \in S
    BY DEF SearchInv
<1>5. ASSUME NEW i \in 1 .. N, NEW z \in S
      PROVE  LET y == Relax(z, n, faces[i])
             IN  /\ y \in S /\ Settled(y) = Settled(z) /\ Closer(z, y) /\ Follows(y, n, faces[i])
                 /\ Cardinality(y.queue) <= Cardinality(z.queue) + 1
  <2>1. SearchInv(G, src, z) /\ Last1(z, n) /\ faces[i] \in Links(G, n)
      BY <1>1, <1>5
  <2> DEFINE y == Relax(z, n, faces[i])
  <2>2. /\ SearchInv(G, src, y) /\ Last1(y, n)
        /\ Settled(y) = Settled(z) /\ Closer(z, y) /\ Follows(y, n, faces[i])
        /\ Cardinality(y.queue) <= Cardinality(z.queue) + 1
      BY <2>1, RelaxKeeps
  <2>3. y \in SearchType(G)
      BY <2>2 DEF SearchInv
  <2> QED
      BY <2>2, <2>3
<1>6. step \in [1 .. N -> [S -> S]] /\ \A i \in 1 .. N : \A z \in S : step[i][z] = Relax(z, n, faces[i])
    BY <1>5
<1> HIDE DEF S, step
<1>7. PICK h \in [0 .. N -> S] : IsRun(h, x, step, N)
    BY <1>1, <1>4, <1>6, RecursionExists
<1>8. h[0] = x /\ \A i \in 1 .. N : h[i] = step[i][h[i - 1]]
    BY <1>7 DEF IsRun
<1>9. h = Loop(h)
  <2>1. ASSUME NEW i \in 1 .. N PROVE h[i] = Relax(h[i - 1], n, faces[i])
    <3>1. h[i - 1] \in S
        BY <1>1
    <3> QED
        BY <3>1, <1>6, <1>8
  <2>2. \A i \in 0 .. N : i = 0 \/ i \in 1 .. N
      BY <1>1
  <2>3. \A i \in 0 .. N : h[i] = Loop(h)[i]
      BY <2>1, <2>2, <1>8
  <2> QED
      BY <2>3
<1> DEFINE run == Relaxing(x, n, faces)
<1>10. run = Loop(run)
    BY <1>2, <1>9
<1> HIDE DEF run
<1>11. run[0] = x /\ \A i \in 1 .. N : run[i] = Relax(run[i - 1], n, faces[i])
  <2>1. 0 \in 0 .. N /\ \A i \in 1 .. N : i \in 0 .. N /\ i # 0
      BY <1>1
  <2> QED
      BY <2>1, <1>10
<1> DEFINE Done(i, z) ==
               /\ z \in S /\ Settled(z) = Settled(x) /\ Closer(x, z)
               /\ \A j \in 1 .. i : Follows(z, n, faces[j])
               /\ Cardinality(z.queue) <= Cardinality(x.queue) + i
           T == {i \in 0 .. N : Done(i, run[i])}
<1>12. 0 \in T
  <2>1. x.distance \in [DOMAIN x.distance -> Nat] /\ IsFiniteSet(x.queue)
      BY SearchParts DEF SearchInv
  <2>2. Closer(x, x)
      BY <2>1 DEF Closer
  <2>3. Cardinality(x.queue) <= Cardinality(x.queue) + 0
      BY <2>1, FS_CardinalityType
  <2> QED
      BY <2>2, <2>3, <1>1, <1>4, <1>11
<1>13. ASSUME NEW i \in 0 .. N - 1, i \in T PROVE i + 1 \in T
  <2> DEFINE z == run[i]
             y == run[i + 1]
  <2>1. i + 1 \in 1 .. N /\ (i + 1) - 1 = i /\ i + 1 \in 0 .. N /\ i \in Nat
      BY <1>1
  <2>2. y = Relax(z, n, faces[i + 1])
      BY <2>1, <1>11
  <2>3. Done(i, z)
      BY <1>13
  <2> HIDE DEF z, y
  <2>4. /\ y \in S /\ Settled(y) = Settled(z) /\ Closer(z, y) /\ Follows(y, n, faces[i + 1])
        /\ Cardinality(y.queue) <= Cardinality(z.queue) + 1
      BY <2>1, <2>2, <2>3, <1>5
  <2>5. /\ x.distance \in [DOMAIN x.distance -> Nat] /\ IsFiniteSet(x.queue)
        /\ z.distance \in [DOMAIN z.distance -> Nat] /\ IsFiniteSet(z.queue)
        /\ y.distance \in [DOMAIN y.distance -> Nat] /\ IsFiniteSet(y.queue)
    <3>1. x \in S /\ z \in S /\ y \in S
        BY <1>4, <2>3, <2>4
    <3> QED
        BY <3>1, SearchParts DEF SearchInv, S
  <2>6. Closer(x, y)
    <3>1. \A m \in DOMAIN x.distance : m \in DOMAIN y.distance /\ y.distance[m] <= x.distance[m]
      <4> SUFFICES ASSUME NEW m \in DOMAIN x.distance
                   PROVE  m \in DOMAIN y.distance /\ y.distance[m] <= x.distance[m]
          OBVIOUS
      <4>1. m \in DOMAIN z.distance /\ z.distance[m] <= x.distance[m]
          BY <2>3 DEF Closer
      <4>2. m \in DOMAIN y.distance /\ y.distance[m] <= z.distance[m]
          BY <4>1, <2>4 DEF Closer
      <4>3. x.distance[m] \in Nat /\ z.distance[m] \in Nat /\ y.distance[m] \in Nat
          BY <4>1, <4>2, <2>5
      <4> QED
          BY <4>1, <4>2, <4>3
    <3>2. \A m \in Settled(x) : y.distance[m] = x.distance[m]
        BY <2>3, <2>4 DEF Closer
    <3> QED
        BY <3>1, <3>2 DEF Closer
  <2>7. \A j \in 1 .. i + 1 : Follows(y, n, faces[j])
    <3> SUFFICES ASSUME NEW j \in 1 .. i PROVE Follows(y, n, faces[j])
        BY <2>1, <2>4
    <3> DEFINE r == faces[j].remoteNodeId
    <3>1. Follows(z, n, faces[j])
        BY <2>3
    <3>2. faces[j].linkCost \in Nat
      <4>1. j \in 1 .. N
          BY <1>1, <1>13, <2>1
      <4> QED
          BY <4>1, <1>1, LinksOf
    <3>3. n \in Settled(z)
        BY <2>3 DEF S, Last1
    <3>4. y.distance[n] = z.distance[n] /\ n \in DOMAIN z.distance /\ z.distance[n] \in Nat
        BY <3>3, <2>4, <2>5 DEF Closer, Settled
    <3>5. /\ r \in DOMAIN z.distance /\ z.distance[r] <= z.distance[n] + faces[j].linkCost
          /\ r \in DOMAIN y.distance /\ y.distance[r] <= z.distance[r]
          /\ z.distance[r] \in Nat /\ y.distance[r] \in Nat
        BY <3>1, <2>4, <2>5 DEF Follows, Closer
    <3> HIDE DEF r
    <3>6. y.distance[r] <= y.distance[n] + faces[j].linkCost
        BY <3>2, <3>4, <3>5
    <3> QED
        BY <3>5, <3>6 DEF Follows, r
  <2>8. Cardinality(y.queue) <= Cardinality(x.queue) + (i + 1)
    <3>1. Cardinality(x.queue) \in Nat /\ Cardinality(z.queue) \in Nat /\ Cardinality(y.queue) \in Nat
        BY <2>5, FS_CardinalityType
    <3>2. Cardinality(z.queue) <= Cardinality(x.queue) + i
        BY <2>3
    <3> QED
        BY <3>1, <3>2, <2>1, <2>4
  <2>9. Settled(y) = Settled(x)
      BY <2>3, <2>4
  <2>10. Done(i + 1, y)
      BY <2>4, <2>6, <2>7, <2>8, <2>9
  <2> QED
      BY <2>1, <2>10 DEF y
<1> HIDE DEF Done, T
<1>14. 0 .. N \subseteq T
    BY <1>1, <1>12, <1>13, UpToInduction
<1>15. N \in 0 .. N
    BY <1>1
<1>16. N \in T
    BY <1>14, <1>15
<1> USE DEF Done, T
<1>17. Done(N, run[N])
    BY <1>16
<1> QED
    BY <1>3, <1>17 DEF S, run, faces, N

-----------------------------------------------------------------------------
(***************************************************************************)
(* One iteration.  The pairs of the queue and the faces of nodes that are  *)
(* not settled bound the iterations that are left.                         *)
(***************************************************************************)
Positions(G, T) == UNION {{m} \X DOMAIN G[m] : m \in DOMAIN G \ T}

Measure(G, x) == Cardinality(x.queue) + Cardinality(Positions(G, Settled(x)))

LEMMA PositionsFinite ==
    ASSUME NEW G, GoodGraph(G), NEW T
    PROVE  IsFiniteSet(Positions(G, T))
<1> DEFINE A == DOMAIN G \ T
           h == [m \in A |-> {m} \X DOMAIN G[m]]
           B == {{m} \X DOMAIN G[m] : m \in A}
<1>1. IsFiniteSet(A)
  <2>1. A \in SUBSET DOMAIN G /\ IsFiniteSet(DOMAIN G)
      BY DEF GoodGraph
  <2> HIDE DEF A
  <2> QED
      BY <2>1, FS_Subset
<1>2. \A m \in A : IsFiniteSet({m} \X DOMAIN G[m])
  <2> SUFFICES ASSUME NEW m \in A PROVE IsFiniteSet({m} \X DOMAIN G[m])
      OBVIOUS
  <2>1. G[m] = Faces(G, m) /\ DOMAIN G[m] = 1 .. Len(G[m]) /\ Len(G[m]) \in Nat
      BY LinksOf
  <2>2. IsFiniteSet(DOMAIN G[m])
      BY <2>1, FS_Interval
  <2> QED
      BY <2>2, FS_Singleton, FS_Product
<1>3. h \in Surjection(A, B)
    BY DEF Surjection
<1> HIDE DEF A, B, h
<1>4. IsFiniteSet(B)
    BY <1>1, <1>3, FS_Surjection
<1>5. \A U \in B : IsFiniteSet(U)
    BY <1>2 DEF B
<1>6. IsFiniteSet(UNION B)
    BY <1>4, <1>5, FS_UNION
<1> QED
    BY <1>6 DEF Positions, A, B

LEMMA PositionsLess ==
    ASSUME NEW G, GoodGraph(G), NEW T, NEW n \in DOMAIN G, n \notin T
    PROVE  Cardinality(Positions(G, T)) =
               Cardinality(Positions(G, T \cup {n})) + Len(Faces(G, n))
<1> DEFINE P == Positions(G, T)
           Q == Positions(G, T \cup {n})
           R == {n} \X DOMAIN G[n]
           k == Len(Faces(G, n))
<1>1. P = Q \cup R /\ Q \cap R = {}
    BY DEF Positions
<1>2. IsFiniteSet(Q)
    BY PositionsFinite
<1>3. k \in Nat /\ DOMAIN G[n] = 1 .. k
    BY LinksOf
<1>4. IsFiniteSet(R) /\ Cardinality(R) = k
  <2>1. IsFiniteSet(1 .. k) /\ Cardinality(1 .. k) = k
      BY <1>3, FS_Interval
  <2>2. IsFiniteSet({n}) /\ Cardinality({n}) = 1
      BY FS_Singleton
  <2>3. IsFiniteSet({n} \X (1 .. k)) /\ Cardinality({n} \X (1 .. k)) = 1 * k
      BY <2>1, <2>2, FS_Product
  <2> QED
      BY <2>3, <1>3
<1> HIDE DEF P, Q, R, k
<1>5. Cardinality(Q \cup R) = Cardinality(Q) + Cardinality(R) - Cardinality({})
    BY <1>1, <1>2, <1>4, FS_Union
<1>6. Cardinality({}) = 0 /\ Cardinality(Q) \in Nat
    BY <1>2, FS_EmptySet, FS_CardinalityType
<1>7. Cardinality(P) = Cardinality(Q) + k
    BY <1>1, <1>3, <1>4, <1>5, <1>6
<1> QED
    BY <1>7 DEF P, Q, k

LEMMA TopIsLeast ==
    ASSUME NEW V \in SUBSET Nat, NEW q \in SUBSET (Nat \X V), q # {}
    PROVE  Top(q) \in q /\ \A p \in q : Top(q)[1] <= p[1]
<1> DEFINE Least(p) == \A r \in q : p[1] < r[1] \/ (p[1] = r[1] /\ p[2] <= r[2])
           C == {p[1] : p \in q}
<1>0. \A p \in q : p = <<p[1], p[2]>> /\ p[1] \in Nat /\ p[2] \in Nat
  <2>1. \A p \in Nat \X V : p = <<p[1], p[2]>> /\ p[1] \in Nat /\ p[2] \in V
      OBVIOUS
  <2> QED
      BY <2>1
<1>1. C \in SUBSET Nat /\ C # {}
    BY <1>0
<1> HIDE DEF C
<1>2. PICK c \in C : \A d \in C : c <= d
    BY <1>1, LeastNat
<1> USE DEF C
<1> DEFINE M == {p[2] : p \in {r \in q : r[1] = c}}
<1>3. M \in SUBSET Nat /\ M # {}
    BY <1>0, <1>2
<1> HIDE DEF M
<1>4. PICK m \in M : \A k \in M : m <= k
    BY <1>3, LeastNat
<1> USE DEF M
<1>5. PICK p \in q : p[1] = c /\ p[2] = m
    BY <1>4
<1>6. Least(p)
  <2> SUFFICES ASSUME NEW r \in q PROVE p[1] < r[1] \/ (p[1] = r[1] /\ p[2] <= r[2])
      OBVIOUS
  <2>1. c <= r[1] /\ c \in Nat /\ r[1] \in Nat
      BY <1>0, <1>1, <1>2
  <2>2. r[1] = c => m <= r[2]
      BY <1>4
  <2> QED
      BY <2>1, <2>2, <1>5
<1>7. Top(q) = CHOOSE r \in q : Least(r)
    BY DEF Top
<1> HIDE DEF Least
<1>8. Top(q) \in q /\ Least(Top(q))
    BY <1>6, <1>7
<1> QED
    BY <1>0, <1>8 DEF Least

\* Between two iterations the faces of the settled nodes have been followed.
Searched(G, src, x) ==
    SearchInv(G, src, x) /\ \A m \in Settled(x) : \A f \in Links(G, m) : Follows(x, m, f)

LEMMA PopKeeps ==
    ASSUME NEW G, GoodGraph(G), NEW src \in DOMAIN G, NEW x, Searched(G, src, x), x.queue # {}
    PROVE  Searched(G, src, Pop(G, x)) /\ Measure(G, Pop(G, x)) < Measure(G, x)
<1> DEFINE top  == Top(x.queue)
           n    == top[2]
           rest == [x EXCEPT !.queue = x.queue \ {top}]
           y    == Relaxing(rest, n, Faces(G, n))[Len(Faces(G, n))]
<1>1. /\ SearchInv(G, src, x) /\ IsFiniteSet(x.queue)
      /\ x = [distance |-> x.distance, parent |-> x.parent, queue |-> x.queue]
      /\ DOMAIN x.distance \subseteq DOMAIN G /\ x.distance \in [DOMAIN x.distance -> Nat]
      /\ DOMAIN x.parent \subseteq DOMAIN G /\ x.parent \in [DOMAIN x.parent -> DOMAIN G]
      /\ x.queue \subseteq Nat \X DOMAIN G
    BY SearchParts DEF Searched, SearchInv
<1>2. top \in x.queue /\ \A p \in x.queue : top[1] <= p[1]
    BY <1>1, TopIsLeast DEF GoodGraph
<1>3. Pop(G, x) = IF top[1] > x.distance[n] THEN rest ELSE y
    BY DEF Pop
<1> HIDE DEF top
<1>4. /\ top = <<top[1], n>> /\ top[1] \in Nat /\ n \in DOMAIN G
      /\ n \in DOMAIN x.distance /\ x.distance[n] <= top[1] /\ x.distance[n] \in Nat
    BY <1>1, <1>2 DEF SearchInv
<1>5. rest = [distance |-> x.distance, parent |-> x.parent, queue |-> x.queue \ {top}]
    BY <1>1
<1> HIDE DEF rest, n
<1>6. rest.distance = x.distance /\ rest.parent = x.parent /\ rest.queue = x.queue \ {top}
    BY <1>5
<1>7. rest \in SearchType(G)
    BY <1>1, <1>5, <1>6, SearchParts
<1>8. /\ IsFiniteSet(rest.queue) /\ Cardinality(rest.queue) = Cardinality(x.queue) - 1
      /\ Cardinality(x.queue) \in Nat /\ Cardinality(rest.queue) \in Nat
  <2>1. IsFiniteSet(x.queue \ {top}) /\ Cardinality(x.queue \ {top}) = Cardinality(x.queue) - 1
      BY <1>1, <1>2, FS_RemoveElement
  <2> QED
      BY <2>1, <1>1, <1>6, FS_CardinalityType
<1>9. \A m \in Settled(x) : m \in Settled(rest) /\ x.distance[m] \in Nat
    BY <1>1, <1>6 DEF Settled
<1>10. \A m \in Settled(rest) : m \in Settled(x) \/ (m = n /\ top[1] = x.distance[n])
    BY <1>1, <1>4, <1>6 DEF Settled
<1>11. \A m \in Settled(x) : x.distance[m] <= top[1]
    BY <1>1, <1>2 DEF SearchInv
<1>12. \A m \in Settled(rest) : \A p \in rest.queue : x.distance[m] <= p[1]
  <2> SUFFICES ASSUME NEW m \in Settled(rest), NEW p \in rest.queue PROVE x.distance[m] <= p[1]
      OBVIOUS
  <2>1. p \in x.queue /\ top[1] <= p[1]
      BY <1>2, <1>6
  <2>2. CASE m \in Settled(x)
      BY <2>1, <2>2, <1>1 DEF SearchInv
  <2>3. CASE m = n /\ top[1] = x.distance[n]
      BY <2>1, <2>3
  <2> QED
      BY <2>2, <2>3, <1>10
<1>13. SearchInv(G, src, rest)
  <2>1. \A p \in rest.queue : p[2] \in DOMAIN x.distance /\ x.distance[p[2]] <= p[1]
      BY <1>1, <1>6 DEF SearchInv
  <2>2. \A m \in DOMAIN x.parent :
            x.parent[m] \in Settled(rest) /\ Tight(G, x.distance, x.parent[m], m)
      BY <1>1, <1>9 DEF SearchInv
  <2>3. src \in DOMAIN x.distance /\ x.distance[src] = 0 /\ DOMAIN x.parent = DOMAIN x.distance \ {src}
      BY <1>1 DEF SearchInv
  <2> QED
      BY <2>1, <2>2, <2>3, <1>6, <1>7, <1>8, <1>12 DEF SearchInv
<1>14. \A T : IsFiniteSet(Positions(G, T)) /\ Cardinality(Positions(G, T)) \in Nat
    BY PositionsFinite, FS_CardinalityType
<1>15. CASE top[1] > x.distance[n]
  <2>1. Settled(rest) = Settled(x)
      BY <1>4, <1>9, <1>10, <1>15
  <2>2. \A m \in Settled(rest) : \A f \in Links(G, m) : Follows(rest, m, f)
      BY <2>1, <1>6 DEF Searched, Follows
  <2>3. Measure(G, rest) < Measure(G, x)
      BY <2>1, <1>8, <1>14 DEF Measure
  <2> QED
      BY <2>2, <2>3, <1>3, <1>13, <1>15 DEF Searched
<1>16. CASE ~(top[1] > x.distance[n])
  <2>1. top[1] = x.distance[n]
      BY <1>4, <1>16
  <2>2. n \notin Settled(x)
      BY <2>1, <1>2, <1>4 DEF Settled
  <2>3. n \in Settled(rest)
      BY <2>1, <1>4, <1>6 DEF Settled
  <2>4. Settled(rest) = Settled(x) \cup {n}
      BY <2>3, <1>9, <1>10
  <2>5. Last1(rest, n)
    <3>1. \A m \in Settled(rest) : x.distance[m] <= x.distance[n]
        BY <2>1, <2>4, <1>4, <1>11
    <3>2. \A p \in rest.queue : x.distance[n] <= p[1]
        BY <2>1, <1>2, <1>6
    <3> QED
        BY <3>1, <3>2, <2>3, <1>6 DEF Last1
  <2>6. /\ SearchInv(G, src, y)
        /\ Settled(y) = Settled(rest) /\ Closer(rest, y)
        /\ \A f \in Links(G, n) : Follows(y, n, f)
        /\ Cardinality(y.queue) <= Cardinality(rest.queue) + Len(Faces(G, n))
      BY <2>5, <1>4, <1>13, RelaxingKeeps
  <2> HIDE DEF y
  <2>7. y.distance \in [DOMAIN y.distance -> Nat] /\ Cardinality(y.queue) \in Nat
      BY <2>6, SearchParts, FS_CardinalityType DEF SearchInv
  <2>8. \A m \in Settled(y) : \A f \in Links(G, m) : Follows(y, m, f)
    <3> SUFFICES ASSUME NEW m \in Settled(x), NEW f \in Links(G, m) PROVE Follows(y, m, f)
        BY <2>4, <2>6
    <3> DEFINE r == f.remoteNodeId
    <3>1. m \in DOMAIN x.distance /\ m \in DOMAIN G
        BY <1>1 DEF Settled
    <3>2. r \in DOMAIN x.distance /\ x.distance[r] <= x.distance[m] + f.linkCost
        BY DEF Searched, Follows
    <3>3. f.linkCost \in Nat
        BY <3>1, LinksOf
    <3>4. r \in DOMAIN y.distance /\ y.distance[r] <= x.distance[r] /\ y.distance[m] = x.distance[m]
        BY <3>2, <2>4, <2>6, <1>6 DEF Closer
    <3>5. x.distance[r] \in Nat /\ x.distance[m] \in Nat /\ y.distance[r] \in Nat
        BY <3>1, <3>2, <3>4, <1>1, <2>7
    <3> HIDE DEF r
    <3>6. y.distance[r] <= y.distance[m] + f.linkCost
        BY <3>2, <3>3, <3>4, <3>5
    <3> QED
        BY <3>4, <3>6 DEF Follows, r
  <2>9. Measure(G, y) < Measure(G, x)
    <3>1. Cardinality(Positions(G, Settled(x))) =
              Cardinality(Positions(G, Settled(y))) + Len(Faces(G, n))
        BY <2>2, <2>4, <2>6, <1>4, PositionsLess
    <3>2. Len(Faces(G, n)) \in Nat
        BY <1>4, LinksOf
    <3> QED
        BY <3>1, <3>2, <2>6, <2>7, <1>8, <1>14 DEF Measure
  <2> QED
      BY <2>6, <2>8, <2>9, <1>3, <1>16 DEF Searched
<1> QED
    BY <1>15, <1>16

-----------------------------------------------------------------------------
(***************************************************************************)
(* The whole search.                                                       *)
(***************************************************************************)

\* "dist" is defined where src leads, and is the least cost of getting there:
\* no face shortens it, and some face of another node attains it.
IsDistance(G, src, dist) ==
    /\ DOMAIN dist \subseteq DOMAIN G /\ dist \in [DOMAIN dist -> Nat]
    /\ src \in DOMAIN dist /\ dist[src] = 0
    /\ \A m \in DOMAIN dist : \A f \in Links(G, m) :
          f.remoteNodeId \in DOMAIN dist /\ dist[f.remoteNodeId] <= dist[m] + f.linkCost
    /\ \A n \in DOMAIN dist \ {src} : \E m \in DOMAIN dist : Tight(G, dist, m, n)

\* "parent" leads back to src along least-cost paths.
IsTree(G, src, dist, parent) ==
    /\ DOMAIN parent = DOMAIN dist \ {src}
    /\ \A n \in DOMAIN parent : parent[n] \in DOMAIN dist /\ Tight(G, dist, parent[n], n)

LEMMA StartIsSearched ==
    ASSUME NEW G, GoodGraph(G), NEW src \in DOMAIN G
    PROVE  /\ Searched(G, src, DijkstraStart(src))
           /\ Measure(G, DijkstraStart(src)) = FaceCount(G) + 1
<1> DEFINE x == DijkstraStart(src)
<1>1. x.distance = [n \in {src} |-> 0] /\ x.parent = [n \in {} |-> src] /\ x.queue = {<<0, src>>}
    BY DEF DijkstraStart
<1>2. x \in SearchType(G)
  <2>1. x = [distance |-> x.distance, parent |-> x.parent, queue |-> x.queue]
      BY DEF DijkstraStart
  <2> HIDE DEF x
  <2>2. DOMAIN x.distance = {src} /\ x.distance \in [{src} -> Nat]
      BY <1>1
  <2>3. DOMAIN x.parent = {} /\ x.parent \in [{} -> DOMAIN G]
      BY <1>1
  <2>4. x.queue \subseteq Nat \X DOMAIN G
      BY <1>1
  <2> QED
      BY <2>1, <2>2, <2>3, <2>4, SearchParts
<1> HIDE DEF x
<1>3. Settled(x) = {}
    BY <1>1 DEF Settled
<1>4. IsFiniteSet(x.queue) /\ Cardinality(x.queue) = 1
    BY <1>1, FS_Singleton
<1>5. SearchInv(G, src, x)
    BY <1>1, <1>2, <1>3, <1>4 DEF SearchInv
<1>6. Positions(G, {}) = UNION {{n} \X DOMAIN G[n] : n \in DOMAIN G}
    BY DEF Positions
<1>7. Cardinality(Positions(G, {})) = FaceCount(G) /\ FaceCount(G) \in Nat
    BY <1>6, PositionsFinite, FS_CardinalityType DEF FaceCount
<1>8. Measure(G, x) = FaceCount(G) + 1
    BY <1>3, <1>4, <1>7 DEF Measure
<1> QED
    BY <1>3, <1>5, <1>8 DEF Searched, x

LEMMA SearchingRuns ==
    ASSUME NEW G, GoodGraph(G), NEW src \in DOMAIN G
    PROVE  Searched(G, src, Dijkstra(G, src)) /\ Dijkstra(G, src).queue = {}
<1> DEFINE x0 == DijkstraStart(src)
           N  == FaceCount(G) + 1
           S  == {x \in SearchType(G) : Searched(G, src, x)}
           Loop(g) == [k \in 0 .. N |-> IF k = 0 THEN x0 ELSE PopIfAny(G, g[k - 1])]
           step == [k \in 1 .. N |-> [x \in S |-> PopIfAny(G, x)]]
<1>1. Searched(G, src, x0) /\ Measure(G, x0) = N
    BY StartIsSearched
<1>2. \A x : Searched(G, src, x) =>
          x \in S /\ IsFiniteSet(x.queue) /\ Cardinality(x.queue) \in Nat /\ Measure(G, x) \in Nat
  <2> SUFFICES ASSUME NEW x, Searched(G, src, x)
               PROVE  x \in S /\ IsFiniteSet(x.queue) /\ Cardinality(x.queue) \in Nat
                      /\ Measure(G, x) \in Nat
      OBVIOUS
  <2>1. x \in SearchType(G) /\ IsFiniteSet(x.queue)
      BY DEF Searched, SearchInv
  <2>2. Cardinality(x.queue) \in Nat /\ Cardinality(Positions(G, Settled(x))) \in Nat
      BY <2>1, PositionsFinite, FS_CardinalityType
  <2> QED
      BY <2>1, <2>2 DEF Measure
<1>3. N \in Nat
    BY <1>1, <1>2
<1>4. Searching(G, src) = CHOOSE g : g = Loop(g)
    BY DEF Searching
<1>5. x0 \in S
    BY <1>1, <1>2
<1> HIDE DEF x0, N
<1>6. ASSUME NEW x \in S
      PROVE  /\ PopIfAny(G, x) \in S
             /\ x.queue = {} => PopIfAny(G, x) = x
             /\ x.queue # {} => Measure(G, PopIfAny(G, x)) < Measure(G, x)
  <2>1. Searched(G, src, x)
      OBVIOUS
  <2> HIDE DEF S
  <2>2. CASE x.queue = {}
      BY <2>2, <1>6 DEF PopIfAny
  <2>3. CASE x.queue # {}
    <3>1. Searched(G, src, Pop(G, x)) /\ Measure(G, Pop(G, x)) < Measure(G, x)
        BY <2>1, <2>3, PopKeeps
    <3> QED
        BY <3>1, <2>3, <1>2 DEF PopIfAny
  <2> QED
      BY <2>2, <2>3
<1>7. \A x \in S : Searched(G, src, x)
    OBVIOUS
<1> HIDE DEF S
<1>8. /\ step \in [1 .. N -> [S -> S]]
      /\ \A k \in 1 .. N : \A x \in S : step[k][x] = PopIfAny(G, x)
    BY <1>6
<1> HIDE DEF step
<1>9. PICK h \in [0 .. N -> S] : IsRun(h, x0, step, N)
    BY <1>3, <1>5, <1>8, RecursionExists
<1>10. h[0] = x0 /\ \A k \in 1 .. N : h[k] = step[k][h[k - 1]]
    BY <1>9 DEF IsRun
<1>11. h = Loop(h)
  <2>1. ASSUME NEW k \in 1 .. N PROVE h[k] = PopIfAny(G, h[k - 1])
    <3>1. h[k - 1] \in S
        BY <1>3
    <3> QED
        BY <3>1, <1>8, <1>10
  <2>2. \A k \in 0 .. N : k = 0 \/ k \in 1 .. N
      BY <1>3
  <2>3. \A k \in 0 .. N : h[k] = Loop(h)[k]
      BY <2>1, <2>2, <1>10
  <2> QED
      BY <2>3
<1> DEFINE run == Searching(G, src)
<1>12. run = Loop(run)
    BY <1>4, <1>11
<1> HIDE DEF run
<1>13. run[0] = x0 /\ \A k \in 1 .. N : run[k] = PopIfAny(G, run[k - 1])
  <2>1. 0 \in 0 .. N /\ \A k \in 1 .. N : k \in 0 .. N /\ k # 0
      BY <1>3
  <2> QED
      BY <2>1, <1>12
<1> DEFINE Done(k, x) == x \in S /\ (x.queue = {} \/ Measure(G, x) + k <= N)
           T == {k \in 0 .. N : Done(k, run[k])}
<1>14. 0 \in T
    BY <1>1, <1>3, <1>5, <1>13 DEF x0
<1>15. ASSUME NEW k \in 0 .. N - 1, k \in T PROVE k + 1 \in T
  <2> DEFINE x == run[k]
             y == run[k + 1]
  <2>1. k + 1 \in 1 .. N /\ (k + 1) - 1 = k /\ k + 1 \in 0 .. N /\ k \in Nat
      BY <1>3
  <2>2. y = PopIfAny(G, x)
      BY <2>1, <1>13
  <2>3. Done(k, x)
      BY <1>15
  <2> HIDE DEF x, y
  <2>4. y \in S /\ (x.queue = {} => y = x) /\ (x.queue # {} => Measure(G, y) < Measure(G, x))
      BY <2>2, <2>3, <1>6
  <2>5. Measure(G, x) \in Nat /\ Measure(G, y) \in Nat
      BY <2>3, <2>4, <1>2, <1>7
  <2>6. Done(k + 1, y)
      BY <2>1, <2>3, <2>4, <2>5, <1>3
  <2> QED
      BY <2>1, <2>6 DEF y
<1> HIDE DEF Done, T
<1>16. 0 .. N \subseteq T
    BY <1>3, <1>14, <1>15, UpToInduction
<1>17. N \in T
    BY <1>3, <1>16
<1> USE DEF Done, T
<1> DEFINE last == run[N]
<1>18. last \in S /\ (last.queue = {} \/ Measure(G, last) + N <= N)
    BY <1>17
<1> HIDE DEF last
<1>19. Searched(G, src, last)
    BY <1>7, <1>18
<1>20. last.queue = {}
  <2> SUFFICES ASSUME last.queue # {} PROVE FALSE
      OBVIOUS
  <2>1. /\ IsFiniteSet(last.queue) /\ Cardinality(last.queue) \in Nat
        /\ IsFiniteSet(Positions(G, Settled(last)))
      BY <1>2, <1>19, PositionsFinite
  <2>2. Cardinality(Positions(G, Settled(last))) \in Nat /\ Cardinality(last.queue) # 0
      BY <2>1, FS_CardinalityType, FS_EmptySet
  <2> QED
      BY <2>1, <2>2, <1>3, <1>18 DEF Measure
<1> QED
    BY <1>19, <1>20 DEF Dijkstra, last, run, N

LEMMA DijkstraIsDistance ==
    ASSUME NEW G, GoodGraph(G), NEW src \in DOMAIN G
    PROVE  LET x == Dijkstra(G, src)
           IN  IsDistance(G, src, x.distance) /\ IsTree(G, src, x.distance, x.parent)
<1> DEFINE x == Dijkstra(G, src)
<1>1. Searched(G, src, x) /\ x.queue = {}
    BY SearchingRuns
<1> HIDE DEF x
<1>2. SearchInv(G, src, x) /\ \A m \in Settled(x) : \A f \in Links(G, m) : Follows(x, m, f)
    BY <1>1 DEF Searched
<1>3. DOMAIN x.distance \subseteq DOMAIN G /\ x.distance \in [DOMAIN x.distance -> Nat]
    BY <1>2, SearchParts DEF SearchInv
<1>4. Settled(x) = DOMAIN x.distance
    BY <1>1 DEF Settled
<1>5. IsTree(G, src, x.distance, x.parent)
    BY <1>2, <1>4 DEF SearchInv, IsTree
<1>6. \A n \in DOMAIN x.distance \ {src} : \E m \in DOMAIN x.distance : Tight(G, x.distance, m, n)
    BY <1>5 DEF IsTree
<1>7. src \in DOMAIN x.distance /\ x.distance[src] = 0
    BY <1>2 DEF SearchInv
<1>8. IsDistance(G, src, x.distance)
    BY <1>2, <1>3, <1>4, <1>6, <1>7 DEF IsDistance, Follows
<1> QED
    BY <1>5, <1>8 DEF x

-----------------------------------------------------------------------------
(***************************************************************************)
(* Distances.                                                              *)
(***************************************************************************)

\* Whatever u says of nodes, no face leads further than its cost.
Closed(G, u) ==
    /\ DOMAIN u \subseteq DOMAIN G /\ u \in [DOMAIN u -> Nat]
    /\ \A m \in DOMAIN u : \A f \in Links(G, m) :
          f.remoteNodeId \in DOMAIN u /\ u[f.remoteNodeId] <= u[m] + f.linkCost

LEMMA DistanceIsClosed ==
    ASSUME NEW G, NEW src, NEW dist, IsDistance(G, src, dist)
    PROVE  Closed(G, dist)
  BY DEF IsDistance, Closed

\* The face between a node and the one before it, at both its ends.
LEMMA TightFace ==
    ASSUME NEW G, GoodGraph(G), NEW m \in DOMAIN G, NEW n, NEW dist, Tight(G, dist, m, n)
    PROVE  \E f \in Links(G, m) :
               /\ f.remoteNodeId = n /\ f.linkCost \in Nat /\ f.linkCost # 0
               /\ dist[n] = dist[m] + f.linkCost
               /\ n \in DOMAIN G /\ Face(m, f.linkCost) \in Links(G, n)
<1>1. PICK f \in Links(G, m) : f.remoteNodeId = n /\ dist[n] = dist[m] + f.linkCost
    BY DEF Tight
<1>2. /\ f.remoteNodeId \in DOMAIN G /\ f.linkCost \in Nat /\ f.linkCost # 0
      /\ Face(m, f.linkCost) \in Links(G, f.remoteNodeId)
    BY LinksOf
<1> QED
    BY <1>1, <1>2

\* No walk is shorter than the distance.
LEMMA DistanceIsLeast ==
    ASSUME NEW G, GoodGraph(G), NEW src, NEW dist, IsDistance(G, src, dist),
           NEW u, Closed(G, u), src \in DOMAIN u
    PROVE  \A n \in DOMAIN dist : n \in DOMAIN u /\ u[n] <= u[src] + dist[n]
<1> DEFINE Fine(n) == n \in DOMAIN u /\ u[n] <= u[src] + dist[n]
           Bad == {n \in DOMAIN dist : ~Fine(n)}
           C   == {dist[n] : n \in Bad}
<1> SUFFICES ASSUME Bad # {} PROVE FALSE
    OBVIOUS
<1>1. /\ DOMAIN dist \subseteq DOMAIN G /\ \A n \in DOMAIN dist : dist[n] \in Nat
      /\ src \in DOMAIN dist /\ dist[src] = 0
      /\ \A n \in DOMAIN dist \ {src} : \E m \in DOMAIN dist : Tight(G, dist, m, n)
    BY DEF IsDistance
<1>2. \A n \in DOMAIN u : u[n] \in Nat
    BY DEF Closed
<1>3. C \in SUBSET Nat /\ C # {}
    BY <1>1
<1> HIDE DEF C
<1>4. PICK c \in C : \A b \in C : c <= b
    BY <1>3, LeastNat
<1> USE DEF C
<1>5. PICK n \in Bad : dist[n] = c
    BY <1>4
<1>6. n # src
    BY <1>1, <1>2
<1>7. PICK m \in DOMAIN dist : Tight(G, dist, m, n)
    BY <1>1, <1>5, <1>6
<1>8. PICK f \in Links(G, m) :
          /\ f.remoteNodeId = n /\ f.linkCost \in Nat /\ f.linkCost # 0
          /\ dist[n] = dist[m] + f.linkCost
    BY <1>1, <1>7, TightFace
<1>9. dist[m] < dist[n] /\ dist[m] \in Nat /\ dist[n] \in Nat
    BY <1>1, <1>5, <1>7, <1>8
<1>10. m \notin Bad
  <2> SUFFICES ASSUME m \in Bad PROVE FALSE
      OBVIOUS
  <2>1. dist[m] \in C
      OBVIOUS
  <2> HIDE DEF C
  <2> QED
      BY <2>1, <1>4, <1>5, <1>9
<1>11. m \in DOMAIN u /\ u[m] <= u[src] + dist[m]
    BY <1>7, <1>10
<1>12. n \in DOMAIN u /\ u[n] <= u[m] + f.linkCost
    BY <1>8, <1>11 DEF Closed
<1>13. u[n] <= u[src] + dist[n]
    BY <1>1, <1>2, <1>8, <1>9, <1>11, <1>12
<1> QED
    BY <1>5, <1>12, <1>13

\* Links lead both ways, so what is reached reaches the same nodes.
LEMMA SameReach ==
    ASSUME NEW G, GoodGraph(G), NEW src, NEW dist, IsDistance(G, src, dist),
           NEW h \in DOMAIN dist, NEW dh, IsDistance(G, h, dh)
    PROVE  DOMAIN dh = DOMAIN dist
<1> DEFINE B == DOMAIN dist \cap DOMAIN dh
           C == {dist[n] : n \in B}
<1>1. /\ DOMAIN dist \subseteq DOMAIN G /\ \A n \in DOMAIN dist : dist[n] \in Nat
      /\ \A n \in DOMAIN dist \ {src} : \E m \in DOMAIN dist : Tight(G, dist, m, n)
    BY DEF IsDistance
<1>2. h \in B
    BY DEF IsDistance
<1>3. C \in SUBSET Nat /\ C # {}
    BY <1>1, <1>2
<1> HIDE DEF C
<1>4. PICK c \in C : \A b \in C : c <= b
    BY <1>3, LeastNat
<1> USE DEF C
<1>5. PICK n \in B : dist[n] = c
    BY <1>4
<1>6. n = src
  <2> SUFFICES ASSUME n # src PROVE FALSE
      OBVIOUS
  <2>1. PICK m \in DOMAIN dist : Tight(G, dist, m, n)
      BY <1>1, <1>5
  <2>2. PICK f \in Links(G, m) :
            /\ f.linkCost \in Nat /\ f.linkCost # 0
            /\ dist[n] = dist[m] + f.linkCost /\ Face(m, f.linkCost) \in Links(G, n)
      BY <1>1, <2>1, TightFace
  <2>3. m \in DOMAIN dh
      BY <1>5, <2>2 DEF IsDistance, Face
  <2>4. dist[m] \in C /\ dist[m] \in Nat /\ dist[n] \in Nat
      BY <1>1, <1>5, <2>1, <2>3
  <2> HIDE DEF C
  <2> QED
      BY <2>2, <2>4, <1>4, <1>5
<1>7. \A m \in DOMAIN dist : m \in DOMAIN dh
    BY <1>5, <1>6, DistanceIsClosed, DistanceIsLeast
<1>8. \A m \in DOMAIN dh : m \in DOMAIN dist
    BY DistanceIsClosed, DistanceIsLeast
<1> QED
    BY <1>7, <1>8

-----------------------------------------------------------------------------
(***************************************************************************)
(* The first hop.  Every step up the tree leaves fewer nodes nearer.       *)
(***************************************************************************)
Nearer(S, dist, n) == Cardinality({x \in S : dist[x] < dist[n]})

LEMMA FewerNearer ==
    ASSUME NEW S, IsFiniteSet(S), NEW dist, NEW m \in S, NEW n,
           dist[m] < dist[n], \A x \in S : dist[x] \in Nat, dist[n] \in Nat
    PROVE  /\ Nearer(S, dist, m) \in Nat /\ Nearer(S, dist, n) \in Nat
           /\ Nearer(S, dist, m) < Nearer(S, dist, n)
<1> DEFINE A == {x \in S : dist[x] < dist[m]}
           B == {x \in S : dist[x] < dist[n]}
<1>1. A \in SUBSET B /\ B \in SUBSET S /\ m \in B /\ m \notin A
    OBVIOUS
<1> HIDE DEF A, B
<1>2. IsFiniteSet(B) /\ Cardinality(B) \in Nat
    BY <1>1, FS_Subset, FS_CardinalityType
<1>3. /\ IsFiniteSet(A) /\ Cardinality(A) \in Nat /\ Cardinality(A) <= Cardinality(B)
      /\ Cardinality(A) # Cardinality(B)
    BY <1>1, <1>2, FS_Subset, FS_CardinalityType
<1>4. Cardinality(A) < Cardinality(B)
    BY <1>2, <1>3
<1> QED
    BY <1>2, <1>3, <1>4 DEF Nearer, A, B

LEMMA FirstHopLeads ==
    ASSUME NEW G, GoodGraph(G), NEW src, NEW dist, IsDistance(G, src, dist),
           NEW parent, IsTree(G, src, dist, parent), NEW d \in DOMAIN parent,
           NEW u, Closed(G, u)
    PROVE  LET h == FirstHop(parent, src, d)
           IN  /\ h \in DOMAIN parent /\ parent[h] = src
               /\ h \in DOMAIN u => d \in DOMAIN u /\ u[d] + dist[h] <= u[h] + dist[d]
<1> DEFINE S == DOMAIN parent
           N == Cardinality(S)
           Loop(g) == [k \in 0 .. N |-> IF k = 0 THEN d ELSE Up(parent, src, g[k - 1])]
           step == [k \in 1 .. N |-> [n \in S |-> Up(parent, src, n)]]
<1>1. /\ S = DOMAIN dist \ {src} /\ S \in SUBSET DOMAIN G /\ IsFiniteSet(DOMAIN G)
      /\ DOMAIN dist \subseteq DOMAIN G
      /\ \A n \in S : dist[n] \in Nat /\ parent[n] \in DOMAIN dist /\ Tight(G, dist, parent[n], n)
      /\ \A n \in DOMAIN dist : dist[n] \in Nat
    BY DEF IsDistance, IsTree, GoodGraph
<1>2. Climbing(parent, src, d) = CHOOSE g : g = Loop(g)
    BY DEF Climbing
<1> HIDE DEF S
<1>3. IsFiniteSet(S) /\ N \in Nat
    BY <1>1, FS_Subset, FS_CardinalityType
<1>4. ASSUME NEW n \in S, parent[n] # src
      PROVE  /\ parent[n] \in S /\ Nearer(S, dist, parent[n]) \in Nat /\ Nearer(S, dist, n) \in Nat
             /\ Nearer(S, dist, parent[n]) < Nearer(S, dist, n)
  <2>1. parent[n] \in S /\ dist[parent[n]] \in Nat /\ dist[n] \in Nat
      BY <1>1, <1>4
  <2>2. Tight(G, dist, parent[n], n) /\ parent[n] \in DOMAIN G
      BY <1>1
  <2>3. PICK f \in Links(G, parent[n]) :
            f.linkCost \in Nat /\ f.linkCost # 0 /\ dist[n] = dist[parent[n]] + f.linkCost
      BY <2>2, TightFace
  <2>4. dist[parent[n]] < dist[n]
      BY <2>1, <2>3
  <2>5. \A x \in S : dist[x] \in Nat
      BY <1>1
  <2> QED
      BY <2>1, <2>4, <2>5, <1>3, FewerNearer
<1>5. \A n \in S : Up(parent, src, n) \in S
    BY <1>4 DEF Up
<1>6. /\ step \in [1 .. N -> [S -> S]]
      /\ \A k \in 1 .. N : \A n \in S : step[k][n] = Up(parent, src, n)
    BY <1>5
<1>7. d \in S
    BY DEF S
<1> HIDE DEF N, step
<1>8. PICK g \in [0 .. N -> S] : IsRun(g, d, step, N)
    BY <1>3, <1>6, <1>7, RecursionExists
<1>9. g[0] = d /\ \A k \in 1 .. N : g[k] = step[k][g[k - 1]]
    BY <1>8 DEF IsRun
<1>10. g = Loop(g)
  <2>1. ASSUME NEW k \in 1 .. N PROVE g[k] = Up(parent, src, g[k - 1])
    <3>1. g[k - 1] \in S
        BY <1>3
    <3> QED
        BY <3>1, <1>6, <1>9
  <2>2. \A k \in 0 .. N : k = 0 \/ k \in 1 .. N
      BY <1>3
  <2>3. \A k \in 0 .. N : g[k] = Loop(g)[k]
      BY <2>1, <2>2, <1>9
  <2> QED
      BY <2>3
<1> DEFINE run == Climbing(parent, src, d)
<1>11. run = Loop(run)
    BY <1>2, <1>10
<1> HIDE DEF run
<1>12. run[0] = d /\ \A k \in 1 .. N : run[k] = Up(parent, src, run[k - 1])
  <2>1. 0 \in 0 .. N /\ \A k \in 1 .. N : k \in 0 .. N /\ k # 0
      BY <1>3
  <2> QED
      BY <2>1, <1>11
<1> DEFINE Below(n) == n \in DOMAIN u => d \in DOMAIN u /\ u[d] + dist[n] <= u[n] + dist[d]
           Done(k, n) == /\ n \in S /\ Below(n)
                         /\ parent[n] = src \/ Nearer(S, dist, n) + k <= N
           T == {k \in 0 .. N : Done(k, run[k])}
<1>13. \A n \in DOMAIN u : u[n] \in Nat
    BY DEF Closed
<1>14. 0 \in T
  <2>1. Nearer(S, dist, d) \in Nat /\ Nearer(S, dist, d) <= N
    <3> DEFINE A == {x \in S : dist[x] < dist[d]}
    <3>1. A \in SUBSET S
        OBVIOUS
    <3> HIDE DEF A
    <3>2. IsFiniteSet(A) /\ Cardinality(A) <= N
        BY <3>1, <1>3, FS_Subset DEF N
    <3>3. Cardinality(A) \in Nat
        BY <3>2, FS_CardinalityType
    <3> QED
        BY <3>2, <3>3 DEF Nearer, A
  <2>2. d \in DOMAIN u => u[d] + dist[d] <= u[d] + dist[d]
      BY <1>1, <1>7, <1>13
  <2> QED
      BY <2>1, <2>2, <1>3, <1>7, <1>12
<1>15. ASSUME NEW k \in 0 .. N - 1, k \in T PROVE k + 1 \in T
  <2> DEFINE n == run[k]
             m == run[k + 1]
  <2>1. k + 1 \in 1 .. N /\ (k + 1) - 1 = k /\ k + 1 \in 0 .. N /\ k \in Nat
      BY <1>3
  <2>2. m = Up(parent, src, n)
      BY <2>1, <1>12
  <2>3. Done(k, n)
      BY <1>15
  <2> HIDE DEF n, m
  <2>4. CASE parent[n] = src
      BY <2>1, <2>2, <2>3, <2>4 DEF Up, m
  <2>5. CASE parent[n] # src
    <3>1. m = parent[n]
        BY <2>2, <2>5 DEF Up
    <3>2. m \in S /\ Nearer(S, dist, m) \in Nat /\ Nearer(S, dist, n) \in Nat /\ Nearer(S, dist, m) < Nearer(S, dist, n)
        BY <3>1, <2>3, <2>5, <1>4
    <3>3. Below(m)
      <4> SUFFICES ASSUME m \in DOMAIN u
                   PROVE  d \in DOMAIN u /\ u[d] + dist[m] <= u[m] + dist[d]
          OBVIOUS
      <4>1. m \in DOMAIN G /\ Tight(G, dist, m, n)
          BY <3>1, <2>3, <1>1
      <4>2. PICK f \in Links(G, m) :
                f.remoteNodeId = n /\ f.linkCost \in Nat /\ dist[n] = dist[m] + f.linkCost
          BY <4>1, TightFace
      <4>3. n \in DOMAIN u /\ u[n] <= u[m] + f.linkCost
          BY <4>2 DEF Closed
      <4>4. d \in DOMAIN u /\ u[d] + dist[n] <= u[n] + dist[d]
          BY <4>3, <2>3
      <4>5. /\ u[n] \in Nat /\ u[m] \in Nat /\ u[d] \in Nat
            /\ dist[n] \in Nat /\ dist[m] \in Nat /\ dist[d] \in Nat
          BY <4>3, <4>4, <3>2, <2>3, <1>1, <1>7, <1>13
      <4> QED
          BY <4>2, <4>3, <4>4, <4>5
    <3> HIDE DEF Below
    <3>4. Nearer(S, dist, m) + (k + 1) <= N
        BY <3>2, <2>1, <2>3, <2>5, <1>3
    <3> QED
        BY <3>2, <3>3, <3>4, <2>1 DEF m
  <2> QED
      BY <2>4, <2>5
<1> HIDE DEF Done, T
<1>16. 0 .. N \subseteq T
    BY <1>3, <1>14, <1>15, UpToInduction
<1>17. N \in T
    BY <1>3, <1>16
<1> USE DEF Done, T
<1> DEFINE h == run[N]
<1>18. h \in S /\ Below(h) /\ (parent[h] = src \/ Nearer(S, dist, h) + N <= N)
    BY <1>17
<1> HIDE DEF h, Below
<1>19. parent[h] = src
  <2> SUFFICES ASSUME parent[h] # src PROVE FALSE
      OBVIOUS
  <2>1. Nearer(S, dist, parent[h]) \in Nat /\ Nearer(S, dist, h) \in Nat /\ Nearer(S, dist, parent[h]) < Nearer(S, dist, h)
      BY <1>4, <1>18
  <2> QED
      BY <2>1, <1>3, <1>18
<1>20. FirstHop(parent, src, d) = h
    BY DEF FirstHop, h, run, N, S
<1> QED
    BY <1>18, <1>19, <1>20 DEF Below, S

-----------------------------------------------------------------------------
(***************************************************************************)
(* The reference definition of least costs gives the distances.            *)
(***************************************************************************)

\* After k steps the k nearest nodes have their least cost, none has less.
Costed(s, dist, k, costs) ==
    \A n \in Nodes :
        /\ \A c \in costs[n] : n \in DOMAIN dist /\ dist[n] <= c
        /\ n \in DOMAIN dist /\ Nearer(DOMAIN dist, dist, n) <= k => costs[n] = {dist[n]}

LEMMA LongerKeeps ==
    ASSUME GoodGraph(graph), NEW s \in Nodes, NEW dist, IsDistance(graph, s, dist),
           NEW k \in Nat, NEW costs \in [Nodes -> SUBSET Nat], Costed(s, dist, k, costs)
    PROVE  Longer(costs) \in [Nodes -> SUBSET Nat] /\ Costed(s, dist, k + 1, Longer(costs))
<1> DEFINE Via(n) == UNION {{c + f.linkCost : c \in costs[f.remoteNodeId]} : f \in FaceSet(n)}
           All(n) == costs[n] \cup Via(n)
           Low(n) == {c \in All(n) : \A d \in All(n) : c <= d}
           D      == DOMAIN dist
<1>1. Longer(costs) = [n \in Nodes |-> Low(n)]
    BY DEF Longer
<1>2. \A n \in Nodes : FaceSet(n) = Links(graph, n)
    BY DEF FaceSet, Links, Faces, Nodes
<1>3. /\ D \subseteq Nodes /\ \A n \in D : dist[n] \in Nat
      /\ s \in D /\ dist[s] = 0 /\ IsFiniteSet(D)
      /\ \A n \in D \ {s} : \E m \in D : Tight(graph, dist, m, n)
  <2>1. D \in SUBSET DOMAIN graph /\ IsFiniteSet(DOMAIN graph)
      BY DEF IsDistance, GoodGraph
  <2>2. IsFiniteSet(D)
      BY <2>1, FS_Subset
  <2> QED
      BY <2>2 DEF IsDistance, Nodes
<1> HIDE DEF D
<1>4. \A n \in Nodes : \A f \in Links(graph, n) :
          /\ f.remoteNodeId \in Nodes /\ f.linkCost \in Nat
          /\ Face(n, f.linkCost) \in Links(graph, f.remoteNodeId)
    BY LinksOf DEF Nodes
<1>5. \A n \in Nodes : \A c \in Via(n) :
          \E f \in Links(graph, n) : \E b \in costs[f.remoteNodeId] : c = b + f.linkCost
    BY <1>2
<1>6. \A n \in Nodes : \A f \in Links(graph, n) : \A b \in costs[f.remoteNodeId] :
          b + f.linkCost \in Via(n)
    BY <1>2
<1> HIDE DEF Via
<1>7. ASSUME NEW n \in Nodes, NEW c \in All(n)
      PROVE  c \in Nat /\ n \in D /\ dist[n] <= c
  <2>1. CASE c \in costs[n]
      BY <2>1 DEF Costed, D
  <2>2. CASE c \in Via(n)
    <3>1. PICK f \in Links(graph, n) : \E b \in costs[f.remoteNodeId] : c = b + f.linkCost
        BY <2>2, <1>5
    <3>2. PICK b \in costs[f.remoteNodeId] : c = b + f.linkCost
        BY <3>1
    <3> DEFINE m == f.remoteNodeId
    <3>3. /\ m \in Nodes /\ f.linkCost \in Nat /\ Face(n, f.linkCost) \in Links(graph, m)
        BY <1>4
    <3>4. b \in Nat /\ m \in D /\ dist[m] <= b
        BY <3>3 DEF Costed, D
    <3>5. n \in D /\ dist[n] <= dist[m] + f.linkCost
        BY <3>3, <3>4 DEF IsDistance, Face, D
    <3>6. dist[m] \in Nat /\ dist[n] \in Nat
        BY <1>3, <3>4, <3>5
    <3> HIDE DEF m
    <3> QED
        BY <3>2, <3>3, <3>4, <3>5, <3>6
  <2> QED
      BY <1>7, <2>1, <2>2
<1>8. ASSUME NEW n \in D, Nearer(D, dist, n) <= k + 1
      PROVE  dist[n] \in All(n)
  <2>1. CASE n = s
    <3>1. Nearer(D, dist, s) <= k
      <4> DEFINE A == {x \in D : dist[x] < dist[s]}
      <4>1. \A x \in D : dist[x] \in Nat /\ dist[s] = 0
          BY <1>3
      <4>2. A = {}
          BY <4>1
      <4> HIDE DEF A
      <4>3. Cardinality(A) = 0
          BY <4>2, FS_EmptySet
      <4> QED
          BY <4>3 DEF Nearer, A
    <3>2. costs[n] = {dist[n]}
        BY <2>1, <3>1, <1>3 DEF Costed, D
    <3> QED
        BY <3>2
  <2>2. CASE n # s
    <3>1. PICK m \in D : Tight(graph, dist, m, n)
        BY <1>3, <2>2
    <3>2. PICK f \in Links(graph, m) :
              /\ f.linkCost \in Nat /\ f.linkCost # 0 /\ dist[n] = dist[m] + f.linkCost
              /\ Face(m, f.linkCost) \in Links(graph, n)
        BY <1>3, <3>1, TightFace DEF Nodes
    <3>3. dist[m] \in Nat /\ dist[n] \in Nat
        BY <1>3
    <3>4. dist[m] < dist[n]
        BY <3>2, <3>3
    <3>5. /\ Nearer(D, dist, m) \in Nat /\ Nearer(D, dist, n) \in Nat
          /\ Nearer(D, dist, m) < Nearer(D, dist, n)
        BY <3>3, <3>4, <1>3, FewerNearer
    <3>6. Nearer(D, dist, m) <= k
        BY <3>5, <1>8
    <3>7. m \in Nodes /\ costs[m] = {dist[m]}
        BY <3>6, <1>3 DEF Costed, D
    <3>8. dist[m] + f.linkCost \in Via(n)
      <4>1. Face(m, f.linkCost).remoteNodeId = m /\ Face(m, f.linkCost).linkCost = f.linkCost
          BY DEF Face
      <4>2. n \in Nodes
          BY <1>3
      <4> QED
          BY <4>1, <4>2, <3>2, <3>7, <1>6
    <3> QED
        BY <3>2, <3>8
  <2> QED
      BY <2>1, <2>2
<1>9. ASSUME NEW n \in D, Nearer(D, dist, n) <= k + 1 PROVE Low(n) = {dist[n]}
  <2>1. n \in Nodes /\ dist[n] \in All(n)
      BY <1>3, <1>8, <1>9
  <2>2. \A c \in All(n) : c \in Nat /\ dist[n] <= c
      BY <2>1, <1>7
  <2> HIDE DEF All
  <2>3. dist[n] \in Nat
      BY <1>3
  <2>4. \A c \in All(n) : (\A d \in All(n) : c <= d) <=> c = dist[n]
    <3> SUFFICES ASSUME NEW c \in All(n) PROVE (\A d \in All(n) : c <= d) <=> c = dist[n]
        OBVIOUS
    <3>1. (\A d \in All(n) : c <= d) => c = dist[n]
        BY <2>1, <2>2, <2>3
    <3> QED
        BY <3>1, <2>2
  <2> QED
      BY <2>1, <2>4
<1>10. Longer(costs) \in [Nodes -> SUBSET Nat]
    BY <1>1, <1>7
<1>11. ASSUME NEW n \in Nodes
       PROVE  /\ \A c \in Low(n) : n \in D /\ dist[n] <= c
              /\ n \in D /\ Nearer(D, dist, n) <= k + 1 => Low(n) = {dist[n]}
    BY <1>7, <1>9
<1> HIDE DEF Low
<1> QED
    BY <1>1, <1>10, <1>11 DEF Costed, D

LEMMA WalkCostsAre ==
    ASSUME GoodGraph(graph), NEW s \in Nodes, NEW dist, IsDistance(graph, s, dist)
    PROVE  \A n \in Nodes : WalkCosts(s)[n] = IF n \in DOMAIN dist THEN {dist[n]} ELSE {}
<1> DEFINE N  == Cardinality(Nodes)
           D  == DOMAIN dist
           S  == {c \in [Nodes -> SUBSET Nat] : \E k \in Nat : Costed(s, dist, k, c)}
           c0 == [n \in Nodes |-> IF n = s THEN {0} ELSE {}]
           Loop(g) == [k \in 0 .. N |-> IF k = 0 THEN c0 ELSE Longer(g[k - 1])]
<1>1. IsFiniteSet(Nodes) /\ N \in Nat
    BY FS_CardinalityType DEF GoodGraph, Nodes
<1>2. /\ D \subseteq Nodes /\ IsFiniteSet(D) /\ \A n \in D : dist[n] \in Nat
      /\ s \in D /\ dist[s] = 0
      /\ \A n \in D \ {s} : \E m \in D : Tight(graph, dist, m, n)
  <2>1. D \in SUBSET Nodes
      BY DEF IsDistance, Nodes
  <2>2. IsFiniteSet(D)
      BY <2>1, <1>1, FS_Subset
  <2> QED
      BY <2>1, <2>2 DEF IsDistance
<1>3. Walking(s) = CHOOSE g : g = Loop(g)
    BY DEF Walking
<1>4. c0 \in [Nodes -> SUBSET Nat]
    OBVIOUS
<1>5. Costed(s, dist, 0, c0)
  <2>1. ASSUME NEW n \in D, n # s PROVE ~(Nearer(D, dist, n) <= 0)
    <3>1. PICK m \in D : Tight(graph, dist, m, n)
        BY <1>2, <2>1
    <3>2. PICK f \in Links(graph, m) :
              f.linkCost \in Nat /\ f.linkCost # 0 /\ dist[n] = dist[m] + f.linkCost
        BY <1>2, <3>1, TightFace DEF Nodes
    <3>3. dist[m] \in Nat /\ dist[n] \in Nat
        BY <1>2
    <3>4. dist[m] < dist[n]
        BY <3>2, <3>3
    <3>5. /\ Nearer(D, dist, m) \in Nat /\ Nearer(D, dist, n) \in Nat
          /\ Nearer(D, dist, m) < Nearer(D, dist, n)
        BY <3>3, <3>4, <1>2, FewerNearer
    <3> QED
        BY <3>5
  <2>2. \A n \in Nodes : c0[n] = IF n = s THEN {0} ELSE {}
      OBVIOUS
  <2> HIDE DEF c0
  <2> QED
      BY <2>1, <2>2, <1>2 DEF Costed
<1> DEFINE step == [k \in 1 .. N |-> [c \in S |-> Longer(c)]]
<1>6. c0 \in S
    BY <1>4, <1>5
<1>7. \A c \in S : Longer(c) \in S
  <2> SUFFICES ASSUME NEW c \in S PROVE Longer(c) \in S
      OBVIOUS
  <2>1. PICK k \in Nat : Costed(s, dist, k, c)
      OBVIOUS
  <2>2. Longer(c) \in [Nodes -> SUBSET Nat] /\ Costed(s, dist, k + 1, Longer(c))
      BY <2>1, LongerKeeps
  <2> QED
      BY <2>1, <2>2
<1>8. \A c \in S : c \in [Nodes -> SUBSET Nat]
    OBVIOUS
<1> HIDE DEF c0, N, S
<1>9. /\ step \in [1 .. N -> [S -> S]]
      /\ \A k \in 1 .. N : \A c \in S : step[k][c] = Longer(c)
    BY <1>7
<1> HIDE DEF step
<1>10. PICK g \in [0 .. N -> S] : IsRun(g, c0, step, N)
    BY <1>1, <1>6, <1>9, RecursionExists
<1>11. g[0] = c0 /\ \A k \in 1 .. N : g[k] = step[k][g[k - 1]]
    BY <1>10 DEF IsRun
<1>12. g = Loop(g)
  <2>1. ASSUME NEW k \in 1 .. N PROVE g[k] = Longer(g[k - 1])
    <3>1. g[k - 1] \in S
        BY <1>1
    <3> QED
        BY <3>1, <1>9, <1>11
  <2>2. \A k \in 0 .. N : k = 0 \/ k \in 1 .. N
      BY <1>1
  <2>3. \A k \in 0 .. N : g[k] = Loop(g)[k]
      BY <2>1, <2>2, <1>11
  <2> QED
      BY <2>3
<1> DEFINE run == Walking(s)
<1>13. run = Loop(run)
    BY <1>3, <1>12
<1> HIDE DEF run
<1>14. run[0] = c0 /\ \A k \in 1 .. N : run[k] = Longer(run[k - 1])
  <2>1. 0 \in 0 .. N /\ \A k \in 1 .. N : k \in 0 .. N /\ k # 0
      BY <1>1
  <2> QED
      BY <2>1, <1>13
<1> DEFINE T == {k \in 0 .. N : run[k] \in [Nodes -> SUBSET Nat] /\ Costed(s, dist, k, run[k])}
<1>15. 0 \in T
    BY <1>1, <1>5, <1>6, <1>8, <1>14
<1>16. ASSUME NEW k \in 0 .. N - 1, k \in T PROVE k + 1 \in T
  <2>1. k + 1 \in 1 .. N /\ (k + 1) - 1 = k /\ k + 1 \in 0 .. N /\ k \in Nat
      BY <1>1
  <2>2. run[k + 1] = Longer(run[k])
      BY <2>1, <1>14
  <2>3. run[k] \in [Nodes -> SUBSET Nat] /\ Costed(s, dist, k, run[k])
      BY <1>16
  <2>4. Longer(run[k]) \in [Nodes -> SUBSET Nat] /\ Costed(s, dist, k + 1, Longer(run[k]))
      BY <2>1, <2>3, LongerKeeps
  <2> QED
      BY <2>1, <2>2, <2>4
<1> HIDE DEF T
<1>17. 0 .. N \subseteq T
    BY <1>1, <1>15, <1>16, UpToInduction
<1>18. N \in T
    BY <1>1, <1>17
<1>19. run[N] \in [Nodes -> SUBSET Nat] /\ Costed(s, dist, N, run[N])
    BY <1>18 DEF T
<1>20. WalkCosts(s) = run[N]
    BY DEF WalkCosts, run, N
<1>21. \A n \in D : Nearer(D, dist, n) <= N
  <2> SUFFICES ASSUME NEW n \in D PROVE Nearer(D, dist, n) <= N
      OBVIOUS
  <2> DEFINE A == {x \in D : dist[x] < dist[n]}
  <2>1. A \in SUBSET Nodes
      BY <1>2
  <2> HIDE DEF A
  <2>2. Cardinality(A) <= N
      BY <2>1, <1>1, FS_Subset DEF N
  <2> QED
      BY <2>2 DEF Nearer, A
<1> HIDE DEF run
<1>22. ASSUME NEW n \in Nodes PROVE WalkCosts(s)[n] = IF n \in D THEN {dist[n]} ELSE {}
    BY <1>19, <1>20, <1>21 DEF Costed
<1> QED
    BY <1>22

-----------------------------------------------------------------------------
(***************************************************************************)
(* What Mira answers.                                                      *)
(***************************************************************************)
Dist(G, src) == Dijkstra(G, src).distance

Par(G, src) == Dijkstra(G, src).parent

LEMMA DistAndPar ==
    ASSUME NEW G, GoodGraph(G), NEW src \in DOMAIN G
    PROVE  /\ IsDistance(G, src, Dist(G, src)) /\ IsTree(G, src, Dist(G, src), Par(G, src))
           /\ DOMAIN Dist(G, src) \subseteq DOMAIN G
           /\ \A n \in DOMAIN Dist(G, src) : Dist(G, src)[n] \in Nat
           /\ src \in DOMAIN Dist(G, src) /\ Dist(G, src)[src] = 0
           /\ DOMAIN Par(G, src) = DOMAIN Dist(G, src) \ {src}
<1> DEFINE dist == Dist(G, src)
<1>1. IsDistance(G, src, dist) /\ IsTree(G, src, dist, Par(G, src))
    BY DijkstraIsDistance DEF Dist, Par
<1> HIDE DEF dist
<1>2. /\ DOMAIN dist \subseteq DOMAIN G /\ \A n \in DOMAIN dist : dist[n] \in Nat
      /\ src \in DOMAIN dist /\ dist[src] = 0 /\ DOMAIN Par(G, src) = DOMAIN dist \ {src}
    BY <1>1 DEF IsDistance, IsTree
<1> QED
    BY <1>1, <1>2 DEF dist

\* What the first hop h towards d is, and how far it is on to d.
IsHop(G, src, h, d) ==
    /\ h \in DOMAIN Par(G, src)
    /\ \E f \in Links(G, src) : f.remoteNodeId = h /\ Dist(G, src)[h] = f.linkCost
    /\ d \in DOMAIN Dist(G, h)
    /\ Dist(G, src)[d] = Dist(G, src)[h] + Dist(G, h)[d]

LEMMA FirstHopIsHop ==
    ASSUME NEW G, GoodGraph(G), NEW src \in DOMAIN G, NEW d \in DOMAIN Par(G, src)
    PROVE  IsHop(G, src, FirstHop(Par(G, src), src, d), d)
<1> DEFINE P    == Par(G, src)
           dist == Dist(G, src)
           h    == FirstHop(P, src, d)
           dh   == Dist(G, h)
<1>1. /\ IsDistance(G, src, dist) /\ IsTree(G, src, dist, P)
      /\ DOMAIN dist \subseteq DOMAIN G /\ \A n \in DOMAIN dist : dist[n] \in Nat
      /\ src \in DOMAIN dist /\ dist[src] = 0 /\ DOMAIN P = DOMAIN dist \ {src}
    BY DistAndPar
<1>2. Closed(G, dist)
    BY <1>1, DistanceIsClosed
<1> HIDE DEF P, dist, h
<1>3. h \in DOMAIN P /\ P[h] = src
    BY <1>1, <1>2, FirstHopLeads DEF h, P
<1>4. h \in DOMAIN dist /\ h \in DOMAIN G /\ d \in DOMAIN dist
    BY <1>1, <1>3 DEF P
<1>5. /\ IsDistance(G, h, dh) /\ h \in DOMAIN dh /\ dh[h] = 0
      /\ \A n \in DOMAIN dh : dh[n] \in Nat
    BY <1>4, DistAndPar
<1> HIDE DEF dh
<1>6. Closed(G, dh)
    BY <1>5, DistanceIsClosed
<1>7. d \in DOMAIN dh /\ dh[d] + dist[h] <= dh[h] + dist[d]
    BY <1>1, <1>5, <1>6, FirstHopLeads DEF h, P
<1>8. dist[d] <= dist[h] + dh[d]
    BY <1>2, <1>4, <1>5, <1>7, DistanceIsLeast
<1>9. dist[d] = dist[h] + dh[d]
    BY <1>1, <1>4, <1>5, <1>7, <1>8
<1>10. \E f \in Links(G, src) : f.remoteNodeId = h /\ dist[h] = f.linkCost
  <2>1. Tight(G, dist, src, h)
      BY <1>1, <1>3 DEF IsTree
  <2>2. PICK f \in Links(G, src) :
            f.remoteNodeId = h /\ f.linkCost \in Nat /\ dist[h] = dist[src] + f.linkCost
      BY <2>1, TightFace
  <2> QED
      BY <2>2, <1>1
<1> QED
    BY <1>3, <1>7, <1>9, <1>10 DEF IsHop, P, dist, h, dh

LEMMA MiraSplits ==
    ASSUME NEW G, GoodGraph(G), NEW src \in DOMAIN G, NEW D
    PROVE  /\ \A e \in Mira(G, D, src) :
                 /\ e.dst = {d \in D \cap DOMAIN Par(G, src) : FirstHop(Par(G, src), src, d) = e.via}
                 /\ e.dst # {}
                 /\ e = [via |-> e.via, dst |-> e.dst]
           /\ \A d \in D \cap DOMAIN Par(G, src) : \E e \in Mira(G, D, src) : d \in e.dst
<1> DEFINE P      == Par(G, src)
           served == D \cap DOMAIN P
           hopOf  == [d \in served |-> FirstHop(P, src, d)]
           hops   == {hopOf[d] : d \in served} \cap DOMAIN G \cap Neighbors(G, src)
           Entry(h) == [via |-> h, dst |-> {d \in served : hopOf[d] = h}]
<1>1. Mira(G, D, src) = {Entry(h) : h \in hops}
    BY DEF Mira, Par
<1>2. \A d \in served : hopOf[d] = FirstHop(P, src, d)
    OBVIOUS
<1>3. \A d \in served : hopOf[d] \in hops
  <2> SUFFICES ASSUME NEW d \in served PROVE FirstHop(P, src, d) \in hops
      BY <1>2
  <2>1. IsHop(G, src, FirstHop(P, src, d), d)
      BY FirstHopIsHop
  <2> DEFINE h == FirstHop(P, src, d)
  <2> HIDE DEF h
  <2>2. PICK f \in Links(G, src) : f.remoteNodeId = h
      BY <2>1 DEF IsHop, h
  <2>3. h \in DOMAIN G
      BY <2>2, LinksOf
  <2>4. h \in Neighbors(G, src)
      BY <2>2 DEF Neighbors, Links
  <2>5. h \in {hopOf[b] : b \in served}
      BY <1>2 DEF h
  <2> QED
      BY <2>3, <2>4, <2>5 DEF h
<1> HIDE DEF hopOf, P
<1>4. ASSUME NEW e \in Mira(G, D, src)
      PROVE  /\ e.dst = {d \in D \cap DOMAIN P : FirstHop(P, src, d) = e.via}
             /\ e.dst # {}
             /\ e = [via |-> e.via, dst |-> e.dst]
  <2>1. PICK h \in hops : e = Entry(h)
      BY <1>1
  <2>2. PICK d \in served : h = hopOf[d]
      BY <2>1
  <2>3. e.via = h /\ e.dst = {b \in served : hopOf[b] = h} /\ e = [via |-> e.via, dst |-> e.dst]
      BY <2>1
  <2>4. {b \in served : hopOf[b] = h} = {b \in served : FirstHop(P, src, b) = h}
      BY <1>2
  <2>5. d \in e.dst
      BY <2>2, <2>3
  <2> QED
      BY <2>3, <2>4, <2>5
<1>5. ASSUME NEW d \in served PROVE \E e \in Mira(G, D, src) : d \in e.dst
  <2>1. Entry(hopOf[d]) \in Mira(G, D, src)
      BY <1>1, <1>3
  <2>2. d \in Entry(hopOf[d]).dst
      OBVIOUS
  <2> QED
      BY <2>1, <2>2
<1> QED
    BY <1>4, <1>5 DEF P

LEMMA ReachableIs ==
    ASSUME GoodGraph(graph), NEW s \in Nodes
    PROVE  /\ Reachable(s) = DOMAIN Dist(graph, s)
           /\ \A n \in Nodes : WalkCosts(s)[n] =
                 IF n \in DOMAIN Dist(graph, s) THEN {Dist(graph, s)[n]} ELSE {}
<1>1. /\ IsDistance(graph, s, Dist(graph, s)) /\ DOMAIN Dist(graph, s) \subseteq Nodes
    BY DistAndPar DEF Nodes
<1> DEFINE dist == Dist(graph, s)
<1> HIDE DEF dist
<1>2. \A n \in Nodes : WalkCosts(s)[n] = IF n \in DOMAIN dist THEN {dist[n]} ELSE {}
    BY <1>1, WalkCostsAre DEF dist
<1>3. Reachable(s) = DOMAIN dist
    BY <1>1, <1>2 DEF Reachable, dist
<1> QED
    BY <1>2, <1>3 DEF dist

-----------------------------------------------------------------------------
(***************************************************************************)
(* Forwarding hop by hop.                                                  *)
(***************************************************************************)

\* The entries split what v reaches of E, and lead nearer to it.
Splits(E, v, entries) ==
    /\ \A e \in entries :
          /\ e = [via |-> e.via, dst |-> e.dst]
          /\ e.via \in DOMAIN Dist(graph, v) /\ e.dst \subseteq E \cap DOMAIN Dist(graph, v)
          /\ \A d \in e.dst : Dist(graph, e.via)[d] < Dist(graph, v)[d]
    /\ \A e, f \in entries : e.dst \cap f.dst # {} => e = f
    /\ \A d \in (E \cap DOMAIN Dist(graph, v)) \ {v} : \E e \in entries : d \in e.dst

LEMMA MiraEntriesSplit ==
    ASSUME GoodGraph(graph), NEW v \in Nodes, NEW E
    PROVE  Splits(E, v, Mira(graph, E, v))
<1> DEFINE P       == Par(graph, v)
           dist    == Dist(graph, v)
           entries == Mira(graph, E, v)
           Hop(d)  == FirstHop(P, v, d)
<1>1. v \in DOMAIN graph
    BY DEF Nodes
<1>2. /\ \A e \in entries :
            e.dst = {d \in E \cap DOMAIN P : Hop(d) = e.via} /\ e.dst # {} /\ e = [via |-> e.via, dst |-> e.dst]
      /\ \A d \in E \cap DOMAIN P : \E e \in entries : d \in e.dst
    BY <1>1, MiraSplits
<1>3. DOMAIN P = DOMAIN dist \ {v} /\ DOMAIN dist \subseteq DOMAIN graph
    BY <1>1, DistAndPar
<1>4. \A d \in DOMAIN P : IsHop(graph, v, Hop(d), d)
    BY <1>1, FirstHopIsHop
<1> HIDE DEF P, dist, entries, Hop
<1>5. ASSUME NEW e \in entries
      PROVE  /\ e = [via |-> e.via, dst |-> e.dst]
             /\ e.via \in DOMAIN dist /\ e.dst \subseteq E \cap DOMAIN dist
             /\ \A d \in e.dst : Dist(graph, e.via)[d] < dist[d]
  <2>1. \A d \in e.dst : d \in E /\ d \in DOMAIN P /\ Hop(d) = e.via
      BY <1>2
  <2>2. ASSUME NEW d \in e.dst PROVE e.via \in DOMAIN dist /\ Dist(graph, e.via)[d] < dist[d]
    <3> DEFINE h == e.via
    <3>1. IsHop(graph, v, h, d)
        BY <2>1, <1>4
    <3> HIDE DEF h
    <3>2. PICK f \in Links(graph, v) : f.remoteNodeId = h /\ dist[h] = f.linkCost
        BY <3>1 DEF IsHop, dist
    <3>3. f.linkCost \in Nat /\ f.linkCost # 0
        BY <1>1, LinksOf
    <3>4. h \in DOMAIN P /\ d \in DOMAIN Dist(graph, h) /\ dist[d] = dist[h] + Dist(graph, h)[d]
        BY <3>1 DEF IsHop, P, dist
    <3>5. h \in DOMAIN graph
        BY <3>4, <1>3
    <3>6. Dist(graph, h)[d] \in Nat
        BY <3>4, <3>5, DistAndPar
    <3> QED
        BY <3>2, <3>3, <3>4, <3>6, <1>3 DEF h
  <2>3. e.dst # {} /\ e = [via |-> e.via, dst |-> e.dst]
      BY <1>2
  <2> QED
      BY <2>1, <2>2, <2>3, <1>3
<1>6. ASSUME NEW e \in entries, NEW f \in entries, e.dst \cap f.dst # {} PROVE e = f
  <2>1. PICK d : d \in e.dst /\ d \in f.dst
      BY <1>6
  <2>2. e.via = Hop(d) /\ f.via = Hop(d)
      BY <2>1, <1>2
  <2>3. e.dst = f.dst
      BY <2>2, <1>2
  <2> QED
      BY <2>2, <2>3, <1>2
<1>7. \A d \in (E \cap DOMAIN dist) \ {v} : \E e \in entries : d \in e.dst
    BY <1>2, <1>3
<1> QED
    BY <1>5, <1>6, <1>7 DEF Splits, dist, entries

WalkType == [front : SUBSET [via : Nodes, dst : SUBSET Nodes], count : [Nodes -> Nat]]

\* A destination of D that is reached was served once, or is still in one entry.
FairWalk(R, D, w) ==
    /\ w \in WalkType
    /\ \A e \in w.front : e.via \in R /\ e.dst \subseteq D
    /\ \A e, f \in w.front : e.dst \cap f.dst # {} => e = f
    /\ \A n \in Nodes :
          \/ w.count[n] = 0 /\ (n \in D \cap R => \E e \in w.front : n \in e.dst)
          \/ w.count[n] = 1 /\ n \in D \cap R /\ \A e \in w.front : n \notin e.dst

Towards(d) == [m \in Nodes |-> Dist(graph, m)[d]]

\* After k hops the k nodes furthest from a destination are behind it.
Behind(R, k, w) ==
    \A e \in w.front : \A d \in e.dst \cap R : Nearer(R, Towards(d), e.via) + k <= Cardinality(R)

LEMMA ForwardKeeps ==
    ASSUME GoodGraph(graph), NEW s \in Nodes, NEW D \in SUBSET Nodes,
           NEW w, FairWalk(DOMAIN Dist(graph, s), D, w)
    PROVE  /\ FairWalk(DOMAIN Dist(graph, s), D, Forward(w))
           /\ \A k \in Nat : Behind(DOMAIN Dist(graph, s), k, w) =>
                                 Behind(DOMAIN Dist(graph, s), k + 1, Forward(w))
<1> DEFINE R == DOMAIN Dist(graph, s)
           Sub(e) == Mira(graph, e.dst \ {e.via}, e.via)
           front  == UNION {Sub(e) : e \in w.front}
           Here(n) == {e \in w.front : e.via = n /\ n \in e.dst}
           x == Forward(w)
<1>1. /\ R \subseteq Nodes /\ IsFiniteSet(R) /\ Cardinality(R) \in Nat
      /\ IsDistance(graph, s, Dist(graph, s))
  <2>1. R \in SUBSET Nodes /\ IsDistance(graph, s, Dist(graph, s))
      BY DistAndPar DEF Nodes
  <2>2. IsFiniteSet(Nodes)
      BY DEF GoodGraph, Nodes
  <2> HIDE DEF R
  <2> QED
      BY <2>1, <2>2, FS_Subset, FS_CardinalityType
<1>2. ASSUME NEW v \in R PROVE DOMAIN Dist(graph, v) = R
  <2>1. IsDistance(graph, v, Dist(graph, v))
      BY <1>1, DistAndPar DEF Nodes
  <2> QED
      BY <2>1, <1>1, SameReach
<1>3. /\ x.front = front
      /\ x.count = [n \in Nodes |-> w.count[n] + Cardinality(Here(n))]
      /\ x = [front |-> x.front, count |-> x.count]
    BY DEF Forward
<1>4. /\ w.front \subseteq [via : Nodes, dst : SUBSET Nodes] /\ w.count \in [Nodes -> Nat]
      /\ \A e \in w.front : e.via \in R /\ e.dst \subseteq D
      /\ \A e, f \in w.front : e.dst \cap f.dst # {} => e = f
      /\ \A n \in Nodes :
            \/ w.count[n] = 0 /\ (n \in D \cap R => \E e \in w.front : n \in e.dst)
            \/ w.count[n] = 1 /\ n \in D \cap R /\ \A e \in w.front : n \notin e.dst
  <2> HIDE DEF R
  <2> QED
      BY DEF FairWalk, WalkType, R
<1> HIDE DEF R, x
<1>5. ASSUME NEW e \in w.front PROVE Splits(e.dst \ {e.via}, e.via, Sub(e)) /\ DOMAIN Dist(graph, e.via) = R
    BY <1>1, <1>2, <1>4, MiraEntriesSplit
<1> HIDE DEF Sub
<1>6. ASSUME NEW e \in w.front, NEW f \in Sub(e)
      PROVE  /\ f = [via |-> f.via, dst |-> f.dst]
             /\ f.via \in R /\ f.dst \subseteq e.dst \cap R /\ e.via \notin f.dst
             /\ \A d \in f.dst : Dist(graph, f.via)[d] < Dist(graph, e.via)[d]
    BY <1>5 DEF Splits
<1>7. ASSUME NEW f \in front PROVE \E e \in w.front : f \in Sub(e)
    OBVIOUS
<1>8. ASSUME NEW e \in w.front, NEW d \in e.dst \cap R, d # e.via
      PROVE  \E f \in front : d \in f.dst
  <2>1. PICK f \in Sub(e) : d \in f.dst
      BY <1>5, <1>8 DEF Splits
  <2> QED
      BY <2>1
<1> HIDE DEF front
<1>9. \A f \in front : f \in [via : Nodes, dst : SUBSET Nodes] /\ f.via \in R /\ f.dst \subseteq D
  <2> SUFFICES ASSUME NEW f \in front
               PROVE  f \in [via : Nodes, dst : SUBSET Nodes] /\ f.via \in R /\ f.dst \subseteq D
      OBVIOUS
  <2>1. PICK e \in w.front : f \in Sub(e)
      BY <1>7
  <2>2. f = [via |-> f.via, dst |-> f.dst] /\ f.via \in R /\ f.dst \subseteq D
      BY <2>1, <1>4, <1>6
  <2>3. f.via \in Nodes /\ f.dst \in SUBSET Nodes
      BY <2>2, <1>1
  <2> QED
      BY <2>2, <2>3
<1>10. ASSUME NEW f \in front, NEW g \in front, f.dst \cap g.dst # {} PROVE f = g
  <2>1. PICK e \in w.front : f \in Sub(e)
      BY <1>7
  <2>2. PICK c \in w.front : g \in Sub(c)
      BY <1>7
  <2>3. PICK d : d \in f.dst /\ d \in g.dst
      BY <1>10
  <2>4. d \in e.dst /\ d \in c.dst
      BY <2>1, <2>2, <2>3, <1>6
  <2>5. e = c
      BY <2>4, <1>4
  <2> QED
      BY <2>1, <2>2, <2>5, <1>5, <1>10 DEF Splits
<1>11. ASSUME NEW n \in Nodes, NEW e \in w.front, e.via = n, n \in e.dst
       PROVE  Cardinality(Here(n)) = 1 /\ w.count[n] = 0 /\ n \in D \cap R /\ \A f \in front : n \notin f.dst
  <2>1. Here(n) = {e}
      BY <1>4, <1>11
  <2>2. Cardinality(Here(n)) = 1
      BY <2>1, FS_Singleton
  <2>3. w.count[n] = 0 /\ n \in D \cap R
      BY <1>4, <1>11
  <2>4. ASSUME NEW f \in front, n \in f.dst PROVE FALSE
    <3>1. PICK c \in w.front : f \in Sub(c)
        BY <1>7
    <3>2. n \in c.dst /\ n # c.via
        BY <2>4, <3>1, <1>6
    <3>3. c = e
        BY <3>2, <1>4, <1>11
    <3> QED
        BY <3>2, <3>3, <1>11
  <2> QED
      BY <2>2, <2>3, <2>4
<1>12. ASSUME NEW n \in Nodes, \A e \in w.front : ~(e.via = n /\ n \in e.dst)
       PROVE  Cardinality(Here(n)) = 0
  <2>1. Here(n) = {}
      BY <1>12
  <2> QED
      BY <2>1, FS_EmptySet
<1>13. ASSUME NEW n \in Nodes
       PROVE  LET c == w.count[n] + Cardinality(Here(n))
              IN  \/ c = 0 /\ (n \in D \cap R => \E e \in front : n \in e.dst)
                  \/ c = 1 /\ n \in D \cap R /\ \A e \in front : n \notin e.dst
  <2>1. CASE \E e \in w.front : e.via = n /\ n \in e.dst
      BY <2>1, <1>11
  <2>2. CASE \A e \in w.front : ~(e.via = n /\ n \in e.dst)
    <3>1. Cardinality(Here(n)) = 0
        BY <2>2, <1>12
    <3> HIDE DEF Here
    <3>2. CASE w.count[n] = 0
      <4>1. ASSUME n \in D \cap R PROVE \E f \in front : n \in f.dst
        <5>1. PICK e \in w.front : n \in e.dst
            BY <3>2, <4>1, <1>4
        <5>2. n \in e.dst \cap R /\ n # e.via
            BY <5>1, <4>1, <2>2
        <5> QED
            BY <5>2, <1>8
      <4> QED
          BY <3>1, <3>2, <4>1
    <3>3. CASE w.count[n] = 1 /\ n \in D \cap R /\ \A e \in w.front : n \notin e.dst
      <4>1. \A f \in front : n \notin f.dst
          BY <3>3, <1>6, <1>7
      <4> QED
          BY <3>1, <3>3, <4>1
    <3> QED
        BY <3>2, <3>3, <1>4
  <2> QED
      BY <2>1, <2>2
<1> HIDE DEF Here
<1>14. FairWalk(R, D, x)
  <2>1. \A n \in Nodes : x.count[n] = w.count[n] + Cardinality(Here(n))
      BY <1>3
  <2>2. \A n \in Nodes : x.count[n] \in Nat
      BY <2>1, <1>13
  <2>3. x.count \in [Nodes -> Nat]
      BY <2>2, <1>3
  <2>4. x \in WalkType
      BY <2>3, <1>3, <1>9 DEF WalkType
  <2> QED
      BY <2>1, <2>4, <1>3, <1>9, <1>10, <1>13 DEF FairWalk
<1>15. ASSUME NEW k \in Nat, Behind(R, k, w) PROVE Behind(R, k + 1, x)
  <2> SUFFICES ASSUME NEW f \in front, NEW d \in f.dst \cap R
               PROVE  Nearer(R, Towards(d), f.via) + (k + 1) <= Cardinality(R)
      BY <1>3 DEF Behind
  <2>1. PICK e \in w.front : f \in Sub(e)
      BY <1>7
  <2>2. /\ f.via \in R /\ e.via \in R /\ d \in e.dst \cap R
        /\ Dist(graph, f.via)[d] < Dist(graph, e.via)[d]
      BY <2>1, <1>4, <1>6
  <2> DEFINE to == Towards(d)
             m  == f.via
             n  == e.via
  <2>3. \A v \in R : to[v] \in Nat
    <3> SUFFICES ASSUME NEW v \in R PROVE Dist(graph, v)[d] \in Nat
        BY <1>1 DEF Towards
    <3> QED
        BY <1>1, <1>2, DistAndPar DEF Nodes
  <2>4. to[m] < to[n]
      BY <2>2, <1>1 DEF Towards
  <2>5. Nearer(R, to, n) + k <= Cardinality(R)
      BY <2>2, <1>15 DEF Behind
  <2> HIDE DEF to, m, n
  <2>6. Nearer(R, to, m) \in Nat /\ Nearer(R, to, n) \in Nat /\ Nearer(R, to, m) < Nearer(R, to, n)
    <3>1. m \in R /\ n \in R
        BY <2>2 DEF m, n
    <3> QED
        BY <3>1, <2>3, <2>4, <1>1, FewerNearer
  <2>7. Nearer(R, to, m) + (k + 1) <= Cardinality(R)
      BY <2>5, <2>6, <1>1
  <2> QED
      BY <2>7 DEF to, m
<1> QED
    BY <1>14, <1>15 DEF R, x

LEMMA ServedOnce ==
    ASSUME GoodGraph(graph), NEW s \in Nodes, NEW D \in SUBSET Nodes
    PROVE  \A n \in Nodes : Served(s, D)[n] = IF n \in D \cap DOMAIN Dist(graph, s) THEN 1 ELSE 0
<1> DEFINE R  == DOMAIN Dist(graph, s)
           N  == Cardinality(Nodes) + 1
           S  == {w \in WalkType : FairWalk(R, D, w)}
           w0 == [front |-> {[via |-> s, dst |-> D]}, count |-> [n \in Nodes |-> 0]]
           Loop(g) == [k \in 0 .. N |-> IF k = 0 THEN w0 ELSE Forward(g[k - 1])]
           step == [k \in 1 .. N |-> [w \in S |-> Forward(w)]]
<1>1. /\ R \subseteq Nodes /\ IsFiniteSet(R) /\ Cardinality(R) \in Nat /\ s \in R
      /\ N \in Nat /\ Cardinality(R) < N
  <2>1. R \in SUBSET Nodes /\ s \in R
      BY DistAndPar DEF Nodes
  <2>2. IsFiniteSet(Nodes) /\ Cardinality(Nodes) \in Nat
      BY FS_CardinalityType DEF GoodGraph, Nodes
  <2> HIDE DEF R
  <2>3. IsFiniteSet(R) /\ Cardinality(R) \in Nat /\ Cardinality(R) <= Cardinality(Nodes)
      BY <2>1, <2>2, FS_Subset, FS_CardinalityType
  <2> QED
      BY <2>1, <2>2, <2>3
<1>2. Forwarding(s, D) = CHOOSE g : g = Loop(g)
    BY DEF Forwarding
<1> HIDE DEF R
<1>3. w0.front = {[via |-> s, dst |-> D]} /\ w0.count = [n \in Nodes |-> 0]
    OBVIOUS
<1>4. w0 \in WalkType
    BY DEF WalkType
<1> HIDE DEF w0
<1>5. FairWalk(R, D, w0)
  <2>1. \A e \in w0.front : e.via = s /\ e.dst = D /\ e = [via |-> s, dst |-> D]
      BY <1>3
  <2>2. \E e \in w0.front : e.dst = D
      BY <1>3
  <2>3. \A n \in Nodes : w0.count[n] = 0
      BY <1>3
  <2> QED
      BY <2>1, <2>2, <2>3, <1>1, <1>4 DEF FairWalk
<1>6. Behind(R, 0, w0)
  <2> SUFFICES ASSUME NEW d \in D \cap R
               PROVE  Nearer(R, Towards(d), s) + 0 <= Cardinality(R)
      BY <1>3 DEF Behind
  <2> DEFINE A == {m \in R : Towards(d)[m] < Towards(d)[s]}
  <2>1. A \in SUBSET R
      OBVIOUS
  <2> HIDE DEF A
  <2>2. IsFiniteSet(A) /\ Cardinality(A) \in Nat /\ Cardinality(A) <= Cardinality(R)
      BY <2>1, <1>1, FS_Subset, FS_CardinalityType
  <2> QED
      BY <2>2 DEF Nearer, A
<1>7. \A w : FairWalk(R, D, w) =>
          /\ FairWalk(R, D, Forward(w))
          /\ \A k \in Nat : Behind(R, k, w) => Behind(R, k + 1, Forward(w))
    BY ForwardKeeps DEF R
<1>8. \A w : w \in S <=> FairWalk(R, D, w)
    BY DEF FairWalk
<1> HIDE DEF S, N
<1>9. w0 \in S
    BY <1>5, <1>8
<1>10. /\ step \in [1 .. N -> [S -> S]]
       /\ \A k \in 1 .. N : \A w \in S : step[k][w] = Forward(w)
    BY <1>7, <1>8
<1> HIDE DEF step
<1>11. PICK h \in [0 .. N -> S] : IsRun(h, w0, step, N)
    BY <1>1, <1>9, <1>10, RecursionExists
<1>12. h[0] = w0 /\ \A k \in 1 .. N : h[k] = step[k][h[k - 1]]
    BY <1>11 DEF IsRun
<1>13. h = Loop(h)
  <2>1. ASSUME NEW k \in 1 .. N PROVE h[k] = Forward(h[k - 1])
    <3>1. h[k - 1] \in S
        BY <1>1
    <3> QED
        BY <3>1, <1>10, <1>12
  <2>2. \A k \in 0 .. N : k = 0 \/ k \in 1 .. N
      BY <1>1
  <2>3. \A k \in 0 .. N : h[k] = Loop(h)[k]
      BY <2>1, <2>2, <1>12
  <2> QED
      BY <2>3
<1> DEFINE run == Forwarding(s, D)
<1>14. run = Loop(run)
    BY <1>2, <1>13
<1> HIDE DEF run
<1>15. run[0] = w0 /\ \A k \in 1 .. N : run[k] = Forward(run[k - 1])
  <2>1. 0 \in 0 .. N /\ \A k \in 1 .. N : k \in 0 .. N /\ k # 0
      BY <1>1
  <2> QED
      BY <2>1, <1>14
<1> DEFINE T == {k \in 0 .. N : FairWalk(R, D, run[k]) /\ Behind(R, k, run[k])}
<1>16. 0 \in T
    BY <1>1, <1>5, <1>6, <1>15
<1>17. ASSUME NEW k \in 0 .. N - 1, k \in T PROVE k + 1 \in T
  <2>1. k + 1 \in 1 .. N /\ (k + 1) - 1 = k /\ k + 1 \in 0 .. N /\ k \in Nat
      BY <1>1
  <2>2. run[k + 1] = Forward(run[k])
      BY <2>1, <1>15
  <2>3. FairWalk(R, D, run[k]) /\ Behind(R, k, run[k])
      BY <1>17
  <2> QED
      BY <2>1, <2>2, <2>3, <1>7
<1> HIDE DEF T
<1>18. 0 .. N \subseteq T
    BY <1>1, <1>16, <1>17, UpToInduction
<1>19. N \in T
    BY <1>1, <1>18
<1> DEFINE last == run[N]
<1>20. FairWalk(R, D, last) /\ Behind(R, N, last)
    BY <1>19 DEF T
<1> HIDE DEF last
<1>21. ASSUME NEW e \in last.front, NEW d \in e.dst \cap R PROVE FALSE
  <2>1. Nearer(R, Towards(d), e.via) + N <= Cardinality(R)
      BY <1>20 DEF Behind
  <2> DEFINE A == {m \in R : Towards(d)[m] < Towards(d)[e.via]}
  <2>2. A \in SUBSET R
      OBVIOUS
  <2> HIDE DEF A
  <2>3. Cardinality(A) \in Nat
      BY <2>2, <1>1, FS_Subset, FS_CardinalityType
  <2> QED
      BY <2>1, <2>3, <1>1 DEF Nearer, A
<1>22. ASSUME NEW n \in Nodes PROVE last.count[n] = IF n \in D \cap R THEN 1 ELSE 0
    BY <1>20, <1>21 DEF FairWalk
<1>23. Served(s, D) = last.count
    BY DEF Served, last, run, N
<1> QED
    BY <1>22, <1>23 DEF R

-----------------------------------------------------------------------------
(***************************************************************************)
(* The breadth-first order.                                                *)
(***************************************************************************)

\* o visits nodes of R, each one once.
Order(R, o) ==
    o \in Seq(R) /\ \A i, j \in 1 .. Len(o) : o[i] = o[j] => i = j

\* p goes on where o ends.
Prolongs(o, p) == Len(o) <= Len(p) /\ \A i \in 1 .. Len(o) : p[i] = o[i]

LEMMA OrderParts ==
    ASSUME NEW R, NEW o, Order(R, o)
    PROVE  /\ Len(o) \in Nat /\ DOMAIN o = 1 .. Len(o) /\ \A i \in 1 .. Len(o) : o[i] \in R
           /\ \A x : x \in Range(o) <=> \E i \in 1 .. Len(o) : x = o[i]
<1>1. Len(o) \in Nat /\ DOMAIN o = 1 .. Len(o) /\ \A i \in 1 .. Len(o) : o[i] \in R
    BY DEF Order
<1> QED
    BY <1>1 DEF Range

LEMMA VisitKeeps ==
    ASSUME NEW R, NEW o, Order(R, o), NEW n \in R
    PROVE  Order(R, Visit(o, n)) /\ Prolongs(o, Visit(o, n)) /\ n \in Range(Visit(o, n))
<1>1. Len(o) \in Nat /\ \A x : x \in Range(o) <=> \E i \in 1 .. Len(o) : x = o[i]
    BY OrderParts
<1>2. CASE n \in Range(o)
    BY <1>1, <1>2 DEF Visit, Prolongs
<1>3. CASE n \notin Range(o)
  <2> DEFINE p == Append(o, n)
  <2>1. o \in Seq(R)
      BY DEF Order
  <2>2. /\ p \in Seq(R) /\ Len(p) = Len(o) + 1 /\ p[Len(o) + 1] = n
        /\ \A i \in 1 .. Len(o) : p[i] = o[i]
      BY <2>1
  <2> HIDE DEF p
  <2>3. \A i \in 1 .. Len(o) : p[i] # n
      BY <2>2, <1>1, <1>3
  <2>4. ASSUME NEW i \in 1 .. Len(p), NEW j \in 1 .. Len(p), p[i] = p[j] PROVE i = j
    <3>1. CASE i \in 1 .. Len(o) /\ j \in 1 .. Len(o)
        BY <3>1, <2>2, <2>4 DEF Order
    <3>2. CASE i = Len(o) + 1 \/ j = Len(o) + 1
        BY <3>2, <2>2, <2>3, <2>4, <1>1
    <3> QED
        BY <3>1, <3>2, <2>2, <1>1
  <2>5. Order(R, p)
      BY <2>2, <2>4 DEF Order
  <2>6. Prolongs(o, p)
      BY <2>2, <1>1 DEF Prolongs
  <2>7. n \in Range(p)
    <3>1. Len(o) + 1 \in 1 .. Len(p)
        BY <2>2, <1>1
    <3> QED
        BY <3>1, <2>2, <2>5, OrderParts
  <2> QED
      BY <1>3, <2>5, <2>6, <2>7 DEF Visit, p
<1> QED
    BY <1>2, <1>3

LEMMA ProlongsMore ==
    ASSUME NEW R, NEW o, Order(R, o), NEW p, Order(R, p), NEW q, Order(R, q),
           Prolongs(o, p), Prolongs(p, q)
    PROVE  Prolongs(o, q) /\ Range(p) \subseteq Range(q)
<1>1. Len(o) \in Nat /\ Len(p) \in Nat /\ Len(q) \in Nat
    BY OrderParts
<1>2. Len(o) <= Len(p) /\ Len(p) <= Len(q)
    BY DEF Prolongs
<1>3. \A i \in 1 .. Len(o) : i \in 1 .. Len(p)
    BY <1>1, <1>2
<1>4. Prolongs(o, q)
    BY <1>1, <1>2, <1>3 DEF Prolongs
<1>5. \A i \in 1 .. Len(p) : i \in 1 .. Len(q) /\ q[i] = p[i]
    BY <1>1, <1>2 DEF Prolongs
<1>6. \A x \in Range(p) : x \in Range(q)
  <2> SUFFICES ASSUME NEW x \in Range(p) PROVE x \in Range(q)
      OBVIOUS
  <2>1. PICK i \in 1 .. Len(p) : x = p[i]
      BY OrderParts
  <2>2. i \in 1 .. Len(q) /\ x = q[i]
      BY <2>1, <1>5
  <2> QED
      BY <2>2, OrderParts
<1> QED
    BY <1>4, <1>6

LEMMA VisitingKeeps ==
    ASSUME NEW R, NEW o, Order(R, o), NEW faces, Len(faces) \in Nat,
           \A i \in 1 .. Len(faces) : faces[i].remoteNodeId \in R
    PROVE  LET p == Visiting(o, faces)[Len(faces)]
           IN  /\ Order(R, p) /\ Prolongs(o, p)
               /\ \A i \in 1 .. Len(faces) : faces[i].remoteNodeId \in Range(p)
<1> DEFINE N  == Len(faces)
           S  == {q \in Seq(R) : Order(R, q)}
           Remote(k) == faces[k].remoteNodeId
           Loop(g) == [k \in 0 .. N |-> IF k = 0 THEN o ELSE Visit(g[k - 1], Remote(k))]
           step == [k \in 1 .. N |-> [q \in S |-> Visit(q, Remote(k))]]
<1>1. Visiting(o, faces) = CHOOSE g : g = Loop(g)
    BY DEF Visiting
<1>2. N \in Nat /\ \A k \in 1 .. N : Remote(k) \in R
    OBVIOUS
<1>3. \A q : q \in S <=> Order(R, q)
    BY DEF Order
<1> HIDE DEF N, S, Remote
<1>4. o \in S
    BY <1>3
<1>5. /\ step \in [1 .. N -> [S -> S]]
      /\ \A k \in 1 .. N : \A q \in S : step[k][q] = Visit(q, Remote(k))
    BY <1>2, <1>3, VisitKeeps
<1> HIDE DEF step
<1>6. PICK h \in [0 .. N -> S] : IsRun(h, o, step, N)
    BY <1>2, <1>4, <1>5, RecursionExists
<1>7. h[0] = o /\ \A k \in 1 .. N : h[k] = step[k][h[k - 1]]
    BY <1>6 DEF IsRun
<1>8. h = Loop(h)
  <2>1. ASSUME NEW k \in 1 .. N PROVE h[k] = Visit(h[k - 1], Remote(k))
    <3>1. h[k - 1] \in S
        BY <1>2
    <3> QED
        BY <3>1, <1>5, <1>7
  <2>2. \A k \in 0 .. N : k = 0 \/ k \in 1 .. N
      BY <1>2
  <2>3. \A k \in 0 .. N : h[k] = Loop(h)[k]
      BY <2>1, <2>2, <1>7
  <2> QED
      BY <2>3
<1> DEFINE run == Visiting(o, faces)
<1>9. run = Loop(run)
    BY <1>1, <1>8
<1> HIDE DEF run
<1>10. run[0] = o /\ \A k \in 1 .. N : run[k] = Visit(run[k - 1], Remote(k))
  <2>1. 0 \in 0 .. N /\ \A k \in 1 .. N : k \in 0 .. N /\ k # 0
      BY <1>2
  <2> QED
      BY <2>1, <1>9
<1> DEFINE Done(k, p) == /\ Order(R, p) /\ Prolongs(o, p)
                         /\ \A i \in 1 .. k : Remote(i) \in Range(p)
           T == {k \in 0 .. N : Done(k, run[k])}
<1>11. 0 \in T
  <2>1. Prolongs(o, o)
      BY OrderParts DEF Prolongs
  <2> QED
      BY <2>1, <1>2, <1>10
<1>12. ASSUME NEW k \in 0 .. N - 1, k \in T PROVE k + 1 \in T
  <2> DEFINE p == run[k]
             q == run[k + 1]
  <2>1. k + 1 \in 1 .. N /\ (k + 1) - 1 = k /\ k + 1 \in 0 .. N /\ k \in Nat
      BY <1>2
  <2>2. q = Visit(p, Remote(k + 1))
      BY <2>1, <1>10
  <2>3. Done(k, p)
      BY <1>12
  <2> HIDE DEF p, q
  <2>4. Order(R, q) /\ Prolongs(p, q) /\ Remote(k + 1) \in Range(q)
      BY <2>1, <2>2, <2>3, <1>2, VisitKeeps
  <2>5. Prolongs(o, q) /\ Range(p) \subseteq Range(q)
      BY <2>3, <2>4, ProlongsMore
  <2>6. \A i \in 1 .. k + 1 : i \in 1 .. k \/ i = k + 1
      BY <2>1
  <2>7. Done(k + 1, q)
      BY <2>3, <2>4, <2>5, <2>6
  <2> QED
      BY <2>1, <2>7 DEF q
<1> HIDE DEF Done, T
<1>13. 0 .. N \subseteq T
    BY <1>2, <1>11, <1>12, UpToInduction
<1>14. N \in T
    BY <1>2, <1>13
<1>15. Done(N, run[N])
    BY <1>14 DEF T
<1> QED
    BY <1>15 DEF Done, run, N, Remote

BfsType(R) == [order : Seq(R), next : Nat \ {0}]

\* What the faces of the nodes before "next" lead to is in the order.
BfsInv(G, R, start, b) ==
    /\ b \in BfsType(R) /\ Order(R, b.order)
    /\ start \in Range(b.order) /\ b.next <= Len(b.order) + 1
    /\ \A i \in 1 .. b.next - 1 : \A f \in Links(G, b.order[i]) : f.remoteNodeId \in Range(b.order)

LEMMA ExpandKeeps ==
    ASSUME NEW G, GoodGraph(G), NEW R \in SUBSET DOMAIN G,
           \A m \in R : \A f \in Links(G, m) : f.remoteNodeId \in R,
           NEW start, NEW b, BfsInv(G, R, start, b)
    PROVE  /\ BfsInv(G, R, start, Expand(G, b))
           /\ b.next > Len(b.order) => Expand(G, b) = b
           /\ b.next <= Len(b.order) => Expand(G, b).next = b.next + 1
<1> DEFINE o     == b.order
           n     == b.next
           m     == o[n]
           faces == Faces(G, m)
           p     == Visiting(o, faces)[Len(faces)]
<1>1. /\ b = [order |-> o, next |-> n] /\ n \in Nat /\ n # 0 /\ Order(R, o)
      /\ start \in Range(o) /\ n <= Len(o) + 1
      /\ \A i \in 1 .. n - 1 : \A f \in Links(G, o[i]) : f.remoteNodeId \in Range(o)
  <2>1. b \in BfsType(R)
      BY DEF BfsInv
  <2>2. b = [order |-> o, next |-> n] /\ n \in Nat /\ n # 0
      BY <2>1 DEF BfsType
  <2> QED
      BY <2>2 DEF BfsInv
<1>2. Len(o) \in Nat /\ \A i \in 1 .. Len(o) : o[i] \in R
    BY <1>1, OrderParts
<1>3. CASE n > Len(o)
    BY <1>1, <1>2, <1>3 DEF Expand
<1>4. CASE n <= Len(o)
  <2>1. n \in 1 .. Len(o) /\ m \in R /\ ~(n > Len(o))
      BY <1>1, <1>2, <1>4
  <2>2. Expand(G, b) = [order |-> p, next |-> n + 1]
      BY <2>1 DEF Expand
  <2> HIDE DEF o, n, m
  <2>3. Len(faces) \in Nat /\ DOMAIN faces = 1 .. Len(faces)
      BY <2>1, LinksOf
  <2>4. Links(G, m) = {faces[i] : i \in DOMAIN faces}
      BY DEF Links
  <2> HIDE DEF faces
  <2>5. \A i \in 1 .. Len(faces) : faces[i].remoteNodeId \in R
      BY <2>1, <2>3, <2>4
  <2>6. /\ Order(R, p) /\ Prolongs(o, p)
        /\ \A i \in 1 .. Len(faces) : faces[i].remoteNodeId \in Range(p)
      BY <1>1, <2>3, <2>5, VisitingKeeps
  <2> HIDE DEF p
  <2>7. Len(p) \in Nat /\ Len(o) <= Len(p) /\ \A i \in 1 .. Len(o) : p[i] = o[i]
      BY <2>6, OrderParts DEF Prolongs
  <2>8. Range(o) \subseteq Range(p)
    <3>1. Prolongs(o, o)
        BY <1>2 DEF Prolongs
    <3> QED
        BY <3>1, <1>1, <2>6, ProlongsMore
  <2>9. ASSUME NEW i \in 1 .. (n + 1) - 1, NEW f \in Links(G, p[i]) PROVE f.remoteNodeId \in Range(p)
    <3>1. i \in 1 .. Len(o) /\ p[i] = o[i]
        BY <1>1, <1>2, <1>4, <2>7
    <3>2. CASE i = n
        BY <3>1, <3>2, <2>3, <2>4, <2>6, <2>9 DEF m
    <3>3. CASE i # n
      <4>1. i \in 1 .. n - 1
          BY <3>3, <1>1
      <4> QED
          BY <4>1, <3>1, <1>1, <2>8, <2>9
    <3> QED
        BY <3>2, <3>3
  <2> DEFINE x == [order |-> p, next |-> n + 1]
  <2>10. x.order = p /\ x.next = n + 1
      OBVIOUS
  <2>11. x \in BfsType(R)
      BY <1>1, <2>6 DEF BfsType, Order
  <2> HIDE DEF x
  <2>12. n + 1 <= Len(p) + 1
      BY <1>1, <1>2, <1>4, <2>7
  <2>13. BfsInv(G, R, start, x)
      BY <1>1, <2>6, <2>8, <2>9, <2>10, <2>11, <2>12 DEF BfsInv
  <2> QED
      BY <1>1, <1>2, <1>4, <2>2, <2>10, <2>13 DEF x, o, n
<1> QED
    BY <1>1, <1>2, <1>3, <1>4

\* Without repetition there is no room for more than all the nodes.
LEMMA OrderIsShort ==
    ASSUME NEW R, IsFiniteSet(R), NEW o, Order(R, o)
    PROVE  Len(o) <= Cardinality(R)
<1>1. Len(o) \in Nat /\ \A i \in 1 .. Len(o) : o[i] \in R
    BY OrderParts
<1> DEFINE I == 1 .. Len(o)
           f == [i \in I |-> o[i]]
<1>2. IsFiniteSet(I) /\ Cardinality(I) = Len(o)
  <2>1. IsFiniteSet(I) /\ Cardinality(I) = IF 1 > Len(o) THEN 0 ELSE Len(o) - 1 + 1
      BY <1>1, FS_Interval
  <2> QED
      BY <2>1, <1>1
<1>3. f \in Injection(I, R)
    BY <1>1 DEF Order, Injection, IsInjective
<1> HIDE DEF I, f
<1>4. Cardinality(I) <= Cardinality(R)
    BY <1>2, <1>3, FS_Injection
<1> QED
    BY <1>2, <1>4

LEMMA BfsOrderIs ==
    ASSUME NEW G, GoodGraph(G), NEW start \in DOMAIN G
    PROVE  LET o == BfsOrder(G, start)
           IN  o \in Seq(DOMAIN G) /\ Range(o) = DOMAIN Dist(G, start)
<1> DEFINE R  == DOMAIN Dist(G, start)
           N  == Cardinality(DOMAIN G) + 1
           S  == {b \in BfsType(R) : BfsInv(G, R, start, b)}
           b0 == [order |-> <<start>>, next |-> 1]
           Loop(g) == [k \in 0 .. N |-> IF k = 0 THEN b0 ELSE Expand(G, g[k - 1])]
           step == [k \in 1 .. N |-> [b \in S |-> Expand(G, b)]]
<1>1. IsDistance(G, start, Dist(G, start))
    BY DistAndPar
<1>2. /\ R \in SUBSET DOMAIN G /\ start \in R
      /\ \A m \in R : \A f \in Links(G, m) : f.remoteNodeId \in R
    BY <1>1 DEF IsDistance
<1>3. Expanding(G, start) = CHOOSE g : g = Loop(g)
    BY DEF Expanding
<1> HIDE DEF R
<1>4. /\ IsFiniteSet(R) /\ Cardinality(R) \in Nat /\ N \in Nat /\ Cardinality(R) < N
  <2>1. IsFiniteSet(DOMAIN G) /\ Cardinality(DOMAIN G) \in Nat
      BY FS_CardinalityType DEF GoodGraph
  <2>2. IsFiniteSet(R) /\ Cardinality(R) \in Nat /\ Cardinality(R) <= Cardinality(DOMAIN G)
      BY <2>1, <1>2, FS_Subset, FS_CardinalityType
  <2> QED
      BY <2>1, <2>2
<1>5. BfsInv(G, R, start, b0)
  <2> DEFINE o == <<start>>
  <2>1. o \in Seq(R) /\ Len(o) = 1 /\ o[1] = start
      BY <1>2
  <2>2. b0.order = o /\ b0.next = 1 /\ b0 = [order |-> o, next |-> 1]
      OBVIOUS
  <2> HIDE DEF o
  <2>3. b0 \in BfsType(R)
      BY <2>1, <2>2 DEF BfsType
  <2> HIDE DEF b0
  <2>4. Order(R, o)
      BY <2>1 DEF Order
  <2>5. start \in Range(o)
    <3>1. 1 \in 1 .. Len(o)
        BY <2>1
    <3> QED
        BY <3>1, <2>1, <2>4, OrderParts
  <2> QED
      BY <2>1, <2>2, <2>3, <2>4, <2>5 DEF BfsInv
<1>6. b0.next = 1
    OBVIOUS
<1>7. \A b : b \in S <=> BfsInv(G, R, start, b)
    BY DEF BfsInv
<1>8. \A b : BfsInv(G, R, start, b) =>
          /\ BfsInv(G, R, start, Expand(G, b))
          /\ b.next > Len(b.order) => Expand(G, b) = b
          /\ b.next <= Len(b.order) => Expand(G, b).next = b.next + 1
    BY <1>2, ExpandKeeps
<1> HIDE DEF b0, N, S
<1>9. b0 \in S
    BY <1>5, <1>7
<1>10. /\ step \in [1 .. N -> [S -> S]]
       /\ \A k \in 1 .. N : \A b \in S : step[k][b] = Expand(G, b)
    BY <1>7, <1>8
<1> HIDE DEF step
<1>11. PICK h \in [0 .. N -> S] : IsRun(h, b0, step, N)
    BY <1>4, <1>9, <1>10, RecursionExists
<1>12. h[0] = b0 /\ \A k \in 1 .. N : h[k] = step[k][h[k - 1]]
    BY <1>11 DEF IsRun
<1>13. h = Loop(h)
  <2>1. ASSUME NEW k \in 1 .. N PROVE h[k] = Expand(G, h[k - 1])
    <3>1. h[k - 1] \in S
        BY <1>4
    <3> QED
        BY <3>1, <1>10, <1>12
  <2>2. \A k \in 0 .. N : k = 0 \/ k \in 1 .. N
      BY <1>4
  <2>3. \A k \in 0 .. N : h[k] = Loop(h)[k]
      BY <2>1, <2>2, <1>12
  <2> QED
      BY <2>3
<1> DEFINE run == Expanding(G, start)
<1>14. run = Loop(run)
    BY <1>3, <1>13
<1> HIDE DEF run
<1>15. run[0] = b0 /\ \A k \in 1 .. N : run[k] = Expand(G, run[k - 1])
  <2>1. 0 \in 0 .. N /\ \A k \in 1 .. N : k \in 0 .. N /\ k # 0
      BY <1>4
  <2> QED
      BY <2>1, <1>14
<1> DEFINE Done(k, b) == BfsInv(G, R, start, b) /\ (b.next > Len(b.order) \/ b.next = k + 1)
           T == {k \in 0 .. N : Done(k, run[k])}
<1>16. 0 \in T
    BY <1>4, <1>5, <1>6, <1>15
<1>17. ASSUME NEW k \in 0 .. N - 1, k \in T PROVE k + 1 \in T
  <2> DEFINE b == run[k]
             c == run[k + 1]
  <2>1. k + 1 \in 1 .. N /\ (k + 1) - 1 = k /\ k + 1 \in 0 .. N /\ k \in Nat
      BY <1>4
  <2>2. c = Expand(G, b)
      BY <2>1, <1>15
  <2>3. Done(k, b)
      BY <1>17
  <2> HIDE DEF b, c
  <2>4. Len(b.order) \in Nat /\ b.next \in Nat
    <3>1. b \in BfsType(R) /\ Order(R, b.order)
        BY <2>3 DEF BfsInv
    <3> QED
        BY <3>1, OrderParts DEF BfsType
  <2>5. CASE b.next > Len(b.order)
      BY <2>1, <2>2, <2>3, <2>5, <1>8 DEF c
  <2>6. CASE b.next <= Len(b.order)
      BY <2>1, <2>2, <2>3, <2>4, <2>6, <1>8 DEF c
  <2> QED
      BY <2>4, <2>5, <2>6
<1> HIDE DEF Done, T
<1>18. 0 .. N \subseteq T
    BY <1>4, <1>16, <1>17, UpToInduction
<1>19. N \in T
    BY <1>4, <1>18
<1> DEFINE last == run[N]
           o    == last.order
<1>20. Done(N, last)
    BY <1>19 DEF T
<1> HIDE DEF last
<1>21. /\ last \in BfsType(R) /\ Order(R, o) /\ start \in Range(o) /\ last.next <= Len(o) + 1
       /\ \A i \in 1 .. last.next - 1 : \A f \in Links(G, o[i]) : f.remoteNodeId \in Range(o)
       /\ last.next > Len(o) \/ last.next = N + 1
    BY <1>20 DEF Done, BfsInv
<1>22. o \in Seq(R) /\ last.next \in Nat
    BY <1>21 DEF BfsType
<1> HIDE DEF o
<1>23. Len(o) \in Nat /\ Len(o) <= Cardinality(R) /\ \A x : x \in Range(o) <=> \E i \in 1 .. Len(o) : x = o[i]
    BY <1>4, <1>21, OrderIsShort, OrderParts
<1>24. last.next = Len(o) + 1
    BY <1>4, <1>21, <1>22, <1>23
<1>25. Range(o) \subseteq R
    BY <1>21, <1>23, OrderParts
<1> DEFINE u == [n \in Range(o) |-> 0]
<1>26. Closed(G, u)
  <2>1. ASSUME NEW n \in Range(o), NEW f \in Links(G, n) PROVE f.remoteNodeId \in Range(o) /\ f.linkCost \in Nat
    <3>1. PICK i \in 1 .. Len(o) : n = o[i]
        BY <1>23
    <3>2. i \in 1 .. last.next - 1
        BY <1>23, <1>24
    <3>3. n \in DOMAIN G
        BY <1>2, <1>25
    <3> QED
        BY <2>1, <3>1, <3>2, <3>3, <1>21, LinksOf
  <2>2. Range(o) \subseteq DOMAIN G
      BY <1>2, <1>25
  <2>3. DOMAIN u = Range(o) /\ \A n \in Range(o) : u[n] = 0
      OBVIOUS
  <2>4. u \in [Range(o) -> Nat]
      OBVIOUS
  <2> HIDE DEF u
  <2>5. \A n \in DOMAIN u : \A f \in Links(G, n) : f.remoteNodeId \in DOMAIN u /\ u[f.remoteNodeId] <= u[n] + f.linkCost
      BY <2>1, <2>3
  <2> QED
      BY <2>2, <2>3, <2>4, <2>5 DEF Closed
<1>27. DOMAIN u = Range(o)
    OBVIOUS
<1> HIDE DEF u
<1>28. \A n \in R : n \in Range(o)
    BY <1>1, <1>21, <1>26, <1>27, DistanceIsLeast DEF R
<1>29. o \in Seq(DOMAIN G)
    BY <1>2, <1>22
<1>30. Range(o) = R
    BY <1>25, <1>28
<1>31. BfsOrder(G, start) = o
    BY DEF BfsOrder, o, last, run, N
<1> QED
    BY <1>29, <1>30, <1>31 DEF R

\* None of the nodes that are visited is nearer than the one chosen.
LEMMA NearestIsNear ==
    ASSUME NEW visited, DOMAIN visited # {}, DOMAIN visited \subseteq Nat, NEW distance,
           \A i \in DOMAIN visited : visited[i] \in DOMAIN distance /\ distance[visited[i]] \in Nat
    PROVE  /\ Nearest(visited, distance) \in Range(visited)
           /\ \A m \in Range(visited) : distance[Nearest(visited, distance)] <= distance[m]
<1> DEFINE I    == DOMAIN visited
           D(i) == distance[visited[i]]
           best == {i \in I : \A j \in I : D(i) <= D(j)}
           C    == {D(i) : i \in I}
<1>1. Nearest(visited, distance) = visited[CHOOSE i \in best : \A j \in best : i <= j]
  <2>1. {i \in I : visited[i] \in DOMAIN distance} = I
      OBVIOUS
  <2> QED
      BY <2>1 DEF Nearest
<1>2. C \in SUBSET Nat /\ C # {} /\ \A i \in I : D(i) \in Nat
    OBVIOUS
<1>3. I \in SUBSET Nat /\ \A x : x \in Range(visited) <=> \E i \in I : x = visited[i]
    BY DEF Range
<1> HIDE DEF I, D
<1>4. PICK c \in C : \A b \in C : c <= b
  <2> HIDE DEF C
  <2> QED
      BY <1>2, LeastNat
<1>5. PICK i \in I : c = D(i)
    OBVIOUS
<1>6. i \in best
    BY <1>4, <1>5
<1>7. \E a \in best : \A b \in best : a <= b
  <2>1. best \in SUBSET Nat /\ best # {}
      BY <1>3, <1>6
  <2> HIDE DEF best
  <2> QED
      BY <2>1, LeastNat
<1> DEFINE a == CHOOSE x \in best : \A j \in best : x <= j
<1>8. a \in best
    BY <1>7
<1> HIDE DEF a
<1>9. a \in I /\ \A j \in I : D(a) <= D(j)
    BY <1>8
<1> QED
    BY <1>1, <1>3, <1>9 DEF D, a

-----------------------------------------------------------------------------
(***************************************************************************)
(* The inductive invariant: the graph the links make is a good one.        *)
(***************************************************************************)
GraphInv ==
    /\ DOMAIN graph \subseteq RsuId /\ IsFiniteSet(DOMAIN graph)
    /\ \A n \in DOMAIN graph : graph[n] \in Seq([remoteNodeId : DOMAIN graph, linkCost : LinkCost])
    /\ \A n \in DOMAIN graph : \A f \in Links(graph, n) :
          f.remoteNodeId # n /\ Face(n, f.linkCost) \in Links(graph, f.remoteNodeId)

LEMMA GraphIsGood == GraphInv => GoodGraph(graph)
<1> SUFFICES ASSUME GraphInv PROVE GoodGraph(graph)
    OBVIOUS
<1>1. [remoteNodeId : DOMAIN graph, linkCost : LinkCost] \subseteq LinkType(graph)
    BY BackboneAssumption DEF LinkType
<1>2. \A n \in DOMAIN graph : graph[n] \in Seq(LinkType(graph))
  <2> SUFFICES ASSUME NEW n \in DOMAIN graph PROVE graph[n] \in Seq(LinkType(graph))
      OBVIOUS
  <2> DEFINE s == graph[n]
             R == [remoteNodeId : DOMAIN graph, linkCost : LinkCost]
  <2>1. s \in Seq(R) /\ R \subseteq LinkType(graph)
      BY <1>1 DEF GraphInv
  <2> HIDE DEF s, R
  <2>2. s \in Seq(LinkType(graph))
      BY <2>1
  <2> QED
      BY <2>2 DEF s
<1> QED
    BY <1>2, BackboneAssumption DEF GraphInv, GoodGraph

\* Faces of G lead to V and cost what is in C.
Between(G, V, C) ==
    DOMAIN G \subseteq V /\ \A n \in DOMAIN G : G[n] \in Seq([remoteNodeId : V, linkCost : C])

\* H is G with one more face at m.
FaceAdded(G, H, m, f) ==
    /\ DOMAIN H = DOMAIN G \cup {m}
    /\ Links(H, m) = Links(G, m) \cup {f}
    /\ \A x : x # m => Links(H, x) = Links(G, x)

\* One end of a link is added.
LEMMA AddFaceIs ==
    ASSUME NEW V, NEW C, NEW G, Between(G, V, C),
           NEW m \in V, NEW n \in V, NEW cost \in C
    PROVE  FaceAdded(G, AddFace(G, m, n, cost), m, Face(n, cost))
           /\ Between(AddFace(G, m, n, cost), V, C)
<1> DEFINE H == AddFace(G, m, n, cost)
           s == Faces(G, m)
           f == Face(n, cost)
           R == [remoteNodeId : V, linkCost : C]
<1>1. DOMAIN H = DOMAIN G \cup {m} /\ H[m] = Append(s, f) /\ \A x \in DOMAIN G : x # m => H[x] = G[x]
    BY DEF AddFace, With
<1>2. s \in Seq(R)
  <2>1. CASE m \in DOMAIN G
      BY <2>1 DEF Faces, Between
  <2>2. CASE m \notin DOMAIN G
    <3> HIDE DEF R
    <3>1. <<>> \in Seq(R)
        OBVIOUS
    <3> QED
        BY <2>2, <3>1 DEF Faces
  <2> QED
      BY <2>1, <2>2
<1>3. f \in R
    BY DEF Face
<1>4. \A x : x # m => Faces(H, x) = Faces(G, x)
    BY <1>1 DEF Faces
<1>5. Faces(H, m) = Append(s, f)
    BY <1>1 DEF Faces
<1> HIDE DEF H, s, f, R
<1>6. Append(s, f) \in Seq(R)
    BY <1>2, <1>3
<1>7. {Append(s, f)[i] : i \in DOMAIN Append(s, f)} = {s[i] : i \in DOMAIN s} \cup {f}
  <2>1. /\ DOMAIN s = 1 .. Len(s) /\ Len(s) \in Nat
        /\ DOMAIN Append(s, f) = 1 .. Len(s) + 1
        /\ Append(s, f)[Len(s) + 1] = f
        /\ \A i \in 1 .. Len(s) : Append(s, f)[i] = s[i]
      BY <1>2, <1>3
  <2>2. \A i : i \in DOMAIN Append(s, f) <=> i \in DOMAIN s \/ i = Len(s) + 1
      BY <2>1
  <2>3. \A i \in DOMAIN s : Append(s, f)[i] = s[i]
      BY <2>1
  <2> QED
      BY <2>1, <2>2, <2>3
<1>8. Links(H, m) = Links(G, m) \cup {f}
    BY <1>5, <1>7 DEF Links, s
<1>9. \A x : x # m => Links(H, x) = Links(G, x)
    BY <1>4 DEF Links
<1>10. \A x \in DOMAIN H : H[x] \in Seq(R)
    BY <1>1, <1>6 DEF R, Between
<1> QED
    BY <1>1, <1>8, <1>9, <1>10 DEF H, f, R, Between, FaceAdded

LEMMA GraphInvHolds == Spec => []GraphInv
<1>1. Init => GraphInv
    BY FS_EmptySet DEF Init, GraphInv
<1>2. GraphInv /\ [Next]_graph => GraphInv'
  <2> SUFFICES ASSUME GraphInv, [Next]_graph PROVE GraphInv'
      OBVIOUS
  <2>1. CASE UNCHANGED graph
      BY <2>1 DEF GraphInv
  <2>2. CASE Next
    <3>1. PICK m \in RsuId, n \in RsuId, cost \in LinkCost : InstallLink(m, n, cost)
        BY <2>2 DEF Next
    <3> DEFINE H == AddFace(graph, m, n, cost)
               K == AddFace(H, n, m, cost)
               V == DOMAIN graph \cup {m, n}
               R == [remoteNodeId : V, linkCost : LinkCost]
    <3>2. m # n /\ graph' = K
        BY <3>1 DEF InstallLink
    <3>3. DOMAIN graph \subseteq V /\ \A x \in DOMAIN graph : graph[x] \in Seq(R)
      <4> SUFFICES ASSUME NEW x \in DOMAIN graph PROVE graph[x] \in Seq(R)
          OBVIOUS
      <4> DEFINE s == graph[x]
                 Q == [remoteNodeId : DOMAIN graph, linkCost : LinkCost]
      <4>1. s \in Seq(Q) /\ Q \subseteq R
          BY DEF GraphInv
      <4> HIDE DEF s, Q, R
      <4>2. s \in Seq(R)
          BY <4>1
      <4> QED
          BY <4>2 DEF s
    <3>11. m \in V /\ n \in V /\ V = DOMAIN graph \cup {m, n}
        OBVIOUS
    <3>13. Between(graph, V, LinkCost)
        BY <3>3 DEF Between
    <3>17. cost \in LinkCost
        OBVIOUS
    <3> HIDE DEF H, V
    <3>18. FaceAdded(graph, H, m, Face(n, cost)) /\ Between(H, V, LinkCost)
        BY <3>11, <3>13, <3>17, AddFaceIs DEF H
    <3>4. /\ DOMAIN H = DOMAIN graph \cup {m}
          /\ Links(H, m) = Links(graph, m) \cup {Face(n, cost)}
          /\ \A x : x # m => Links(H, x) = Links(graph, x)
        BY <3>18 DEF FaceAdded
    <3> HIDE DEF K
    <3>19. FaceAdded(H, K, n, Face(m, cost)) /\ Between(K, V, LinkCost)
        BY <3>11, <3>17, <3>18, AddFaceIs DEF K
    <3>6. /\ DOMAIN K = DOMAIN H \cup {n} /\ Between(K, V, LinkCost)
          /\ Links(K, n) = Links(H, n) \cup {Face(m, cost)}
          /\ \A x : x # n => Links(K, x) = Links(H, x)
        BY <3>19 DEF FaceAdded
    <3>7. DOMAIN K = V
        BY <3>4, <3>6, <3>11
    <3>8. V \subseteq RsuId /\ IsFiniteSet(V)
      <4> DEFINE A == DOMAIN graph
      <4>1. IsFiniteSet(A)
          BY DEF GraphInv
      <4> HIDE DEF A
      <4>3. IsFiniteSet(A \cup {m})
          BY <4>1, OneMore
      <4>4. IsFiniteSet((A \cup {m}) \cup {n})
          BY <4>3, OneMore
      <4>5. (A \cup {m}) \cup {n} = DOMAIN graph \cup {m, n}
          BY DEF A
      <4>2. IsFiniteSet(DOMAIN graph \cup {m, n})
          BY <4>4, <4>5
      <4> QED
          BY <4>2, <3>1, <3>11 DEF GraphInv
    <3>9. /\ Links(K, m) = Links(graph, m) \cup {Face(n, cost)}
          /\ Links(K, n) = Links(graph, n) \cup {Face(m, cost)}
          /\ \A x : x # m /\ x # n => Links(K, x) = Links(graph, x)
        BY <3>2, <3>4, <3>6
    <3>10. ASSUME NEW x \in V, NEW f \in Links(K, x)
           PROVE  f.remoteNodeId # x /\ Face(x, f.linkCost) \in Links(K, f.remoteNodeId)
      <4>1. CASE x = m /\ f = Face(n, cost)
          BY <4>1, <3>2, <3>9 DEF Face
      <4>2. CASE x = n /\ f = Face(m, cost)
          BY <4>2, <3>2, <3>9 DEF Face
      <4>3. CASE f \in Links(graph, x)
        <5>1. x \in DOMAIN graph
            BY <4>3 DEF Links, Faces
        <5>2. f.remoteNodeId # x /\ Face(x, f.linkCost) \in Links(graph, f.remoteNodeId)
            BY <4>3, <5>1 DEF GraphInv
        <5>3. \A y : Links(graph, y) \subseteq Links(K, y)
            BY <3>9
        <5> QED
            BY <5>2, <5>3
      <4> QED
          BY <4>1, <4>2, <4>3, <3>9, <3>10
    <3>12. \A x \in V : K[x] \in Seq([remoteNodeId : V, linkCost : LinkCost])
        BY <3>6, <3>7 DEF Between
    <3> HIDE DEF R
    <3>14. \A x \in V : \A f \in Links(K, x) : f.remoteNodeId # x /\ Face(x, f.linkCost) \in Links(K, f.remoteNodeId)
        BY <3>10
    <3> DEFINE G == graph'
    <3>15. G = K /\ DOMAIN G = V
        BY <3>2, <3>7
    <3> HIDE DEF G
    <3>16. /\ DOMAIN G \subseteq RsuId /\ IsFiniteSet(DOMAIN G)
           /\ \A x \in DOMAIN G : G[x] \in Seq([remoteNodeId : DOMAIN G, linkCost : LinkCost])
           /\ \A x \in DOMAIN G : \A f \in Links(G, x) :
                 f.remoteNodeId # x /\ Face(x, f.linkCost) \in Links(G, f.remoteNodeId)
        BY <3>8, <3>12, <3>14, <3>15
    <3> QED
        BY <3>16 DEF GraphInv, G, Links, Faces
  <2> QED
      BY <2>1, <2>2
<1> QED
    BY <1>1, <1>2, PTL DEF Spec

-----------------------------------------------------------------------------
(* PointToPointNetDeviceCallback: faces lead to RSUs that have the stack, and   *)
(* every face has the matching one at its other end, whatever links are         *)
(* installed, so distance.at of Mira never throws.                              *)
THEOREM BackboneTypes == Spec => []TypeOK
<1>1. GraphInv => TypeOK
  <2> SUFFICES ASSUME GraphInv PROVE TypeOK
      OBVIOUS
  <2>1. GoodGraph(graph)
      BY GraphIsGood
  <2>2. \A n \in Nodes : FaceSet(n) = Links(graph, n)
      BY DEF FaceSet, Links, Faces, Nodes
  <2>3. \A n \in Nodes : \A f \in Links(graph, n) : f.remoteNodeId \in Nodes
      BY <2>1, LinksOf DEF Nodes
  <2> QED
      BY <2>2, <2>3 DEF GraphInv, TypeOK, Nodes
<1> QED
    BY <1>1, GraphInvHolds, PTL

(* Mira gives every destination that can be reached to exactly one next hop,    *)
(* and the others to none, on every backbone and for every set of destinations. *)
THEOREM MiraPartitions == Spec => []EntriesPartition
<1>1. GraphInv => EntriesPartition
  <2> SUFFICES ASSUME GraphInv, NEW s \in Nodes, NEW D \in SUBSET Nodes
               PROVE  LET entries == Mira(graph, D, s)
                      IN  /\ UNION {e.dst : e \in entries} = (D \cap Reachable(s)) \ {s}
                          /\ \A e, f \in entries : e.dst \cap f.dst # {} => e = f
                          /\ {} \notin {e.dst : e \in entries}
      BY DEF EntriesPartition
  <2> DEFINE P       == Par(graph, s)
             entries == Mira(graph, D, s)
  <2>1. GoodGraph(graph)
      BY GraphIsGood
  <2>2. /\ \A e \in entries :
              /\ e.dst = {d \in D \cap DOMAIN P : FirstHop(P, s, d) = e.via}
              /\ e.dst # {} /\ e = [via |-> e.via, dst |-> e.dst]
        /\ \A d \in D \cap DOMAIN P : \E e \in entries : d \in e.dst
      BY <2>1, MiraSplits DEF Nodes
  <2>3. DOMAIN P = Reachable(s) \ {s}
      BY <2>1, ReachableIs, DistAndPar DEF Nodes
  <2> HIDE DEF P, entries
  <2>4. UNION {e.dst : e \in entries} = D \cap DOMAIN P
      BY <2>2
  <2>5. ASSUME NEW e \in entries, NEW f \in entries, e.dst \cap f.dst # {} PROVE e = f
    <3>1. PICK d : d \in e.dst /\ d \in f.dst
        BY <2>5
    <3>2. e.via = FirstHop(P, s, d) /\ f.via = FirstHop(P, s, d)
        BY <2>2, <3>1
    <3>3. e.dst = f.dst
        BY <2>2, <3>2
    <3> QED
        BY <2>2, <3>2, <3>3
  <2>6. {} \notin {e.dst : e \in entries}
      BY <2>2
  <2> QED
      BY <2>3, <2>4, <2>5, <2>6 DEF entries
<1> QED
    BY <1>1, GraphInvHolds, PTL

(* The next hop Mira names for a destination lies on a least-cost path to it.   *)
THEOREM HopsAreOnShortestPaths == Spec => []NextHopOnShortestPath
<1>1. ASSUME GraphInv, NEW s \in Nodes, NEW e \in Mira(graph, Nodes, s), NEW d \in e.dst
      PROVE  /\ e.via \in Nodes
             /\ \E f \in FaceSet(s) :
                   /\ f.remoteNodeId = e.via
                   /\ WalkCosts(s)[d] = {f.linkCost + c : c \in WalkCosts(e.via)[d]}
  <2> DEFINE P == Par(graph, s)
             h == e.via
  <2>1. GoodGraph(graph) /\ s \in DOMAIN graph
      BY <1>1, GraphIsGood DEF Nodes
  <2>2. d \in DOMAIN P /\ FirstHop(P, s, d) = h
      BY <2>1, MiraSplits
  <2>3. IsHop(graph, s, h, d)
      BY <2>1, <2>2, FirstHopIsHop
  <2> HIDE DEF h
  <2>4. PICK f \in Links(graph, s) : f.remoteNodeId = h /\ Dist(graph, s)[h] = f.linkCost
      BY <2>3 DEF IsHop
  <2>5. h \in Nodes /\ f.linkCost \in Nat
      BY <2>1, <2>4, LinksOf DEF Nodes
  <2>6. d \in DOMAIN Dist(graph, s) /\ d \in Nodes
    <3>1. DOMAIN Par(graph, s) = DOMAIN Dist(graph, s) \ {s} /\ DOMAIN Dist(graph, s) \subseteq Nodes
        BY <2>1, DistAndPar DEF Nodes
    <3> QED
        BY <2>2, <3>1
  <2>7. d \in DOMAIN Dist(graph, h) /\ Dist(graph, s)[d] = f.linkCost + Dist(graph, h)[d]
      BY <2>3, <2>4 DEF IsHop
  <2>8. WalkCosts(s)[d] = {Dist(graph, s)[d]} /\ WalkCosts(h)[d] = {Dist(graph, h)[d]}
      BY <2>1, <2>5, <2>6, <2>7, ReachableIs
  <2>9. FaceSet(s) = Links(graph, s)
      BY DEF FaceSet, Links, Faces, Nodes
  <2>10. WalkCosts(s)[d] = {f.linkCost + c : c \in WalkCosts(h)[d]}
      BY <2>7, <2>8
  <2> QED
      BY <2>4, <2>5, <2>9, <2>10 DEF h
<1>2. GraphInv => NextHopOnShortestPath
    BY <1>1 DEF NextHopOnShortestPath
<1> QED
    BY <1>2, GraphInvHolds, PTL

(* The RSUs forward hop by hop, each by its own Mira; together they serve every *)
(* destination that can be reached exactly once and nobody else, whatever the   *)
(* backbone and the destinations, even where shortest paths tie.                *)
THEOREM EachIsServedOnce == Spec => []HopByHopServesOnce
<1>1. ASSUME GraphInv, NEW s \in Nodes, NEW D \in SUBSET Nodes, NEW n \in Nodes
      PROVE  Served(s, D)[n] = IF n \in D \cap Reachable(s) THEN 1 ELSE 0
  <2>1. GoodGraph(graph)
      BY <1>1, GraphIsGood
  <2>2. Reachable(s) = DOMAIN Dist(graph, s)
      BY <2>1, ReachableIs
  <2>3. Served(s, D)[n] = IF n \in D \cap DOMAIN Dist(graph, s) THEN 1 ELSE 0
      BY <2>1, ServedOnce
  <2> QED
      BY <2>2, <2>3
<1>2. GraphInv => HopByHopServesOnce
    BY <1>1 DEF HopByHopServesOnce
<1> QED
    BY <1>2, GraphInvHolds, PTL

(* ComputeDestinationNodes names exactly the RSUs that cover the ZoR and can be *)
(* reached, or, when there is none, one RSU that can be reached than which none *)
(* is nearer to the ZoR, on every backbone and for every position of the ZoR.   *)
THEOREM DestinationsAreRight == Spec => []DestinationsCoverOrNearest
<1>1. ASSUME GraphInv, NEW s \in Nodes, NEW covering \in SUBSET RsuId
      PROVE  LET D == ComputeDestinationNodes(graph, covering, ZoneDistance, s)
             IN  IF covering \cap Reachable(s) # {}
                 THEN D = covering \cap Reachable(s)
                 ELSE /\ Cardinality(D) = 1
                      /\ \A n \in D : n \in Reachable(s)
                                      /\ \A m \in Reachable(s) : ZoneDistance[n] <= ZoneDistance[m]
  <2> DEFINE visited == BfsOrder(graph, s)
             R       == Reachable(s)
             near    == Nearest(visited, ZoneDistance)
             covers  == R \cap DOMAIN ZoneDistance \cap covering
  <2>1. GoodGraph(graph) /\ s \in DOMAIN graph
      BY <1>1, GraphIsGood DEF Nodes
  <2>2. visited \in Seq(Nodes) /\ Range(visited) = R
      BY <2>1, BfsOrderIs, ReachableIs DEF Nodes
  <2>3. s \in R /\ R \subseteq Nodes
    <3>1. s \in DOMAIN Dist(graph, s) /\ DOMAIN Dist(graph, s) \subseteq Nodes
        BY <2>1, DistAndPar DEF Nodes
    <3>2. Reachable(s) = DOMAIN Dist(graph, s)
        BY <2>1, ReachableIs
    <3> QED
        BY <3>1, <3>2
  <2>4. Nodes \subseteq RsuId /\ ZoneDistance \in [RsuId -> Nat]
      BY <1>1, BackboneAssumption DEF GraphInv, Nodes
  <2>5. ComputeDestinationNodes(graph, covering, ZoneDistance, s) = IF covers # {} THEN covers ELSE {near}
      BY <2>2 DEF ComputeDestinationNodes
  <2> HIDE DEF visited, R
  <2>6. covers = covering \cap R
      BY <2>3, <2>4
  <2>7. /\ DOMAIN visited \subseteq Nat /\ DOMAIN visited # {}
        /\ \A i \in DOMAIN visited : visited[i] \in DOMAIN ZoneDistance /\ ZoneDistance[visited[i]] \in Nat
    <3>1. /\ DOMAIN visited = 1 .. Len(visited) /\ Len(visited) \in Nat
          /\ \A i \in DOMAIN visited : visited[i] \in Nodes
        BY <2>2
    <3>2. DOMAIN visited # {}
        BY <2>2, <2>3 DEF Range
    <3>3. \A n \in Nodes : n \in DOMAIN ZoneDistance /\ ZoneDistance[n] \in Nat
        BY <2>4
    <3> QED
        BY <3>1, <3>2, <3>3
  <2>8. near \in R /\ \A m \in R : ZoneDistance[near] <= ZoneDistance[m]
      BY <2>2, <2>7, NearestIsNear
  <2> HIDE DEF near, covers
  <2>9. Cardinality({near}) = 1
      BY FS_Singleton
  <2> QED
      BY <2>5, <2>6, <2>8, <2>9 DEF R
<1>2. GraphInv => DestinationsCoverOrNearest
    BY <1>1 DEF DestinationsCoverOrNearest
<1> QED
    BY <1>2, GraphInvHolds, PTL
=============================================================================
