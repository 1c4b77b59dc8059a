----------------------------- MODULE CafRouting -----------------------------
(***************************************************************************)
(* The two pure algorithms an RSU runs when it forwards an alert over the  *)
(* wired backbone (src/src/ndnSIM/model/caf-routing.cpp):                  *)
(*                                                                         *)
(*   ComputeDestinationNodes  which RSUs must broadcast the alert, and     *)
(*   Mira                     which neighbour is made responsible for      *)
(*                            which of them.                               *)
(*                                                                         *)
(* A graph is a function from node identifiers to the sequence of faces    *)
(* of the node, in the order in which the faces were created; a face is    *)
(* named by the node at its other end.  A loop of the code is a function   *)
(* from the number of its iterations to the state they lead to.            *)
(***************************************************************************)
EXTENDS Integers, Sequences, FiniteSets, SequencesExt

\* std::numeric_limits<NodeId>::max() of the code: "no node at all".
CONSTANT NoNode

Faces(G, n) == IF n \in DOMAIN G THEN G[n] ELSE <<>>

Neighbors(G, n) == {Faces(G, n)[i].remoteNodeId : i \in DOMAIN Faces(G, n)}

\* The number of faces of the whole graph bounds the pushes of the search.
FaceCount(G) == Cardinality(UNION {{n} \X DOMAIN G[n] : n \in DOMAIN G})

-----------------------------------------------------------------------------
(***************************************************************************)
(* Mira's Dijkstra.  A node the search has not reached is outside the      *)
(* domain of "distance" and of "parent" (the code's MAX and UNDEFINED).    *)
(***************************************************************************)
DijkstraStart(src) ==
    [distance |-> [n \in {src} |-> 0],
     parent   |-> [n \in {} |-> src],
     queue    |-> {<<0, src>>}]

\* std::greater on pairs: least cost first, least node identifier on a tie.
Top(queue) ==
    CHOOSE p \in queue :
        \A q \in queue : p[1] < q[1] \/ (p[1] = q[1] /\ p[2] <= q[2])

With(f, n, value) == [m \in DOMAIN f \cup {n} |-> IF m = n THEN value ELSE f[m]]

\* Mutant of Relax: the cost of a link is ignored.
RelaxHops(search, n, face) ==
    LET remote == face.remoteNodeId
        cost   == search.distance[n] + 1
    IN  IF remote \in DOMAIN search.distance /\ search.distance[remote] <= cost
        THEN search
        ELSE [distance |-> With(search.distance, remote, cost),
              parent   |-> With(search.parent, remote, n),
              queue    |-> search.queue \cup {<<cost, remote>>}]

\* A face is used only if it makes its remote node strictly closer.
Relax(search, n, face) ==
    LET remote == face.remoteNodeId
        cost   == search.distance[n] + face.linkCost
    IN  IF remote \in DOMAIN search.distance /\ search.distance[remote] <= cost
        THEN search
        ELSE [distance |-> With(search.distance, remote, cost),
              parent   |-> With(search.parent, remote, n),
              queue    |-> search.queue \cup {<<cost, remote>>}]

Relaxing(search, n, faces) ==
    LET after[i \in 0 .. Len(faces)] ==
            IF i = 0 THEN search ELSE Relax(after[i - 1], n, faces[i])
    IN  after

Pop(G, search) ==
    LET top  == Top(search.queue)
        n    == top[2]
        rest == [search EXCEPT !.queue = @ \ {top}]
    IN  IF top[1] > search.distance[n]
        THEN rest
        ELSE Relaxing(rest, n, Faces(G, n))[Len(Faces(G, n))]

PopIfAny(G, search) == IF search.queue = {} THEN search ELSE Pop(G, search)

Searching(G, src) ==
    LET after[k \in 0 .. FaceCount(G) + 1] ==
            IF k = 0 THEN DijkstraStart(src) ELSE PopIfAny(G, after[k - 1])
    IN  after

Dijkstra(G, src) == Searching(G, src)[FaceCount(G) + 1]

\* Mutant of FirstHop: one step up the path instead of all of them.
FirstHopOneStep(parent, src, d) == IF parent[d] = src THEN d ELSE parent[d]

Up(parent, src, n) == IF parent[n] = src THEN n ELSE parent[n]

Climbing(parent, src, d) ==
    LET after[k \in 0 .. Cardinality(DOMAIN parent)] ==
            IF k = 0 THEN d ELSE Up(parent, src, after[k - 1])
    IN  after

\* The child of src on the path the parents describe.
FirstHop(parent, src, d) == Climbing(parent, src, d)[Cardinality(DOMAIN parent)]

\* Mutant of Mira: every neighbour gets an entry.
MiraEveryFace(G, destinations, src) ==
    LET parent == Dijkstra(G, src).parent
        served == destinations \cap DOMAIN parent
        hopOf  == [d \in served |-> FirstHop(parent, src, d)]
    IN  {[via |-> h, dst |-> {d \in served : hopOf[d] = h}] :
            h \in DOMAIN G \cap Neighbors(G, src)}

(***************************************************************************)
(* One entry per next hop, with the destinations it becomes responsible    *)
(* for.  Destinations the search did not reach, and src itself, are in no  *)
(* entry.  Destinations are nodes of G; the code throws for any other one. *)
(***************************************************************************)
Mira(G, destinations, src) ==
    LET parent == Dijkstra(G, src).parent
        served == destinations \cap DOMAIN parent
        hopOf  == [d \in served |-> FirstHop(parent, src, d)]
    IN  {[via |-> h, dst |-> {d \in served : hopOf[d] = h}] :
            h \in {hopOf[d] : d \in served} \cap DOMAIN G \cap Neighbors(G, src)}

-----------------------------------------------------------------------------
(***************************************************************************)
(* ComputeDestinationNodes: the breadth-first order in which nodes are     *)
(* visited matters, because among equally distant RSUs the first visited   *)
(* one is the fallback.                                                    *)
(***************************************************************************)
Visit(order, n) == IF n \in Range(order) THEN order ELSE Append(order, n)

Visiting(order, faces) ==
    LET after[i \in 0 .. Len(faces)] ==
            IF i = 0 THEN order ELSE Visit(after[i - 1], faces[i].remoteNodeId)
    IN  after

\* que.front() is the first visited node whose faces were not followed.
Expand(G, bfs) ==
    IF bfs.next > Len(bfs.order) THEN bfs
    ELSE LET faces == Faces(G, bfs.order[bfs.next])
         IN  [order |-> Visiting(bfs.order, faces)[Len(faces)], next |-> bfs.next + 1]

\* Every node is visited and expanded once at most.
Expanding(G, start) ==
    LET after[k \in 0 .. Cardinality(DOMAIN G) + 1] ==
            IF k = 0 THEN [order |-> <<start>>, next |-> 1] ELSE Expand(G, after[k - 1])
    IN  after

BfsOrder(G, start) == Expanding(G, start)[Cardinality(DOMAIN G) + 1].order

\* The first of the visited RSUs that no other one beats; NoNode if there is none.
Nearest(visited, distance) ==
    LET placed == {i \in DOMAIN visited : visited[i] \in DOMAIN distance}
        best   == {i \in placed :
                      \A j \in placed : distance[visited[i]] <= distance[visited[j]]}
    IN  IF placed = {} THEN NoNode
        ELSE visited[CHOOSE i \in best : \A j \in best : i <= j]

\* Mutant of ComputeDestinationNodes: RSUs without a path count too.
ComputeUnreachedNodes(G, covering, distance, start) ==
    LET covers == DOMAIN distance \cap covering
    IN  IF covers # {} THEN covers ELSE {Nearest(BfsOrder(G, start), distance)}

(***************************************************************************)
(* "covering" is the set of RSUs whose radio range meets the ZoR and       *)
(* "distance" gives the distance to the ZoR of every RSU whose position    *)
(* was recorded (DOMAIN distance).                                         *)
(***************************************************************************)
ComputeDestinationNodes(G, covering, distance, start) ==
    LET visited == BfsOrder(G, start)
        covers  == Range(visited) \cap DOMAIN distance \cap covering
    IN  IF covers # {} THEN covers ELSE {Nearest(visited, distance)}
=============================================================================
