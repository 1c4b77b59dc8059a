------------------------------ MODULE Backbone ------------------------------
(***************************************************************************)
(* The wired backbone between RSUs and what the two routing algorithms     *)
(* answer on every graph that can result.  The graph is the process-wide   *)
(* one of Context::GetRoutingInfo; PointToPointNetDeviceCallback appends   *)
(* one face to it for each end of a link, and faces of a node are in the   *)
(* order of its links.  A state is the graph a scenario with these links   *)
(* has once the stack is installed on every RSU, an action one more link.  *)
(***************************************************************************)
EXTENDS CafRouting

CONSTANTS
    RsuId,        \* node identifiers of the RSUs
    LinkCost,     \* costs a link may have (the code installs 1 everywhere)
    MaxLinks,     \* bound: links installed in one behaviour
    MaxCost,      \* bound: the sum of their costs
    ZoneDistance  \* distance of each RSU to the ZoR under consideration

ASSUME BackboneAssumption ==
    /\ RsuId \subseteq Nat
    /\ LinkCost \subseteq Nat \ {0}
    /\ MaxLinks \in Nat
    /\ MaxCost \in Nat
    /\ ZoneDistance \in [RsuId -> Nat]
    /\ NoNode \notin RsuId

VARIABLE graph

Face(remote, cost) == [remoteNodeId |-> remote, linkCost |-> cost]

AddFace(G, from, to, cost) ==
    With(G, from, Append(Faces(G, from), Face(to, cost)))

\* The bounds leave room for one more link; both ends of a link have its cost.
Room(cost) ==
    LET CostOfFaces(n) == FoldLeft(LAMBDA sum, f : f.linkCost + sum, 0, graph[n])
        total == FoldSet(LAMBDA n, sum : CostOfFaces(n) + sum, 0, DOMAIN graph)
    IN  /\ FaceCount(graph) < 2 * MaxLinks
        /\ total + 2 * cost <= 2 * MaxCost

Init == graph = [n \in {} |-> <<>>]

\* Mutant of InstallLink: only one end learns of the link.
InstallOneEnd(m, n, cost) ==
    /\ m # n
    /\ Room(cost)
    /\ graph' = AddFace(graph, m, n, cost)

\* Both ends of a point-to-point link get a face with the same cost.
InstallLink(m, n, cost) ==
    /\ m # n
    /\ Room(cost)
    /\ graph' = AddFace(AddFace(graph, m, n, cost), n, m, cost)

Next == \E m, n \in RsuId, cost \in LinkCost : InstallLink(m, n, cost)

Spec == Init /\ [][Next]_graph

-----------------------------------------------------------------------------
(***************************************************************************)
(* Reference definitions: least cost over walks of at most k faces, and    *)
(* reachability.                                                           *)
(***************************************************************************)
Nodes == DOMAIN graph

FaceSet(n) == {graph[n][i] : i \in DOMAIN graph[n]}

\* What a walk of one more face adds to the least costs known.
Longer(costs) ==
    [n \in Nodes |->
        LET via == UNION {{c + f.linkCost : c \in costs[f.remoteNodeId]} : f \in FaceSet(n)}
            all == costs[n] \cup via
        IN  {c \in all : \A d \in all : c <= d}]

Walking(s) ==
    LET costs[k \in 0 .. Cardinality(Nodes)] ==
            IF k = 0 THEN [n \in Nodes |-> IF n = s THEN {0} ELSE {}] ELSE Longer(costs[k - 1])
    IN  costs

\* The least cost of the walks from s to n, in a singleton; {} without a walk.
WalkCosts(s) == Walking(s)[Cardinality(Nodes)]

Reachable(s) == {n \in Nodes : WalkCosts(s)[n] # {}}

(***************************************************************************)
(* Following the entries of Mira hop by hop, as the RSUs do: how often     *)
(* each node is reached by an entry that names the node itself.            *)
(***************************************************************************)
Forward(walk) ==
    [front |-> UNION {Mira(graph, e.dst \ {e.via}, e.via) : e \in walk.front},
     count |-> [n \in Nodes |-> walk.count[n] +
                   Cardinality({e \in walk.front : e.via = n /\ n \in e.dst})]]

Forwarding(src, destinations) ==
    LET walk[k \in 0 .. Cardinality(Nodes) + 1] ==
            IF k = 0 THEN [front |-> {[via |-> src, dst |-> destinations]},
                           count |-> [n \in Nodes |-> 0]]
            ELSE Forward(walk[k - 1])
    IN  walk

Served(src, destinations) == Forwarding(src, destinations)[Cardinality(Nodes) + 1].count

-----------------------------------------------------------------------------
(* Type invariant: the graph maps RSUs to faces of RSUs, and every face    *)
(* has the matching face at its other end (so that Mira's distance.at      *)
(* never throws).                                                          *)
TypeOK ==
    /\ Nodes \subseteq RsuId
    /\ \A n \in Nodes : \A f \in FaceSet(n) :
          /\ f.remoteNodeId \in Nodes \ {n}
          /\ Face(n, f.linkCost) \in FaceSet(f.remoteNodeId)

(* Mira splits the reachable destinations: each one is in exactly one      *)
(* entry, the others in none, and no entry is empty.                       *)
EntriesPartition ==
    \A s \in Nodes : \A D \in SUBSET Nodes :
        LET entries == Mira(graph, D, s)
        IN  /\ UNION {e.dst : e \in entries} = (D \cap Reachable(s)) \ {s}
            /\ \A e, f \in entries : e.dst \cap f.dst # {} => e = f
            /\ {} \notin {e.dst : e \in entries}

(* The next hop Mira names for a destination lies on a least-cost path to  *)
(* it, so that the remaining cost strictly decreases at every hop.         *)
NextHopOnShortestPath ==
    LET costs == [s \in Nodes |-> WalkCosts(s)]
    IN  \A s \in Nodes : \A e \in Mira(graph, Nodes, s) : \A d \in e.dst :
            \E f \in FaceSet(s) :
                /\ f.remoteNodeId = e.via
                /\ costs[s][d] = {f.linkCost + c : c \in costs[e.via][d]}

(* Each RSU recomputes Mira for the destinations it was made responsible   *)
(* for; together the recomputations serve every reachable destination      *)
(* exactly once and nobody else, even where shortest paths tie.            *)
HopByHopServesOnce ==
    \A s \in Nodes : \A D \in SUBSET Nodes :
        LET served == Served(s, D)
        IN  \A n \in Nodes : served[n] = IF n \in D \cap Reachable(s) THEN 1 ELSE 0

(* ComputeDestinationNodes names exactly the reachable RSUs that cover the *)
(* ZoR; without one, a single reachable RSU than which none is nearer.     *)
DestinationsCoverOrNearest ==
    \A s \in Nodes : \A covering \in SUBSET RsuId :
        LET D == ComputeDestinationNodes(graph, covering, ZoneDistance, s)
        IN  IF covering \cap Reachable(s) # {}
            THEN D = covering \cap Reachable(s)
            ELSE /\ Cardinality(D) = 1
                 /\ \A n \in D : n \in Reachable(s)
                                 /\ \A m \in Reachable(s) : ZoneDistance[n] <= ZoneDistance[m]
=============================================================================
