------------------------------ MODULE Geocast ------------------------------
(***************************************************************************)
(* What applications may rely on, whatever the network does: an alert is   *)
(* handed to the applications of a node only after it was published, only  *)
(* where it is relevant, and only once.  Where nodes are is not this       *)
(* module's business: "pos" changes freely.                                *)
(***************************************************************************)
EXTENDS Naturals

CONSTANTS
    Node, Alert,
    NeighborAlert,      \* alerts for whoever is one hop away
    ZoRLess,            \* alerts that stay on their node
    Producer,
    ZoRContains(_, _)   \* ZoRContains(a, p): the ZoR of a contains p

VARIABLES pos, produced, delivered

Relevant(n, a) ==
    IF a \in NeighborAlert THEN n # Producer[a]
    ELSE IF a \in ZoRLess THEN n = Producer[a]
    ELSE ZoRContains(a, pos[n])

Hand(n, a) ==
    /\ Relevant(n, a)
    /\ delivered[n][a] = 0
    /\ delivered' = [delivered EXCEPT ![n][a] = 1]

Init ==
    /\ produced = {}
    /\ delivered = [n \in Node |-> [a \in Alert |-> 0]]

\* The producing node may get its own alert in the same step.
Publish(a) ==
    /\ a \notin produced
    /\ produced' = produced \cup {a}
    /\ Hand(Producer[a], a) \/ UNCHANGED delivered

Deliver(n, a) ==
    /\ a \in produced
    /\ Hand(n, a)
    /\ UNCHANGED produced

Next == \E a \in Alert : Publish(a) \/ \E n \in Node : Deliver(n, a)

Spec == Init /\ [][Next]_<<produced, delivered>>
=============================================================================
