---------------------------- MODULE CafForwarder ----------------------------
(***************************************************************************)
(* Dissemination of alerts by vehicles and road-side units (RSUs):         *)
(* Forwarder::OnIncomingAlert and its handlers                             *)
(* (src/src/ndnSIM/NFD/daemon/fw/caf-forwarder.cpp), the two Wi-Fi         *)
(* broadcast groups, the wired links between RSUs, and the state of        *)
(* caf::Context they work on.                                              *)
(*                                                                         *)
(* An action is one event of the simulator, which runs to its end before   *)
(* the next one starts: a packet leaves the medium at a node, a deferred   *)
(* transmission fires, an application hands over an alert.  Events of      *)
(* different nodes, and the delays of deferred transmissions, may come in  *)
(* any order here; the code orders the delays by distance.                 *)
(***************************************************************************)
EXTENDS Integers, FiniteSets, CafContext, CafRouting

CONSTANTS
    Vehicle, Rsu,       \* node identifiers; those of RSUs are numbers
    Alert,              \* alerts, each with a name of its own
    NeighborAlert,      \* those whose ZoR is NeighborZoR
    ZoRLess,            \* those whose name holds no ZoR component
    Producer,           \* the node whose application sends an alert
    Position,           \* points of the plane
    InitialPosition,    \* where each node starts
    Mobile,             \* the vehicles that move
    TxRadius,           \* transmission radius of every node
    ZoRContains(_, _),         \* ZoRContains(a, p): the ZoR of a contains p
    DistanceToBoundary(_, _),  \* distance of p to the ZoR of a, p outside it
    CoveredBy(_, _),           \* CoveredBy(a, p): a radio at p reaches the ZoR
    DistanceFromPoint(_, _),   \* distance of two points
    RoutingInfo,        \* the graph of the backbone
    StoreSize,          \* AlertStore's m_maxSize
    HelloEnabled,       \* RSUs send hello messages
    Lossy,              \* Wi-Fi may lose a packet at a receiver
    MaxHandled,         \* bound: times one node takes one alert for a new one
    NoTag,              \* "the packet has no DestinationNodesTag"
    NoPosition          \* the default-constructed position RSUs store

Node == Vehicle \cup Rsu

NodeType(n) == IF n \in Vehicle THEN "VEHICLE" ELSE "RSU"

ASSUME ForwarderAssumption ==
    /\ Vehicle \cap Rsu = {}
    /\ Rsu \subseteq Nat
    /\ NoNode \notin Rsu
    /\ NeighborAlert \subseteq Alert
    /\ ZoRLess \subseteq Alert \ NeighborAlert
    /\ Producer \in [Alert -> Node]
    /\ InitialPosition \in [Node -> Position]
    /\ Mobile \subseteq Vehicle
    /\ DOMAIN RoutingInfo \subseteq Rsu
    /\ \A r \in DOMAIN RoutingInfo :
          LET faces == RoutingInfo[r]
          IN  /\ faces \in Seq([remoteNodeId : DOMAIN RoutingInfo, linkCost : Nat])
              /\ \A i, j \in DOMAIN faces :
                    faces[i].remoteNodeId = faces[j].remoteNodeId => i = j
    /\ StoreSize \in Nat \ {0}
    /\ MaxHandled \in Nat \ {0}
    /\ HelloEnabled \in BOOLEAN
    /\ Lossy \in BOOLEAN
    /\ NoEvent \notin Nat
    /\ \A S \in SUBSET (Rsu \cup {NoNode}) : NoTag # S

\* The alerts whose ZoR is an area.
GeoAlert == Alert \ (NeighborAlert \cup ZoRLess)

VARIABLES
    pos,           \* where each node is
    store,         \* AlertStore of each node
    registry,      \* DeferredRegistry of each node
    pending,       \* deferred transmissions still in the simulator's queue
    rsuAvailable,  \* Context::m_isRsuAvailable of each vehicle
    air,           \* packets on their way, one copy for each receiver
    produced,      \* alerts their application has sent
    handled,       \* how often a node took an alert for a new one; this
                   \* count also identifies the event it schedules then
    sent,          \* Wi-Fi transmissions of each alert with an area
    relevant       \* times OnIncomingAlert returned true

vars == <<pos, store, registry, pending, rsuAvailable, air, produced,
          handled, sent, relevant>>

contextVars == <<store, registry, pending>>
historyVars == <<handled, sent, relevant>>

-----------------------------------------------------------------------------
(***************************************************************************)
(* Faces and the medium.                                                   *)
(***************************************************************************)
Group == {"V2V", "V2I"}

\* A vehicle has a face in both groups, an RSU in V2I only.
HasFace(n, group) == n \in Vehicle \/ group = "V2I"

Filter(group) == IF group = "V2V" THEN "ALLOW_SAME" ELSE "ALLOW_DIFFERENT"

DropPacket(filter, own, other) ==
    \/ filter = "ALLOW_SAME" /\ own # other
    \/ filter = "ALLOW_DIFFERENT" /\ own = other

\* The nodes whose face in the group passes on a packet n broadcasts in it.
Hearers(n, group) ==
    {m \in Node \ {n} :
        /\ HasFace(m, group)
        /\ ~DropPacket(Filter(group), NodeType(m), NodeType(n))
        /\ DistanceFromPoint(pos[n], pos[m]) <= TxRadius}

\* Mutant of Packet: an RSU does not stamp its position.
PacketUnstamped(n, to, via, a, tag) ==
    [to |-> to, via |-> via, alert |-> a, dst |-> tag,
     senderType |-> NodeType(n),
     senderPos |-> IF n \in Vehicle THEN pos[n] ELSE NoPosition]

\* OnOutgoingAlert stamps the sender's type and its position of this moment.
Packet(n, to, via, a, tag) ==
    [to |-> to, via |-> via, alert |-> a, dst |-> tag,
     senderType |-> NodeType(n), senderPos |-> pos[n]]

Broadcast(n, group, a, tag) == {Packet(n, m, group, a, tag) : m \in Hearers(n, group)}

BackbonePeers(r) == Neighbors(RoutingInfo, r)

-----------------------------------------------------------------------------
(***************************************************************************)
(* What a node adds to its history when it takes an alert for a new one.   *)
(***************************************************************************)
CountHandled(n, a) == handled' = [handled EXCEPT ![n][a] = @ + 1]

CountSent(n, a, times) == sent' = [sent EXCEPT ![n][a] = @ + times]

CountRelevant(n, a, answer) ==
    relevant' = IF answer THEN [relevant EXCEPT ![n][a] = @ + 1] ELSE relevant

Remember(n, entry) ==
    store' = [store EXCEPT ![n] = InsertOrUpdate(@, entry, StoreSize)]

-----------------------------------------------------------------------------
(***************************************************************************)
(* RSUs: AlertRsuHandler.                                                  *)
(***************************************************************************)

\* The RSUs stand still and the graph is fixed, so both answers are constants.
Destinations ==
    [r \in Rsu |-> [a \in GeoAlert |->
        ComputeDestinationNodes(RoutingInfo,
            {s \in Rsu : CoveredBy(a, InitialPosition[s])},
            [s \in Rsu |-> DistanceToBoundary(a, InitialPosition[s])], r)]]

Destination == UNION {Destinations[r][a] : r \in Rsu, a \in GeoAlert}

Routes == [r \in Rsu |-> [D \in SUBSET Destination |-> Mira(RoutingInfo, D, r)]]

\* The destinations r is responsible for: those of the tag, or its own answer.
Responsible(r, a, tag) == IF tag = NoTag THEN Destinations[r][a] ELSE tag

\* Mutant of BroadcastHere: vehicles get the tag as well.
BroadcastTagged(r, a, destinations) ==
    IF r \in destinations THEN Broadcast(r, "V2I", a, destinations) ELSE {}

\* A destination broadcasts to the vehicles, without the tag.
BroadcastHere(r, a, destinations) ==
    IF r \in destinations THEN Broadcast(r, "V2I", a, NoTag) ELSE {}

\* Mutant of Multicast: an RSU that broadcasts does not forward as well.
MulticastUnlessHere(r, a, destinations) ==
    IF r \in destinations THEN {}
    ELSE {Packet(r, e.via, "P2P", a, e.dst) : e \in Routes[r][destinations]}

\* Packets to the next hops, each with its share of the other destinations.
Multicast(r, a, destinations) ==
    {Packet(r, e.via, "P2P", a, e.dst) : e \in Routes[r][destinations \ {r}]}

RsuHandler(r, a, tag, arrived) ==
    LET dst == Responsible(r, a, tag)
    IN  /\ handled[r][a] < MaxHandled
        /\ ~IsDuplicate(store[r], a)
        /\ Remember(r, StoreEntry(a, "NONE", NoPosition))
        /\ air' = (air \ arrived) \cup BroadcastHere(r, a, dst) \cup Multicast(r, a, dst)
        /\ CountHandled(r, a)
        /\ CountSent(r, a, IF r \in dst THEN 1 ELSE 0)
        /\ CountRelevant(r, a, ZoRContains(a, pos[r]))
        /\ UNCHANGED <<pos, registry, pending, rsuAvailable>>

RsuReceive(r, f) ==
    /\ f.to = r
    /\ f.alert \in GeoAlert
    /\ RsuHandler(r, f.alert, f.dst, {f})
    /\ UNCHANGED produced

RsuDropDuplicate(r, f) ==
    /\ f.to = r
    /\ f.alert \in GeoAlert
    /\ IsDuplicate(store[r], f.alert)
    /\ air' = air \ {f}
    /\ UNCHANGED <<pos, contextVars, rsuAvailable, produced, historyVars>>

-----------------------------------------------------------------------------
(***************************************************************************)
(* Vehicles: AlertVehicleHandler for a packet from another node.           *)
(***************************************************************************)

\* Mutants of SenderCloser: without its test of the own position, and of distance.
SenderCloserAnywhere(v, f) ==
    \/ ZoRContains(f.alert, f.senderPos)
    \/ DistanceToBoundary(f.alert, f.senderPos) < DistanceToBoundary(f.alert, pos[v])

SenderCloserInside(v, f) ==
    /\ ~ZoRContains(f.alert, pos[v])
    /\ ZoRContains(f.alert, f.senderPos)

\* Seen from outside the ZoR, the sender is inside it or closer to it.
SenderCloser(v, f) ==
    /\ ~ZoRContains(f.alert, pos[v])
    /\ \/ ZoRContains(f.alert, f.senderPos)
       \/ DistanceToBoundary(f.alert, f.senderPos) < DistanceToBoundary(f.alert, pos[v])

\* Inside the ZoR, the sender is farther from the first sender than v is.
SenderFarther(v, f) ==
    /\ ZoRContains(f.alert, pos[v])
    /\ LET origin == Get(store[v], f.alert).senderPos
       IN  DistanceFromPoint(origin, pos[v]) < DistanceFromPoint(origin, f.senderPos)

Suppresses(v, f) ==
    /\ IsRegistered(registry[v], f.alert)
    /\ SenderCloser(v, f) \/ SenderFarther(v, f)

\* Mutant of CancelDeferred: the entry goes and the event stays.
CancelEntryOnly(v, f) ==
    /\ f.to = v
    /\ f.alert \in GeoAlert
    /\ IsDuplicate(store[v], f.alert)
    /\ Suppresses(v, f)
    /\ registry' = [registry EXCEPT ![v] = Erase(@, f.alert)]
    /\ air' = air \ {f}
    /\ UNCHANGED <<pos, store, pending, rsuAvailable, produced, historyVars>>

\* A copy overheard while the own transmission is pending makes it needless.
CancelDeferred(v, f) ==
    /\ f.to = v
    /\ f.alert \in GeoAlert
    /\ IsDuplicate(store[v], f.alert)
    /\ Suppresses(v, f)
    /\ pending' = [pending EXCEPT ![v] =
           {e \in @ : e.alert # f.alert \/ e.id # registry[v][f.alert]}]
    /\ registry' = [registry EXCEPT ![v] = Erase(@, f.alert)]
    /\ air' = air \ {f}
    /\ UNCHANGED <<pos, store, rsuAvailable, produced, historyVars>>

VehicleDropDuplicate(v, f) ==
    /\ f.to = v
    /\ f.alert \in GeoAlert
    /\ IsDuplicate(store[v], f.alert)
    /\ ~Suppresses(v, f)
    /\ air' = air \ {f}
    /\ UNCHANGED <<pos, contextVars, rsuAvailable, produced, historyVars>>

\* Mutant of TakeNew: what is no longer pending counts as new.
TakeUnlessPending(v, f) ==
    /\ f.to = v
    /\ f.alert \in GeoAlert
    /\ handled[v][f.alert] < MaxHandled
    /\ ~IsRegistered(registry[v], f.alert)
    /\ Remember(v, StoreEntry(f.alert, f.senderType, f.senderPos))
    /\ CountHandled(v, f.alert)
    /\ air' = air \ {f}

\* The store remembers the alert even when it is not forwarded.
TakeNew(v, f) ==
    /\ f.to = v
    /\ f.alert \in GeoAlert
    /\ handled[v][f.alert] < MaxHandled
    /\ ~IsDuplicate(store[v], f.alert)
    /\ Remember(v, StoreEntry(f.alert, f.senderType, f.senderPos))
    /\ CountHandled(v, f.alert)
    /\ air' = air \ {f}

DropMovingAway(v, f) ==
    /\ TakeNew(v, f)
    /\ SenderCloser(v, f)
    /\ UNCHANGED <<pos, registry, pending, rsuAvailable, produced, sent, relevant>>

\* The group, and with it the tag, are chosen when the event is scheduled.
Deferred(v, f) ==
    LET toRsu == f.via # "V2I" /\ f.senderType # "RSU" /\ rsuAvailable[v]
    IN  [alert |-> f.alert,
         id    |-> handled[v][f.alert] + 1,
         via   |-> IF toRsu THEN "V2I" ELSE "V2V",
         dst   |-> IF toRsu THEN NoTag ELSE f.dst]

Defer(v, f) ==
    LET event == Deferred(v, f)
    IN  /\ TakeNew(v, f)
        /\ ~SenderCloser(v, f)
        /\ pending' = [pending EXCEPT ![v] = @ \cup {event}]
        /\ registry' = [registry EXCEPT ![v] = Register(@, f.alert, event.id)]
        /\ CountRelevant(v, f.alert, ZoRContains(f.alert, pos[v]))
        /\ UNCHANGED <<pos, rsuAvailable, produced, sent>>

\* DeferredOutgoingAlert: whatever is registered for the alert goes first.
Fire(v, e) ==
    /\ e \in pending[v]
    /\ registry' = [registry EXCEPT ![v] = Erase(@, e.alert)]
    /\ pending' = [pending EXCEPT ![v] = @ \ {e}]
    /\ air' = air \cup Broadcast(v, e.via, e.alert, e.dst)
    /\ CountSent(v, e.alert, 1)
    /\ UNCHANGED <<pos, store, rsuAvailable, produced, handled, relevant>>

-----------------------------------------------------------------------------
(***************************************************************************)
(* Alerts from a local application, and those without an area.             *)
(***************************************************************************)

\* Mutant of ProduceOnVehicle: the RSU and the vehicles are both told.
ProduceOnBothFaces(v, a) ==
    LET groups == IF rsuAvailable[v] THEN Group ELSE {"V2V"}
    IN  /\ handled[v][a] < MaxHandled
        /\ air' = air \cup UNION {Broadcast(v, group, a, NoTag) : group \in groups}
        /\ Remember(v, StoreEntry(a, "VEHICLE", pos[v]))
        /\ CountHandled(v, a)
        /\ CountSent(v, a, Cardinality(groups))
        /\ CountRelevant(v, a, ZoRContains(a, pos[v]))
        /\ UNCHANGED <<pos, registry, pending, rsuAvailable>>

\* A producing vehicle transmits at once, to the RSU if it believes in one.
ProduceOnVehicle(v, a) ==
    LET group == IF rsuAvailable[v] THEN "V2I" ELSE "V2V"
    IN  /\ handled[v][a] < MaxHandled
        /\ air' = air \cup Broadcast(v, group, a, NoTag)
        /\ Remember(v, StoreEntry(a, "VEHICLE", pos[v]))
        /\ CountHandled(v, a)
        /\ CountSent(v, a, 1)
        /\ CountRelevant(v, a, ZoRContains(a, pos[v]))
        /\ UNCHANGED <<pos, registry, pending, rsuAvailable>>

\* An RSU treats its own application like any other sender.
ProduceOnRsu(r, a) == RsuHandler(r, a, NoTag, {})

\* NeighborZoR: one hop on every face but the application's.
ProduceForNeighbors(n, a) ==
    /\ air' = air \cup (UNION {Broadcast(n, g, a, NoTag) : g \in {h \in Group : HasFace(n, h)}})
                  \cup {Packet(n, m, "P2P", a, NoTag) : m \in BackbonePeers(n)}
    /\ UNCHANGED <<pos, contextVars, rsuAvailable, historyVars>>

\* Without a ZoR the alert stays on the node.
ProduceLocally(n, a) ==
    /\ CountRelevant(n, a, TRUE)
    /\ UNCHANGED <<pos, contextVars, rsuAvailable, air, handled, sent>>

Produce(a) ==
    LET n == Producer[a]
    IN  /\ a \notin produced
        /\ produced' = produced \cup {a}
        /\ \/ a \in GeoAlert /\ n \in Vehicle /\ ProduceOnVehicle(n, a)
           \/ a \in GeoAlert /\ n \in Rsu /\ ProduceOnRsu(n, a)
           \/ a \in NeighborAlert /\ ProduceForNeighbors(n, a)
           \/ a \in ZoRLess /\ ProduceLocally(n, a)

\* From a neighbour: for the applications of this node only.
ReceiveFromNeighbor(n, f) ==
    /\ f.to = n
    /\ f.alert \in NeighborAlert
    /\ air' = air \ {f}
    /\ CountRelevant(n, f.alert, TRUE)
    /\ UNCHANGED <<pos, contextVars, rsuAvailable, produced, handled, sent>>

-----------------------------------------------------------------------------
(***************************************************************************)
(* The environment: RSU hello messages and their absence                   *)
(* (src/src/ndnSIM/apps/hello-consumer.cpp), movement, packet loss.        *)
(***************************************************************************)
HelloHeard(v) ==
    /\ HelloEnabled
    /\ \E r \in Rsu : v \in Hearers(r, "V2I")
    /\ rsuAvailable' = [rsuAvailable EXCEPT ![v] = TRUE]
    /\ UNCHANGED <<pos, contextVars, air, produced, historyVars>>

HelloTimeout(v) ==
    /\ HelloEnabled
    /\ rsuAvailable' = [rsuAvailable EXCEPT ![v] = FALSE]
    /\ UNCHANGED <<pos, contextVars, air, produced, historyVars>>

Move(v) ==
    /\ v \in Mobile
    /\ \E p \in Position : pos' = [pos EXCEPT ![v] = p]
    /\ UNCHANGED <<contextVars, rsuAvailable, air, produced, historyVars>>

Lose(f) ==
    /\ Lossy
    /\ f.via \in Group
    /\ air' = air \ {f}
    /\ UNCHANGED <<pos, contextVars, rsuAvailable, produced, historyVars>>

-----------------------------------------------------------------------------
Init ==
    /\ pos = InitialPosition
    /\ store = [n \in Node |-> <<>>]
    /\ registry = [n \in Node |-> [a \in Alert |-> NoEvent]]
    /\ pending = [n \in Node |-> {}]
    /\ rsuAvailable = [v \in Vehicle |-> FALSE]
    /\ air = {}
    /\ produced = {}
    /\ handled = [n \in Node |-> [a \in Alert |-> 0]]
    /\ sent = [n \in Node |-> [a \in Alert |-> 0]]
    /\ relevant = [n \in Node |-> [a \in Alert |-> 0]]

VehicleReceive(v, f) ==
    \/ CancelDeferred(v, f)
    \/ VehicleDropDuplicate(v, f)
    \/ DropMovingAway(v, f)
    \/ Defer(v, f)
    \/ ReceiveFromNeighbor(v, f)

RsuReceives(r, f) ==
    \/ RsuReceive(r, f)
    \/ RsuDropDuplicate(r, f)
    \/ ReceiveFromNeighbor(r, f)

Next ==
    \/ \E a \in Alert : Produce(a)
    \/ \E v \in Vehicle : \E f \in air : VehicleReceive(v, f)
    \/ \E r \in Rsu : \E f \in air : RsuReceives(r, f)
    \/ \E v \in Vehicle : \E e \in pending[v] : Fire(v, e)
    \/ \E v \in Vehicle : HelloHeard(v) \/ HelloTimeout(v) \/ Move(v)
    \/ \E f \in air : Lose(f)

Spec == Init /\ [][Next]_vars

(***************************************************************************)
(* The simulator runs every event it holds: alerts are sent, packets that  *)
(* are not lost arrive, deferred transmissions fire.  Nothing is assumed   *)
(* of hello messages and movement.  For RSUs weak fairness is written out, *)
(* with "a packet is at hand" for ENABLED: TLC would run Mira to find out. *)
(***************************************************************************)
PacketAt(r) ==
    \E f \in air :
        /\ f.to = r
        /\ \/ f.alert \in NeighborAlert
           \/ IsDuplicate(store[r], f.alert)
           \/ handled[r][f.alert] < MaxHandled

Fairness ==
    /\ \A a \in Alert : Producer[a] \in Vehicle => WF_vars(Produce(a))
    /\ \A v \in Vehicle : WF_vars(\E f \in air : VehicleReceive(v, f))
    /\ \A r \in Rsu : []<>~PacketAt(r) \/ []<><<\E f \in air : RsuReceives(r, f)>>_vars
    /\ \A v \in Vehicle : WF_vars(\E e \in pending[v] : Fire(v, e))

FairSpec == Spec /\ Fairness
-----------------------------------------------------------------------------
(***************************************************************************)
(* Properties.                                                             *)
(***************************************************************************)
TagType == {NoTag} \cup SUBSET Destination

EventType == [alert : GeoAlert, id : Nat \ {0}, via : Group, dst : TagType]

PacketType ==
    [to : Node, via : Group \cup {"P2P"}, alert : Alert \ ZoRLess,
     dst : TagType,
     senderType : {"VEHICLE", "RSU"}, senderPos : Position]

(* Type invariant. *)
TypeOK ==
    /\ pos \in [Node -> Position]
    /\ store \in [Node -> Seq([alert : GeoAlert, senderType : {"VEHICLE", "RSU", "NONE"},
                               senderPos : Position \cup {NoPosition}])]
    /\ registry \in [Node -> [Alert -> Nat \cup {NoEvent}]]
    /\ pending \in [Node -> SUBSET EventType]
    /\ rsuAvailable \in [Vehicle -> BOOLEAN]
    /\ air \subseteq PacketType
    /\ produced \subseteq Alert
    /\ handled \in [Node -> [Alert -> Nat]]
    /\ sent \in [Node -> [Alert -> Nat]]
    /\ relevant \in [Node -> [Alert -> Nat]]

\* No node ever has to evict: there are no more alerts than places.
NoOverflow == IsFiniteSet(Alert) /\ Cardinality(Alert) <= StoreSize

(* A registered alert always has a live event behind it, so that IsRegistered
   never keeps a node waiting for a transmission that will not happen.  This
   holds even when the store evicts and Register overwrites an entry. *)
RegisteredIsPending ==
    \A v \in Vehicle, a \in Alert :
        IsRegistered(registry[v], a) =>
            \E e \in pending[v] : e.alert = a /\ e.id = registry[v][a]

(* Without eviction the converse holds: every scheduled transmission is the
   registered one, so that a copy overheard in time can still cancel it. *)
PendingIsRegistered ==
    \A v \in Vehicle : \A e \in pending[v] : registry[v][e.alert] = e.id

(* Without eviction no node broadcasts an alert twice, in whatever order
   copies, timers and hello messages arrive: no broadcast storm. *)
TransmitsAtMostOnce == \A n \in Node, a \in GeoAlert : sent[n][a] <= 1

(* Destination tags belong to the backbone: no alert on the air carries the
   responsibility of an RSU, which another RSU would take for its own. *)
UntaggedOnAir == \A f \in air : f.via \in Group => f.dst = NoTag

(* While nobody moves, a vehicle outside the ZoR never transmits an alert it
   got from a sender closer to the ZoR ("prevent alert from moving away from
   the ZoR"). *)
NeverMovesAway ==
    \A v \in Vehicle : \A e \in pending[v] :
        LET heardFrom == Get(store[v], e.alert).senderPos
        IN  ~ZoRContains(e.alert, pos[v]) =>
                /\ ~ZoRContains(e.alert, heardFrom)
                /\ DistanceToBoundary(e.alert, pos[v]) <= DistanceToBoundary(e.alert, heardFrom)

(* While nobody moves, whoever remembers an alert and is inside its ZoR has
   passed it to its applications exactly once, and nobody else has at all:
   marking an alert as seen never costs a node its delivery. *)
SeenInsideIsDelivered ==
    \A n \in Node, a \in GeoAlert :
        relevant[n][a] =
            IF IsDuplicate(store[n], a) /\ ZoRContains(a, pos[n]) THEN 1 ELSE 0

(* Once an RSU has taken an alert, every RSU that ComputeDestinationNodes
   names there broadcasts it, although RSUs on the way drop duplicates
   together with the destinations those were responsible for. *)
DestinationsBroadcast ==
    \A a \in GeoAlert, r \in Rsu :
        (handled[r][a] > 0) ~> (\A d \in Destinations[r][a] : sent[d][a] > 0)

(* The alert reaches every vehicle inside its ZoR. *)
Coverage ==
    \A a \in GeoAlert, v \in Vehicle :
        (a \in produced /\ ZoRContains(a, pos[v])) ~> relevant[v][a] > 0

(* What the forwarder promises to applications. *)
Promise == INSTANCE Geocast WITH delivered <- relevant
KeepsPromise == Promise!Spec
=============================================================================
