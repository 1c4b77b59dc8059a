------------------------- MODULE CafForwarderProofs -------------------------
(***************************************************************************)
(* What holds of CafForwarder.  In this order: for every network, every    *)
(* zone and every store size, its type invariant and the agreement of the  *)
(* DeferredRegistry with the simulator's queue; where the                  *)
(* DestinationNodesTag stays; what holds as long as no store overflows;    *)
(* what holds if, besides, nobody moves; and that CafForwarder implements  *)
(* Geocast.                                                                *)
(***************************************************************************)
EXTENDS CafForwarder, SequenceTheorems, FiniteSetTheorems, TLAPS

EntryType == [alert : GeoAlert, senderType : {"VEHICLE", "RSU", "NONE"},
              senderPos : Position \cup {NoPosition}]

-----------------------------------------------------------------------------
(***************************************************************************)
(* The AlertStore.                                                         *)
(***************************************************************************)

\* The list position of a stored alert is one that holds the alert.
LEMMA IndexOfStored ==
    ASSUME NEW s, NEW a, IsDuplicate(s, a)
    PROVE  IndexOf(s, a) \in DOMAIN s /\ s[IndexOf(s, a)].alert = a
BY DEF IsDuplicate, StoredAlerts, IndexOf

\* InsertOrUpdate keeps a list of entries a list of entries.
LEMMA InsertOrUpdateType ==
    ASSUME NEW E, NEW s \in Seq(E), NEW entry \in E, NEW size \in Nat
    PROVE  InsertOrUpdate(s, entry, size) \in Seq(E)
<1>1. CASE IsDuplicate(s, entry.alert)
  <2> DEFINE i == IndexOf(s, entry.alert)
  <2>1. i \in 1 .. Len(s)
    BY <1>1, IndexOfStored
  <2>2. <<s[i]>> \in Seq(E)
    BY <2>1
  <2>3. SubSeq(s, 1, i - 1) \in Seq(E) /\ SubSeq(s, i + 1, Len(s)) \in Seq(E)
    BY <2>1
  <2>4. MoveToFront(s, i) \in Seq(E)
    BY <2>2, <2>3 DEF MoveToFront
  <2> QED BY <1>1, <2>4 DEF InsertOrUpdate
<1>2. CASE ~IsDuplicate(s, entry.alert)
  <2>1. <<entry>> \o s \in Seq(E)
    OBVIOUS
  <2>2. EvictOldest(<<entry>> \o s) \in Seq(E)
    BY <2>1 DEF EvictOldest
  <2> QED BY <1>2, <2>1, <2>2 DEF InsertOrUpdate
<1> QED BY <1>1, <1>2

-----------------------------------------------------------------------------
(***************************************************************************)
(* Packets.                                                                *)
(***************************************************************************)

\* What a node sends on a Wi-Fi group is made of packets.
LEMMA BroadcastType ==
    ASSUME TypeOK, NEW n \in Node, NEW g \in Group, NEW a \in Alert \ ZoRLess,
           NEW tag \in TagType
    PROVE  Broadcast(n, g, a, tag) \subseteq PacketType
BY DEF TypeOK, Broadcast, Hearers, Packet, PacketType, NodeType

\* Mira names neighbours in the graph and passes on only what it was given.
LEMMA MiraEntries ==
    ASSUME NEW D, NEW r, NEW e \in Mira(RoutingInfo, D, r)
    PROVE  e.via \in Rsu /\ e.dst \subseteq D
<1> DEFINE parent == Dijkstra(RoutingInfo, r).parent
           served == D \cap DOMAIN parent
           hopOf  == [d \in served |-> FirstHop(parent, r, d)]
           hops   == {hopOf[d] : d \in served} \cap DOMAIN RoutingInfo \cap Neighbors(RoutingInfo, r)
<1>1. Mira(RoutingInfo, D, r) = {[via |-> h, dst |-> {d \in served : hopOf[d] = h}] : h \in hops}
  BY DEF Mira
<1> HIDE DEF hopOf
<1>2. PICK h \in hops : e = [via |-> h, dst |-> {d \in served : hopOf[d] = h}]
  BY <1>1
<1> QED BY <1>2, ForwarderAssumption

\* The destinations an RSU is responsible for are known ones.
LEMMA ResponsibleType ==
    ASSUME NEW r \in Rsu, NEW a \in GeoAlert, NEW tag \in TagType
    PROVE  Responsible(r, a, tag) \in SUBSET Destination
<1>1. CASE tag = NoTag
  <2>1. \A d \in Destinations[r][a] : d \in Destination
    BY DEF Destination
  <2> QED BY <1>1, <2>1 DEF Responsible
<1>2. CASE tag # NoTag
  BY <1>2 DEF Responsible, TagType
<1> QED BY <1>1, <1>2

\* What an RSU sends to its next hops is made of packets.
LEMMA MulticastType ==
    ASSUME TypeOK, NEW r \in Rsu, NEW a \in GeoAlert, NEW D \in SUBSET Destination
    PROVE  Multicast(r, a, D) \subseteq PacketType
<1> DEFINE others == D \ {r}
<1>1. Routes[r][others] = Mira(RoutingInfo, others, r)
  BY DEF Routes
<1>2. SUFFICES ASSUME NEW e \in Mira(RoutingInfo, others, r)
               PROVE  Packet(r, e.via, "P2P", a, e.dst) \in PacketType
  BY <1>1 DEF Multicast
<1>3. e.via \in Node /\ e.dst \in TagType
  BY MiraEntries DEF Node, TagType
<1> QED BY <1>3 DEF TypeOK, Packet, PacketType, NodeType, GeoAlert, Node

\* An element of a sequence over a set is in the set.
LEMMA ElementType ==
    ASSUME NEW S, NEW s \in Seq(S), NEW i \in DOMAIN s
    PROVE  s[i] \in S
BY ElementOfSeq

\* A node's wired neighbours are nodes.
LEMMA BackbonePeersType ==
    ASSUME NEW n
    PROVE  BackbonePeers(n) \subseteq Node
<1>1. CASE n \in DOMAIN RoutingInfo
  <2>1. RoutingInfo[n] \in Seq([remoteNodeId : DOMAIN RoutingInfo, linkCost : Nat])
    BY <1>1, ForwarderAssumption
  <2>2. \A i \in DOMAIN RoutingInfo[n] : RoutingInfo[n][i].remoteNodeId \in DOMAIN RoutingInfo
    <3>1. \A i \in DOMAIN RoutingInfo[n] :
             RoutingInfo[n][i] \in [remoteNodeId : DOMAIN RoutingInfo, linkCost : Nat]
      BY <2>1, ElementType
    <3> QED BY <3>1
  <2>3. DOMAIN RoutingInfo \subseteq Node
    BY ForwarderAssumption DEF Node
  <2> QED BY <1>1, <2>2, <2>3 DEF BackbonePeers, Neighbors, Faces
<1>2. CASE n \notin DOMAIN RoutingInfo
  BY <1>2 DEF BackbonePeers, Neighbors, Faces
<1> QED BY <1>1, <1>2

-----------------------------------------------------------------------------
(***************************************************************************)
(* Type invariant: one step per action.                                    *)
(***************************************************************************)
LEMMA TypeInit == Init => TypeOK
<1>1. \A n \in Node : <<>> \in Seq(EntryType)
  OBVIOUS
<1> QED BY <1>1, ForwarderAssumption DEF Init, TypeOK, EntryType

\* A new entry keeps the stores well-typed.
LEMMA RememberType ==
    ASSUME TypeOK, NEW n \in Node, NEW entry \in EntryType, Remember(n, entry)
    PROVE  store' \in [Node -> Seq(EntryType)]
<1>1. store \in [Node -> Seq(EntryType)]
  BY DEF TypeOK, EntryType
<1>2. InsertOrUpdate(store[n], entry, StoreSize) \in Seq(EntryType)
  BY <1>1, InsertOrUpdateType, ForwarderAssumption
<1> QED BY <1>1, <1>2 DEF Remember

\* Counting keeps the counters numbers.
LEMMA AddType ==
    ASSUME NEW f \in [Node -> [Alert -> Nat]], NEW n \in Node, NEW a \in Alert, NEW k \in Nat
    PROVE  [f EXCEPT ![n][a] = @ + k] \in [Node -> [Alert -> Nat]]
<1>1. f[n][a] + k \in Nat
  OBVIOUS
<1>2. [f[n] EXCEPT ![a] = @ + k] \in [Alert -> Nat]
  BY <1>1
<1> QED BY <1>2

LEMMA CountType ==
    ASSUME TypeOK, NEW n \in Node, NEW a \in Alert
    PROVE  /\ CountHandled(n, a) => handled' \in [Node -> [Alert -> Nat]]
           /\ \A k \in Nat : CountSent(n, a, k) => sent' \in [Node -> [Alert -> Nat]]
           /\ \A answer : CountRelevant(n, a, answer) => relevant' \in [Node -> [Alert -> Nat]]
<1>1. /\ handled \in [Node -> [Alert -> Nat]]
      /\ sent \in [Node -> [Alert -> Nat]]
      /\ relevant \in [Node -> [Alert -> Nat]]
  BY DEF TypeOK
<1>2. CountHandled(n, a) => handled' \in [Node -> [Alert -> Nat]]
  BY <1>1, AddType DEF CountHandled
<1>3. ASSUME NEW k \in Nat, CountSent(n, a, k)
      PROVE  sent' \in [Node -> [Alert -> Nat]]
  BY <1>1, <1>3, AddType DEF CountSent
<1>4. ASSUME NEW answer, CountRelevant(n, a, answer)
      PROVE  relevant' \in [Node -> [Alert -> Nat]]
  <2>1. relevant' = [relevant EXCEPT ![n][a] = @ + 1] \/ relevant' = relevant
    BY <1>4 DEF CountRelevant
  <2>2. [relevant EXCEPT ![n][a] = @ + 1] \in [Node -> [Alert -> Nat]]
    BY <1>1, AddType
  <2> QED BY <1>1, <2>1, <2>2
<1> QED BY <1>2, <1>3, <1>4

\* The RSU handler, for a packet from another node or a local application.
LEMMA RsuHandlerType ==
    ASSUME TypeOK, NEW r \in Rsu, NEW a \in GeoAlert, NEW tag \in TagType, NEW arrived,
           RsuHandler(r, a, tag, arrived), produced' \subseteq Alert
    PROVE  TypeOK'
<1> DEFINE D == Responsible(r, a, tag)
<1>1. r \in Node /\ a \in Alert \ ZoRLess /\ NoTag \in TagType /\ "V2I" \in Group
  BY DEF Node, GeoAlert, TagType, Group
<1>2. Multicast(r, a, D) \subseteq PacketType
  BY ResponsibleType, MulticastType
<1>3. BroadcastHere(r, a, D) \subseteq PacketType
  BY <1>1, BroadcastType DEF BroadcastHere
<1>4. air' \subseteq PacketType
  BY <1>2, <1>3 DEF RsuHandler, TypeOK
<1>5. StoreEntry(a, "NONE", NoPosition) \in EntryType
  BY DEF StoreEntry, EntryType
<1>6. store' \in [Node -> Seq(EntryType)]
  BY <1>1, <1>5, RememberType DEF RsuHandler
<1>7. /\ handled' \in [Node -> [Alert -> Nat]]
      /\ sent' \in [Node -> [Alert -> Nat]]
      /\ relevant' \in [Node -> [Alert -> Nat]]
  <2>1. CountHandled(r, a) /\ CountRelevant(r, a, ZoRContains(a, pos[r]))
    BY DEF RsuHandler
  <2>2. \E k \in Nat : CountSent(r, a, k)
    BY DEF RsuHandler
  <2> QED BY <1>1, <2>1, <2>2, CountType
<1> QED BY <1>4, <1>6, <1>7 DEF RsuHandler, TypeOK, EntryType

\* A vehicle that takes a packet for new only adds to its store and history.
LEMMA TakeNewType ==
    ASSUME TypeOK, NEW v \in Vehicle, NEW f \in air, TakeNew(v, f)
    PROVE  /\ air' \subseteq PacketType
           /\ store' \in [Node -> Seq(EntryType)]
           /\ handled' \in [Node -> [Alert -> Nat]]
<1>1. StoreEntry(f.alert, f.senderType, f.senderPos) \in EntryType
  BY DEF TypeOK, TakeNew, PacketType, StoreEntry, EntryType
<1>2. v \in Node
  BY DEF Node
<1>3. store' \in [Node -> Seq(EntryType)]
  BY <1>1, <1>2, RememberType DEF TakeNew
<1>4. handled' \in [Node -> [Alert -> Nat]]
  BY <1>2, CountType DEF TakeNew, GeoAlert
<1> QED BY <1>3, <1>4 DEF TakeNew, TypeOK

\* Erase and Register keep a registry a registry.
LEMMA RegistryType ==
    ASSUME NEW reg \in [Alert -> Nat \cup {NoEvent}], NEW a \in Alert, NEW id \in Nat
    PROVE  /\ Erase(reg, a) \in [Alert -> Nat \cup {NoEvent}]
           /\ Register(reg, a, id) \in [Alert -> Nat \cup {NoEvent}]
BY DEF Erase, Register

LEMMA DeferType ==
    ASSUME TypeOK, NEW v \in Vehicle, NEW f \in air, Defer(v, f)
    PROVE  TypeOK'
<1> DEFINE event == Deferred(v, f)
<1>1. v \in Node /\ f \in PacketType /\ f.alert \in GeoAlert /\ f.alert \in Alert
  BY DEF Node, TypeOK, Defer, TakeNew, GeoAlert
<1>2. handled[v][f.alert] \in Nat
  BY <1>1 DEF TypeOK
<1>3. event \in EventType
  <2>1. f.dst \in TagType /\ NoTag \in TagType
    BY <1>1 DEF PacketType, TagType
  <2> QED BY <1>1, <1>2, <2>1 DEF Deferred, EventType, Group
<1>4. pending' \in [Node -> SUBSET EventType]
  BY <1>1, <1>3 DEF Defer, TypeOK
<1>5. event.id \in Nat
  BY <1>3 DEF EventType
<1>6. registry' \in [Node -> [Alert -> Nat \cup {NoEvent}]]
  BY <1>1, <1>5, RegistryType DEF Defer, TypeOK
<1>7. relevant' \in [Node -> [Alert -> Nat]]
  BY <1>1, CountType DEF Defer
<1>8. TakeNew(v, f)
  BY DEF Defer
<1> QED BY <1>4, <1>6, <1>7, <1>8, TakeNewType DEF Defer, TypeOK, EntryType

LEMMA FireType ==
    ASSUME TypeOK, NEW v \in Vehicle, NEW e \in pending[v], Fire(v, e)
    PROVE  TypeOK'
<1>1. v \in Node
  BY DEF Node
<1>2. e \in EventType
  BY <1>1 DEF TypeOK
<1>3. e.alert \in Alert \ ZoRLess /\ e.alert \in Alert /\ e.via \in Group /\ e.dst \in TagType
  BY <1>2 DEF EventType, GeoAlert
<1>4. air' \subseteq PacketType
  BY <1>1, <1>3, BroadcastType DEF Fire, TypeOK
<1>5. registry' \in [Node -> [Alert -> Nat \cup {NoEvent}]]
  BY <1>1, <1>3, RegistryType DEF Fire, TypeOK
<1>6. pending' \in [Node -> SUBSET EventType]
  BY <1>1 DEF Fire, TypeOK
<1>7. sent' \in [Node -> [Alert -> Nat]]
  BY <1>1, <1>3, CountType DEF Fire
<1> QED BY <1>4, <1>5, <1>6, <1>7 DEF Fire, TypeOK

LEMMA CancelDeferredType ==
    ASSUME TypeOK, NEW v \in Vehicle, NEW f \in air, CancelDeferred(v, f)
    PROVE  TypeOK'
<1>1. v \in Node /\ f.alert \in Alert
  BY DEF Node, CancelDeferred, GeoAlert
<1>2. registry' \in [Node -> [Alert -> Nat \cup {NoEvent}]]
  BY <1>1, RegistryType DEF CancelDeferred, TypeOK
<1>3. pending' \in [Node -> SUBSET EventType]
  BY <1>1 DEF CancelDeferred, TypeOK
<1> QED BY <1>2, <1>3 DEF CancelDeferred, TypeOK, contextVars, historyVars

LEMMA ProduceType ==
    ASSUME TypeOK, NEW a \in Alert, Produce(a)
    PROVE  TypeOK'
<1> DEFINE n == Producer[a]
<1>1. n \in Node /\ produced' \subseteq Alert
  BY ForwarderAssumption DEF TypeOK, Produce
<1>2. NoTag \in TagType
  BY DEF TagType
<1>3. CASE a \in GeoAlert /\ n \in Vehicle /\ ProduceOnVehicle(n, a)
  <2>1. a \in Alert \ ZoRLess
    BY <1>3 DEF GeoAlert
  <2>2. \A g \in Group : Broadcast(n, g, a, NoTag) \subseteq PacketType
    BY <1>1, <1>2, <2>1, BroadcastType
  <2>3. air' \subseteq PacketType
    BY <1>3, <2>2 DEF ProduceOnVehicle, TypeOK, Group
  <2>4. StoreEntry(a, "VEHICLE", pos[n]) \in EntryType
    BY <1>1, <1>3 DEF TypeOK, StoreEntry, EntryType
  <2>5. store' \in [Node -> Seq(EntryType)]
    BY <1>1, <1>3, <2>4, RememberType DEF ProduceOnVehicle
  <2>6. /\ handled' \in [Node -> [Alert -> Nat]]
        /\ sent' \in [Node -> [Alert -> Nat]]
        /\ relevant' \in [Node -> [Alert -> Nat]]
    BY <1>1, <1>3, CountType DEF ProduceOnVehicle
  <2> QED BY <1>1, <1>3, <2>3, <2>5, <2>6 DEF ProduceOnVehicle, TypeOK, EntryType
<1>4. CASE a \in GeoAlert /\ n \in Rsu /\ ProduceOnRsu(n, a)
  BY <1>1, <1>2, <1>4, RsuHandlerType DEF ProduceOnRsu
<1>5. CASE a \in NeighborAlert /\ ProduceForNeighbors(n, a)
  <2>1. a \in Alert \ ZoRLess
    BY <1>5, ForwarderAssumption
  <2>2. \A g \in Group : Broadcast(n, g, a, NoTag) \subseteq PacketType
    BY <1>1, <1>2, <2>1, BroadcastType
  <2>3. \A m \in BackbonePeers(n) : Packet(n, m, "P2P", a, NoTag) \in PacketType
    BY <1>1, <1>2, <2>1, BackbonePeersType DEF TypeOK, Packet, PacketType, NodeType
  <2>4. air' \subseteq PacketType
    <3> DEFINE wireless == UNION {Broadcast(n, g, a, NoTag) : g \in {h \in Group : HasFace(n, h)}}
               wired    == {Packet(n, m, "P2P", a, NoTag) : m \in BackbonePeers(n)}
    <3>1. wireless \subseteq PacketType
      BY <2>2
    <3>2. wired \subseteq PacketType
      BY <2>3
    <3>3. air' = air \cup wireless \cup wired
      BY <1>5 DEF ProduceForNeighbors
    <3> HIDE DEF wireless, wired
    <3> QED BY <3>1, <3>2, <3>3 DEF TypeOK
  <2> QED BY <1>1, <1>5, <2>4 DEF ProduceForNeighbors, TypeOK, contextVars, historyVars
<1>6. CASE a \in ZoRLess /\ ProduceLocally(n, a)
  <2>1. relevant' \in [Node -> [Alert -> Nat]]
    BY <1>1, <1>6, CountType DEF ProduceLocally
  <2> QED BY <1>1, <1>6, <2>1 DEF ProduceLocally, TypeOK, contextVars
<1> QED BY <1>3, <1>4, <1>5, <1>6 DEF Produce

LEMMA ReceiveFromNeighborType ==
    ASSUME TypeOK, NEW n \in Node, NEW f \in air, ReceiveFromNeighbor(n, f)
    PROVE  TypeOK'
<1>1. f.alert \in Alert
  BY ForwarderAssumption DEF ReceiveFromNeighbor
<1>2. relevant' \in [Node -> [Alert -> Nat]]
  BY <1>1, CountType DEF ReceiveFromNeighbor
<1> QED BY <1>2 DEF ReceiveFromNeighbor, TypeOK, contextVars

LEMMA TypeStep == TypeOK /\ [Next]_vars => TypeOK'
<1> SUFFICES ASSUME TypeOK, [Next]_vars PROVE TypeOK'
  OBVIOUS
<1>1. CASE \E a \in Alert : Produce(a)
  BY <1>1, ProduceType
<1>2. CASE \E v \in Vehicle : \E f \in air : VehicleReceive(v, f)
  <2>1. PICK v \in Vehicle, f \in air : VehicleReceive(v, f)
    BY <1>2
  <2>2. CASE VehicleDropDuplicate(v, f)
    BY <2>2 DEF VehicleDropDuplicate, TypeOK, contextVars, historyVars
  <2>3. CASE DropMovingAway(v, f)
    BY <2>3, TakeNewType DEF DropMovingAway, TypeOK, EntryType
  <2>4. CASE ReceiveFromNeighbor(v, f)
    BY <2>4, ReceiveFromNeighborType DEF Node
  <2> QED BY <2>1, <2>2, <2>3, <2>4, CancelDeferredType, DeferType DEF VehicleReceive
<1>3. CASE \E r \in Rsu : \E f \in air : RsuReceives(r, f)
  <2>1. PICK r \in Rsu, f \in air : RsuReceives(r, f)
    BY <1>3
  <2>2. CASE RsuReceive(r, f)
    <3>1. f.alert \in GeoAlert /\ f.dst \in TagType /\ produced' \subseteq Alert
      BY <2>1, <2>2 DEF RsuReceive, TypeOK, PacketType
    <3> QED BY <2>2, <3>1, RsuHandlerType DEF RsuReceive
  <2>3. CASE RsuDropDuplicate(r, f)
    BY <2>3 DEF RsuDropDuplicate, TypeOK, contextVars, historyVars
  <2>4. CASE ReceiveFromNeighbor(r, f)
    BY <2>4, ReceiveFromNeighborType DEF Node
  <2> QED BY <2>1, <2>2, <2>3, <2>4 DEF RsuReceives
<1>4. CASE \E v \in Vehicle : \E e \in pending[v] : Fire(v, e)
  BY <1>4, FireType
<1>5. CASE \E v \in Vehicle : HelloHeard(v) \/ HelloTimeout(v) \/ Move(v)
  BY <1>5 DEF HelloHeard, HelloTimeout, Move, TypeOK, contextVars, historyVars
<1>6. CASE \E f \in air : Lose(f)
  BY <1>6 DEF Lose, TypeOK, contextVars, historyVars
<1>7. CASE UNCHANGED vars
  BY <1>7 DEF vars, TypeOK
<1> QED BY <1>1, <1>2, <1>3, <1>4, <1>5, <1>6, <1>7 DEF Next

(* Type correctness: for every network, zone and behaviour, packets, events,
   registries and stores stay well-formed; in particular the tags RSUs pass on
   name only destinations that ComputeDestinationNodes has named. *)
THEOREM TypeCorrect == Spec => []TypeOK
BY TypeInit, TypeStep, PTL DEF Spec

-----------------------------------------------------------------------------
(***************************************************************************)
(* The registry and the simulator's queue.  RegisteredIsPending is         *)
(* inductive as it stands: Defer schedules what it registers, Fire and     *)
(* CancelDeferred unregister an alert together with the event it maps to.  *)
(***************************************************************************)

\* The alert a has no entry after Erase, the others keep theirs.
LEMMA EraseEntry ==
    ASSUME NEW reg \in [Alert -> Nat \cup {NoEvent}], NEW a \in Alert, NEW b \in Alert,
           IsRegistered(Erase(reg, a), b)
    PROVE  b # a /\ IsRegistered(reg, b) /\ Erase(reg, a)[b] = reg[b]
BY DEF IsRegistered, Erase

LEMMA RegisteredStep ==
    TypeOK /\ RegisteredIsPending /\ [Next]_vars => RegisteredIsPending'
<1> SUFFICES ASSUME TypeOK, RegisteredIsPending, [Next]_vars,
                    NEW v \in Vehicle, NEW a \in Alert, IsRegistered(registry[v], a)'
             PROVE  \E e \in pending'[v] : e.alert = a /\ e.id = registry'[v][a]
  BY DEF RegisteredIsPending
<1>t. /\ v \in Node
      /\ registry[v] \in [Alert -> Nat \cup {NoEvent}]
      /\ registry \in [Node -> [Alert -> Nat \cup {NoEvent}]]
      /\ pending \in [Node -> SUBSET EventType]
  BY DEF TypeOK, Node
<1>0. ASSUME UNCHANGED <<registry, pending>>
      PROVE  \E e \in pending'[v] : e.alert = a /\ e.id = registry'[v][a]
  BY <1>0 DEF RegisteredIsPending
<1>1. ASSUME NEW w \in Vehicle, NEW f \in air, CancelDeferred(w, f)
      PROVE  \E e \in pending'[v] : e.alert = a /\ e.id = registry'[v][a]
  <2>1. f.alert \in Alert /\ w \in Node
    BY <1>1 DEF CancelDeferred, GeoAlert, Node
  <2>2. CASE w = v
    <3>1. registry'[v] = Erase(registry[v], f.alert)
      BY <1>1, <1>t, <2>2 DEF CancelDeferred
    <3>2. a # f.alert /\ IsRegistered(registry[v], a) /\ registry'[v][a] = registry[v][a]
      BY <1>t, <2>1, <3>1, EraseEntry
    <3>3. PICK e \in pending[v] : e.alert = a /\ e.id = registry[v][a]
      BY <3>2 DEF RegisteredIsPending
    <3>4. e \in pending'[v]
      BY <1>1, <1>t, <2>2, <3>2, <3>3 DEF CancelDeferred
    <3> QED BY <3>2, <3>3, <3>4
  <2>3. CASE w # v
    <3>1. registry'[v] = registry[v] /\ pending'[v] = pending[v]
      BY <1>1, <1>t, <2>1, <2>3 DEF CancelDeferred
    <3> QED BY <3>1 DEF RegisteredIsPending
  <2> QED BY <2>2, <2>3
<1>2. ASSUME NEW w \in Vehicle, NEW f \in air, Defer(w, f)
      PROVE  \E e \in pending'[v] : e.alert = a /\ e.id = registry'[v][a]
  <2> DEFINE event == Deferred(w, f)
  <2>1. w \in Node /\ f.alert \in Alert /\ event.alert = f.alert
    BY <1>2 DEF Defer, TakeNew, GeoAlert, Node, Deferred
  <2>2. /\ registry' = [registry EXCEPT ![w] = Register(@, f.alert, event.id)]
        /\ pending' = [pending EXCEPT ![w] = @ \cup {event}]
    BY <1>2 DEF Defer
  <2> HIDE DEF event
  <2>3. CASE w = v /\ a = f.alert
    <3>1. event \in pending'[v] /\ registry'[v][a] = event.id
      BY <1>t, <2>2, <2>3 DEF Register
    <3> QED BY <2>1, <2>3, <3>1
  <2>4. CASE ~(w = v /\ a = f.alert)
    <3>1. registry'[v][a] = registry[v][a] /\ pending[v] \subseteq pending'[v]
      BY <1>t, <2>1, <2>2, <2>4 DEF Register
    <3>2. PICK e \in pending[v] : e.alert = a /\ e.id = registry[v][a]
      BY <3>1 DEF RegisteredIsPending, IsRegistered
    <3> QED BY <3>1, <3>2
  <2> QED BY <2>3, <2>4
<1>3. ASSUME NEW w \in Vehicle, NEW d \in pending[w], Fire(w, d)
      PROVE  \E e \in pending'[v] : e.alert = a /\ e.id = registry'[v][a]
  <2>1. w \in Node /\ d.alert \in Alert
    BY <1>t DEF Node, EventType, GeoAlert
  <2>2. CASE w = v
    <3>1. registry'[v] = Erase(registry[v], d.alert) /\ pending'[v] = pending[v] \ {d}
      BY <1>3, <1>t, <2>2 DEF Fire
    <3>2. a # d.alert /\ IsRegistered(registry[v], a) /\ registry'[v][a] = registry[v][a]
      BY <1>t, <2>1, <3>1, EraseEntry
    <3> QED BY <3>1, <3>2 DEF RegisteredIsPending
  <2>3. CASE w # v
    <3>1. registry'[v] = registry[v] /\ pending'[v] = pending[v]
      BY <1>3, <1>t, <2>1, <2>3 DEF Fire
    <3> QED BY <3>1 DEF RegisteredIsPending
  <2> QED BY <2>2, <2>3
<1>4. CASE \E b \in Alert : Produce(b)
  BY <1>0, <1>4 DEF Produce, ProduceOnVehicle, ProduceOnRsu, RsuHandler, ProduceForNeighbors,
                    ProduceLocally, contextVars
<1>5. CASE \E w \in Vehicle : \E f \in air : VehicleReceive(w, f)
  BY <1>0, <1>1, <1>2, <1>5
     DEF VehicleReceive, VehicleDropDuplicate, DropMovingAway, ReceiveFromNeighbor, contextVars
<1>6. CASE \E r \in Rsu : \E f \in air : RsuReceives(r, f)
  BY <1>0, <1>6
     DEF RsuReceives, RsuReceive, RsuHandler, RsuDropDuplicate, ReceiveFromNeighbor, contextVars
<1>7. CASE \E w \in Vehicle : \E e \in pending[w] : Fire(w, e)
  BY <1>3, <1>7
<1>8. CASE \E w \in Vehicle : HelloHeard(w) \/ HelloTimeout(w) \/ Move(w)
  BY <1>0, <1>8 DEF HelloHeard, HelloTimeout, Move, contextVars
<1>9. CASE \E f \in air : Lose(f)
  BY <1>0, <1>9 DEF Lose, contextVars
<1>10. CASE UNCHANGED vars
  BY <1>0, <1>10 DEF vars
<1> QED BY <1>4, <1>5, <1>6, <1>7, <1>8, <1>9, <1>10 DEF Next

(* A registered alert always has a live event behind it: whatever stores
   forget and however often an alert is scheduled, IsRegistered never vouches
   for a transmission that will not happen. *)
THEOREM RegisteredAlertsPending == Spec => []RegisteredIsPending
<1>1. Init => RegisteredIsPending
  BY DEF Init, RegisteredIsPending, IsRegistered, Node
<1>2. QED BY <1>1, TypeCorrect, RegisteredStep, PTL DEF Spec

-----------------------------------------------------------------------------
(***************************************************************************)
(* What becomes of the DestinationNodesTag: it stays on the wired links of *)
(* the backbone.  No copy for a vehicle carries it, therefore no scheduled *)
(* transmission of a vehicle does, and therefore no Wi-Fi packet.  Neither *)
(* eviction nor movement matters here.                                     *)
(***************************************************************************)

\* Packets on Wi-Fi and packets for vehicles have no tag.
AirUntagged == \A f \in air : f.via \in Group \/ f.to \in Vehicle => f.dst = NoTag

\* A transmission a vehicle has scheduled has none either.
PendingUntagged == \A v \in Vehicle : \A e \in pending[v] : e.dst = NoTag

UntaggedInv == TypeOK /\ AirUntagged /\ PendingUntagged

-----------------------------------------------------------------------------
\* A broadcast packet carries the tag it was given.
LEMMA BroadcastTag ==
    ASSUME NEW n, NEW g, NEW a, NEW tag, NEW f \in Broadcast(n, g, a, tag)
    PROVE  f.dst = tag
BY DEF Broadcast, Packet

\* A packet with a tag leaves an RSU by a wired link, to another RSU.
LEMMA MulticastWired ==
    ASSUME NEW r \in Rsu, NEW a \in GeoAlert, NEW D \in SUBSET Destination,
           NEW f \in Multicast(r, a, D)
    PROVE  f.via = "P2P" /\ f.to \in Rsu
<1> DEFINE others == D \ {r}
<1>1. Routes[r][others] = Mira(RoutingInfo, others, r)
  BY DEF Routes
<1>2. PICK e \in Mira(RoutingInfo, others, r) : f = Packet(r, e.via, "P2P", a, e.dst)
  BY <1>1 DEF Multicast
<1>3. e.via \in Rsu
  BY MiraEntries
<1> QED BY <1>2, <1>3 DEF Packet

\* The RSU handler: what it broadcasts is untagged, what it tags is wired.
LEMMA RsuHandlerTags ==
    ASSUME UntaggedInv, NEW r \in Rsu, NEW a \in GeoAlert, NEW tag \in TagType, NEW arrived,
           RsuHandler(r, a, tag, arrived)
    PROVE  AirUntagged' /\ PendingUntagged'
<1> DEFINE D == Responsible(r, a, tag)
<1>1. \A f \in Multicast(r, a, D) : f.via \notin Group /\ f.to \notin Vehicle
  BY ResponsibleType, MulticastWired, ForwarderAssumption DEF Group
<1>2. \A f \in BroadcastHere(r, a, D) : f.dst = NoTag
  BY BroadcastTag DEF BroadcastHere
<1>3. AirUntagged'
  BY <1>1, <1>2 DEF UntaggedInv, AirUntagged, RsuHandler
<1>4. PendingUntagged'
  BY DEF UntaggedInv, PendingUntagged, RsuHandler
<1> QED BY <1>3, <1>4

\* An application's alert leaves its node without a tag.
LEMMA ProduceTags ==
    ASSUME UntaggedInv, NEW a \in Alert, Produce(a)
    PROVE  AirUntagged' /\ PendingUntagged'
<1> DEFINE n == Producer[a]
<1>1. CASE ProduceOnVehicle(n, a)
  <2>1. \A f \in air' : f \in air \/ f.dst = NoTag
    BY <1>1, BroadcastTag DEF ProduceOnVehicle
  <2> QED BY <1>1, <2>1 DEF ProduceOnVehicle, UntaggedInv, AirUntagged, PendingUntagged
<1>2. CASE a \in GeoAlert /\ n \in Rsu /\ ProduceOnRsu(n, a)
  BY <1>2, RsuHandlerTags DEF ProduceOnRsu, TagType
<1>3. CASE ProduceForNeighbors(n, a)
  <2>1. \A f \in air' : f \in air \/ f.dst = NoTag
    BY <1>3, BroadcastTag DEF ProduceForNeighbors, Packet
  <2> QED BY <1>3, <2>1
          DEF ProduceForNeighbors, contextVars, UntaggedInv, AirUntagged, PendingUntagged
<1>4. CASE ProduceLocally(n, a)
  BY <1>4 DEF ProduceLocally, contextVars, UntaggedInv, AirUntagged, PendingUntagged
<1> QED BY <1>1, <1>2, <1>3, <1>4 DEF Produce

\* A vehicle schedules with the tag of the packet it got: none.
LEMMA VehicleReceiveTags ==
    ASSUME UntaggedInv, NEW v \in Vehicle, NEW f \in air, VehicleReceive(v, f)
    PROVE  AirUntagged' /\ PendingUntagged'
<1>1. air' \subseteq air
  BY DEF VehicleReceive, CancelDeferred, VehicleDropDuplicate, DropMovingAway, Defer, TakeNew,
         ReceiveFromNeighbor
<1>2. AirUntagged'
  BY <1>1 DEF UntaggedInv, AirUntagged
<1>3. v \in Node /\ pending \in [Node -> SUBSET EventType]
  BY DEF UntaggedInv, TypeOK, Node
<1>4. CASE Defer(v, f)
  <2> DEFINE event == Deferred(v, f)
  <2>1. f.to = v
    BY <1>4 DEF Defer, TakeNew
  <2>2. event.dst = NoTag
    BY <2>1 DEF Deferred, UntaggedInv, AirUntagged
  <2>3. pending' = [pending EXCEPT ![v] = @ \cup {event}]
    BY <1>4 DEF Defer
  <2> HIDE DEF event
  <2>4. \A w \in Vehicle : \A e \in pending'[w] : e \in pending[w] \/ e = event
    BY <1>3, <2>3 DEF Node
  <2> QED BY <1>2, <2>2, <2>4 DEF UntaggedInv, PendingUntagged
<1>5. CASE CancelDeferred(v, f)
  <2>1. \A w \in Vehicle : pending'[w] \subseteq pending[w]
    BY <1>3, <1>5 DEF CancelDeferred, Node
  <2> QED BY <1>2, <2>1 DEF UntaggedInv, PendingUntagged
<1>6. CASE ~(Defer(v, f) \/ CancelDeferred(v, f))
  <2>1. UNCHANGED pending
    BY <1>6 DEF VehicleReceive, VehicleDropDuplicate, DropMovingAway, ReceiveFromNeighbor,
                contextVars
  <2> QED BY <1>2, <2>1 DEF UntaggedInv, PendingUntagged
<1> QED BY <1>4, <1>5, <1>6

\* A transmission that fires carries the tag it was scheduled with.
LEMMA FireTags ==
    ASSUME UntaggedInv, NEW v \in Vehicle, NEW e \in pending[v], Fire(v, e)
    PROVE  AirUntagged' /\ PendingUntagged'
<1>1. v \in Node /\ pending \in [Node -> SUBSET EventType]
  BY DEF UntaggedInv, TypeOK, Node
<1>2. \A f \in air' : f \in air \/ f.dst = NoTag
  BY BroadcastTag DEF Fire, UntaggedInv, PendingUntagged
<1>3. \A w \in Vehicle : pending'[w] \subseteq pending[w]
  BY <1>1 DEF Fire, Node
<1> QED BY <1>2, <1>3 DEF UntaggedInv, AirUntagged, PendingUntagged

LEMMA UntaggedStep == UntaggedInv /\ [Next]_vars => UntaggedInv'
<1> SUFFICES ASSUME UntaggedInv, [Next]_vars PROVE AirUntagged' /\ PendingUntagged'
  BY TypeStep DEF UntaggedInv
<1>0. ASSUME air' \subseteq air, UNCHANGED pending
      PROVE  AirUntagged' /\ PendingUntagged'
  BY <1>0 DEF UntaggedInv, AirUntagged, PendingUntagged
<1>1. CASE \E a \in Alert : Produce(a)
  BY <1>1, ProduceTags
<1>2. CASE \E v \in Vehicle : \E f \in air : VehicleReceive(v, f)
  BY <1>2, VehicleReceiveTags
<1>3. CASE \E r \in Rsu : \E f \in air : RsuReceives(r, f)
  <2>1. PICK r \in Rsu, f \in air : RsuReceives(r, f)
    BY <1>3
  <2>2. CASE RsuReceive(r, f)
    <3>1. f.alert \in GeoAlert /\ f.dst \in TagType
      BY <2>1, <2>2 DEF RsuReceive, UntaggedInv, TypeOK, PacketType
    <3> QED BY <2>2, <3>1, RsuHandlerTags DEF RsuReceive
  <2>3. CASE RsuDropDuplicate(r, f) \/ ReceiveFromNeighbor(r, f)
    BY <1>0, <2>3 DEF RsuDropDuplicate, ReceiveFromNeighbor, contextVars
  <2> QED BY <2>1, <2>2, <2>3 DEF RsuReceives
<1>4. CASE \E v \in Vehicle : \E e \in pending[v] : Fire(v, e)
  BY <1>4, FireTags
<1>5. CASE \E v \in Vehicle : HelloHeard(v) \/ HelloTimeout(v) \/ Move(v)
  BY <1>0, <1>5 DEF HelloHeard, HelloTimeout, Move, contextVars
<1>6. CASE \E f \in air : Lose(f)
  BY <1>0, <1>6 DEF Lose, contextVars
<1>7. CASE UNCHANGED vars
  BY <1>0, <1>7 DEF vars
<1> QED BY <1>1, <1>2, <1>3, <1>4, <1>5, <1>6, <1>7 DEF Next

(* Destination tags belong to the backbone: in every network, whatever is
   lost, evicted or moved, no Wi-Fi packet makes its receiver responsible for
   the destinations of an RSU. *)
THEOREM Untagged == Spec => []UntaggedOnAir
<1>1. Init => UntaggedInv
  <2>1. Init => AirUntagged /\ PendingUntagged
    BY DEF Init, AirUntagged, PendingUntagged, Node
  <2> QED BY <2>1, TypeInit DEF UntaggedInv
<1>2. UntaggedInv => UntaggedOnAir
  BY DEF UntaggedInv, AirUntagged, UntaggedOnAir
<1>3. QED BY <1>1, <1>2, UntaggedStep, PTL DEF Spec

-----------------------------------------------------------------------------
(***************************************************************************)
(* What holds of CafForwarder as long as no store overflows: every node    *)
(* takes every alert for a new one at most once, and therefore schedules   *)
(* and transmits it at most once.  The lemmas show that a store that never *)
(* evicts is a set of alerts that only grows; the inductive invariant      *)
(* ties the counters, the registry and the queue to that set.              *)
(***************************************************************************)

Distinct(s) == \A i, j \in DOMAIN s : s[i].alert = s[j].alert => i = j

\* A node takes an alert for new exactly when its store does not hold it.
HandledIsStored ==
    \A n \in Node :
        /\ Distinct(store[n])
        /\ \A a \in GeoAlert :
              handled[n][a] = IF IsDuplicate(store[n], a) THEN 1 ELSE 0

\* Nothing is known of an alert before its application sent it.
KnownIsProduced ==
    /\ \A n \in Node, a \in GeoAlert : handled[n][a] # 0 => a \in produced
    /\ \A f \in air : f.alert \in produced

\* A pending transmission is the only one of its alert, and the first.
PendingIsFirst ==
    \A v \in Vehicle : \A e \in pending[v] :
        /\ handled[v][e.alert] = 1
        /\ sent[v][e.alert] = 0
        /\ registry[v][e.alert] = e.id
        /\ \A d \in pending[v] : d.alert = e.alert => d = e

SentIsHandled == \A n \in Node, a \in GeoAlert : sent[n][a] <= handled[n][a]

OnceInv ==
    /\ TypeOK
    /\ HandledIsStored
    /\ KnownIsProduced
    /\ PendingIsFirst
    /\ SentIsHandled

-----------------------------------------------------------------------------
(***************************************************************************)
(* The store.                                                              *)
(***************************************************************************)

\* A store without repetitions holds fewer alerts than there are, if one is missing.
LEMMA StoreHasRoom ==
    ASSUME NoOverflow, NEW s \in Seq(EntryType), Distinct(s),
           NEW a \in GeoAlert, ~IsDuplicate(s, a)
    PROVE  Len(s) < StoreSize
<1> DEFINE others == Alert \ {a}
           f == [i \in 1 .. Len(s) |-> s[i].alert]
<1>1. /\ IsFiniteSet(others) /\ Cardinality(others) = Cardinality(Alert) - 1
      /\ Cardinality(Alert) \in Nat
  BY FS_RemoveElement, FS_CardinalityType DEF NoOverflow, GeoAlert
<1>2. \A i \in 1 .. Len(s) : s[i] \in EntryType /\ s[i].alert # a
  BY ElementOfSeq DEF IsDuplicate, StoredAlerts
<1>3. \A i \in 1 .. Len(s) : f[i] \in others
  BY <1>2 DEF EntryType, GeoAlert
<1>4. \A i, j \in 1 .. Len(s) : f[i] = f[j] => i = j
  BY DEF Distinct
<1>5. f \in Injection(1 .. Len(s), others)
  BY <1>3, <1>4 DEF Injection, IsInjective
<1>6. Cardinality(1 .. Len(s)) <= Cardinality(others)
  BY <1>1, <1>5, FS_Injection
<1>7. Cardinality(1 .. Len(s)) = Len(s) /\ Len(s) \in Nat
  <2>1. Len(s) \in Nat /\ 1 \in Int
    OBVIOUS
  <2>2. Cardinality(1 .. Len(s)) = IF 1 > Len(s) THEN 0 ELSE Len(s) - 1 + 1
    BY <2>1, FS_Interval
  <2> QED BY <2>1, <2>2
<1> QED BY <1>1, <1>6, <1>7, ForwarderAssumption DEF NoOverflow

\* Adding a new entry adds its alert and forgets none.
LEMMA InsertNew ==
    ASSUME NoOverflow, NEW s \in Seq(EntryType), Distinct(s),
           NEW entry \in EntryType, ~IsDuplicate(s, entry.alert)
    PROVE  LET t == InsertOrUpdate(s, entry, StoreSize)
           IN  /\ t \in Seq(EntryType)
               /\ Distinct(t)
               /\ \A a : IsDuplicate(t, a) <=> a = entry.alert \/ IsDuplicate(s, a)
<1> DEFINE t == <<entry>> \o s
<1>1. entry.alert \in GeoAlert
  BY DEF EntryType
<1>2. Len(s) < StoreSize /\ Len(s) \in Nat
  BY <1>1, StoreHasRoom
<1>3. t \in Seq(EntryType) /\ Len(t) = Len(s) + 1 /\ t[1] = entry
  OBVIOUS
<1>4. \A i \in 1 .. Len(s) : t[i + 1] = s[i]
  OBVIOUS
<1>5. InsertOrUpdate(s, entry, StoreSize) = t
  BY <1>2, <1>3, ForwarderAssumption DEF InsertOrUpdate
<1>6. \A i \in DOMAIN t : i = 1 \/ (i - 1 \in 1 .. Len(s) /\ t[i] = s[i - 1])
  BY <1>3, <1>4
<1>7. \A i \in 1 .. Len(s) : s[i].alert # entry.alert
  BY DEF IsDuplicate, StoredAlerts
<1>8. Distinct(t)
  <2> SUFFICES ASSUME NEW i \in DOMAIN t, NEW j \in DOMAIN t, t[i].alert = t[j].alert
               PROVE  i = j
    BY DEF Distinct
  <2> QED BY <1>3, <1>6, <1>7 DEF Distinct
<1>9. ASSUME NEW a PROVE IsDuplicate(t, a) <=> a = entry.alert \/ IsDuplicate(s, a)
  <2>1. IsDuplicate(t, a) => a = entry.alert \/ IsDuplicate(s, a)
    BY <1>3, <1>6 DEF IsDuplicate, StoredAlerts
  <2>2. a = entry.alert => IsDuplicate(t, a)
    BY <1>3 DEF IsDuplicate, StoredAlerts
  <2>3. IsDuplicate(s, a) => IsDuplicate(t, a)
    <3>1. ASSUME NEW i \in DOMAIN s, s[i].alert = a
          PROVE  i + 1 \in DOMAIN t /\ t[i + 1].alert = a
      BY <1>3, <1>4, <3>1
    <3> QED BY <3>1 DEF IsDuplicate, StoredAlerts
  <2> QED BY <2>1, <2>2, <2>3
<1> QED BY <1>3, <1>5, <1>8, <1>9

-----------------------------------------------------------------------------
(***************************************************************************)
(* Taking an alert for a new one.                                          *)
(***************************************************************************)
LEMMA Taken ==
    ASSUME NoOverflow, TypeOK, HandledIsStored,
           NEW n \in Node, NEW entry \in EntryType, ~IsDuplicate(store[n], entry.alert),
           Remember(n, entry), CountHandled(n, entry.alert)
    PROVE  /\ HandledIsStored'
           /\ handled[n][entry.alert] = 0
           /\ handled'[n][entry.alert] = 1
           /\ \A m \in Node, b \in Alert :
                 m # n \/ b # entry.alert => handled'[m][b] = handled[m][b]
<1>1. entry.alert \in GeoAlert /\ entry.alert \in Alert
  BY DEF EntryType, GeoAlert
<1>2. handled \in [Node -> [Alert -> Nat]] /\ store \in [Node -> Seq(EntryType)]
  BY DEF TypeOK, EntryType
<1>3. handled[n][entry.alert] = 0
  BY <1>1 DEF HandledIsStored
<1>4. /\ handled'[n][entry.alert] = 1
      /\ \A m \in Node, b \in Alert :
            m # n \/ b # entry.alert => handled'[m][b] = handled[m][b]
  BY <1>1, <1>2, <1>3 DEF CountHandled
<1>5. store'[n] = InsertOrUpdate(store[n], entry, StoreSize)
      /\ \A m \in Node : m # n => store'[m] = store[m]
  BY <1>2 DEF Remember
<1>6. /\ Distinct(store'[n])
      /\ \A a : IsDuplicate(store'[n], a) <=> a = entry.alert \/ IsDuplicate(store[n], a)
  <2>1. store[n] \in Seq(EntryType) /\ Distinct(store[n])
    BY <1>2 DEF HandledIsStored
  <2> QED BY <1>5, <2>1, InsertNew
<1>7. HandledIsStored'
  <2> SUFFICES ASSUME NEW m \in Node
               PROVE  /\ Distinct(store'[m])
                      /\ \A a \in GeoAlert :
                            handled'[m][a] = IF IsDuplicate(store'[m], a) THEN 1 ELSE 0
    BY DEF HandledIsStored, Distinct, IsDuplicate, StoredAlerts
  <2>1. CASE m = n
    <3>1. ASSUME NEW a \in GeoAlert
          PROVE  handled'[n][a] = IF IsDuplicate(store'[n], a) THEN 1 ELSE 0
      BY <1>4, <1>6 DEF HandledIsStored, GeoAlert
    <3> QED BY <1>6, <2>1, <3>1
  <2>2. CASE m # n
    BY <1>4, <1>5, <2>2 DEF HandledIsStored, GeoAlert
  <2> QED BY <2>1, <2>2
<1> QED BY <1>3, <1>4, <1>7

\* Steps that leave the stores and the history alone.
LEMMA QuietStep ==
    ASSUME OnceInv, UNCHANGED <<store, registry, pending, handled, sent>>,
           produced \subseteq produced', \A f \in air' : f.alert \in produced'
    PROVE  HandledIsStored' /\ KnownIsProduced' /\ PendingIsFirst' /\ SentIsHandled'
<1>1. HandledIsStored'
  BY DEF OnceInv, HandledIsStored
<1>2. KnownIsProduced'
  BY DEF OnceInv, KnownIsProduced
<1>3. PendingIsFirst' /\ SentIsHandled'
  BY DEF OnceInv, PendingIsFirst, SentIsHandled
<1> QED BY <1>1, <1>2, <1>3

\* Alerts known before a node takes alert a are still known, and a is.
LEMMA TakenKnown ==
    ASSUME OnceInv, NEW n, NEW a,
           produced \subseteq produced', a \in produced',
           \A m \in Node, b \in Alert : m # n \/ b # a => handled'[m][b] = handled[m][b],
           \A f \in air' : f \in air \/ f.alert = a
    PROVE  KnownIsProduced'
<1>1. \A m \in Node, b \in GeoAlert : handled'[m][b] # 0 => b \in produced'
  BY DEF OnceInv, KnownIsProduced, GeoAlert
<1>2. \A f \in air' : f.alert \in produced'
  BY DEF OnceInv, KnownIsProduced
<1> QED BY <1>1, <1>2 DEF KnownIsProduced

LEMMA BroadcastAlert ==
    ASSUME NEW n, NEW g, NEW a, NEW tag, NEW f \in Broadcast(n, g, a, tag)
    PROVE  f.alert = a
BY DEF Broadcast, Packet

LEMMA RsuHandlerOnce ==
    ASSUME NoOverflow, OnceInv, NEW r \in Rsu, NEW a \in GeoAlert, NEW tag, NEW arrived,
           RsuHandler(r, a, tag, arrived), produced \subseteq produced', a \in produced'
    PROVE  HandledIsStored' /\ KnownIsProduced' /\ PendingIsFirst' /\ SentIsHandled'
<1> DEFINE entry == StoreEntry(a, "NONE", NoPosition)
<1>1. r \in Node /\ a \in Alert /\ entry \in EntryType /\ entry.alert = a
  BY DEF Node, GeoAlert, StoreEntry, EntryType
<1>2. Remember(r, entry) /\ CountHandled(r, a) /\ ~IsDuplicate(store[r], a)
  BY DEF RsuHandler
<1> HIDE DEF entry
<1>3. /\ HandledIsStored'
      /\ handled[r][a] = 0
      /\ handled'[r][a] = 1
      /\ \A m \in Node, b \in Alert : m # r \/ b # a => handled'[m][b] = handled[m][b]
  BY <1>1, <1>2, Taken DEF OnceInv
<1>4. \A f \in air' : f \in air \/ f.alert = a
  BY BroadcastAlert DEF RsuHandler, BroadcastHere, Multicast, Packet
<1>5. KnownIsProduced'
  BY <1>3, <1>4, TakenKnown
<1>6. sent \in [Node -> [Alert -> Nat]]
  BY DEF OnceInv, TypeOK
<1>7. PICK k \in {0, 1} : CountSent(r, a, k)
  BY DEF RsuHandler
<1>8. /\ sent'[r][a] = sent[r][a] + k
      /\ \A m \in Node, b \in Alert : m # r \/ b # a => sent'[m][b] = sent[m][b]
  BY <1>1, <1>6, <1>7 DEF CountSent
<1>9. SentIsHandled'
  <2> SUFFICES ASSUME NEW m \in Node, NEW b \in GeoAlert PROVE sent'[m][b] <= handled'[m][b]
    BY DEF SentIsHandled
  <2>1. b \in Alert /\ sent[m][b] <= handled[m][b] /\ sent[m][b] \in Nat
    BY <1>6 DEF OnceInv, SentIsHandled, GeoAlert
  <2> QED BY <1>3, <1>7, <1>8, <2>1
<1>10. PendingIsFirst'
  <2> SUFFICES ASSUME NEW v \in Vehicle, NEW e \in pending[v]
               PROVE  handled'[v][e.alert] = handled[v][e.alert] /\ sent'[v][e.alert] = sent[v][e.alert]
    BY DEF OnceInv, PendingIsFirst, RsuHandler
  <2>1. v # r /\ v \in Node /\ e.alert \in Alert
    BY ForwarderAssumption DEF Node, OnceInv, TypeOK, EventType, GeoAlert
  <2> QED BY <1>3, <1>8, <2>1
<1> QED BY <1>3, <1>5, <1>9, <1>10

-----------------------------------------------------------------------------
(***************************************************************************)
(* The steps of vehicles.                                                  *)
(***************************************************************************)
LEMMA ProduceOnVehicleOnce ==
    ASSUME NoOverflow, OnceInv, NEW v \in Vehicle, NEW a \in GeoAlert,
           a \notin produced, produced' = produced \cup {a}, ProduceOnVehicle(v, a)
    PROVE  HandledIsStored' /\ KnownIsProduced' /\ PendingIsFirst' /\ SentIsHandled'
<1> DEFINE entry == StoreEntry(a, "VEHICLE", pos[v])
<1>1. v \in Node /\ a \in Alert /\ entry \in EntryType /\ entry.alert = a
  BY DEF Node, GeoAlert, StoreEntry, EntryType, OnceInv, TypeOK
<1>2. handled[v][a] = 0 /\ ~IsDuplicate(store[v], a)
  BY <1>1 DEF OnceInv, HandledIsStored, KnownIsProduced
<1>3. Remember(v, entry) /\ CountHandled(v, a) /\ CountSent(v, a, 1)
  BY DEF ProduceOnVehicle
<1> HIDE DEF entry
<1>4. /\ HandledIsStored'
      /\ handled'[v][a] = 1
      /\ \A m \in Node, b \in Alert : m # v \/ b # a => handled'[m][b] = handled[m][b]
  BY <1>1, <1>2, <1>3, Taken DEF OnceInv
<1>5. KnownIsProduced'
  <2>1. \A f \in air' : f \in air \/ f.alert = a
    BY BroadcastAlert DEF ProduceOnVehicle
  <2> QED BY <1>4, <2>1, TakenKnown
<1>6. sent \in [Node -> [Alert -> Nat]]
  BY DEF OnceInv, TypeOK
<1>7. /\ sent'[v][a] = sent[v][a] + 1
      /\ \A m \in Node, b \in Alert : m # v \/ b # a => sent'[m][b] = sent[m][b]
  BY <1>1, <1>3, <1>6 DEF CountSent
<1>8. SentIsHandled'
  <2> SUFFICES ASSUME NEW m \in Node, NEW b \in GeoAlert PROVE sent'[m][b] <= handled'[m][b]
    BY DEF SentIsHandled
  <2>1. b \in Alert /\ sent[m][b] <= handled[m][b] /\ sent[m][b] \in Nat
    BY <1>6 DEF OnceInv, SentIsHandled, GeoAlert
  <2> QED BY <1>2, <1>4, <1>7, <2>1
<1>9. PendingIsFirst'
  <2> SUFFICES ASSUME NEW w \in Vehicle, NEW e \in pending[w]
               PROVE  handled'[w][e.alert] = handled[w][e.alert] /\ sent'[w][e.alert] = sent[w][e.alert]
    BY DEF OnceInv, PendingIsFirst, ProduceOnVehicle
  <2>1. w \in Node /\ e.alert \in Alert /\ handled[w][e.alert] = 1
    BY DEF Node, OnceInv, TypeOK, EventType, GeoAlert, PendingIsFirst
  <2> QED BY <1>2, <1>4, <1>7, <2>1
<1> QED BY <1>4, <1>5, <1>8, <1>9

LEMMA TakeNewOnce ==
    ASSUME NoOverflow, OnceInv, NEW v \in Vehicle, NEW f \in air, TakeNew(v, f),
           UNCHANGED <<produced, sent>>
    PROVE  /\ HandledIsStored' /\ KnownIsProduced' /\ SentIsHandled'
           /\ v \in Node /\ f.alert \in GeoAlert
           /\ handled[v][f.alert] = 0 /\ handled'[v][f.alert] = 1 /\ sent[v][f.alert] = 0
           /\ \A m \in Node, b \in Alert :
                 m # v \/ b # f.alert => handled'[m][b] = handled[m][b]
<1> DEFINE a == f.alert
           entry == StoreEntry(a, f.senderType, f.senderPos)
<1>1. v \in Node /\ a \in GeoAlert /\ a \in Alert /\ entry \in EntryType /\ entry.alert = a
  BY DEF Node, GeoAlert, StoreEntry, EntryType, OnceInv, TypeOK, PacketType, TakeNew
<1>2. Remember(v, entry) /\ CountHandled(v, a) /\ ~IsDuplicate(store[v], a) /\ air' \subseteq air
  BY DEF TakeNew
<1> HIDE DEF entry
<1>3. /\ HandledIsStored'
      /\ handled[v][a] = 0
      /\ handled'[v][a] = 1
      /\ \A m \in Node, b \in Alert : m # v \/ b # a => handled'[m][b] = handled[m][b]
  BY <1>1, <1>2, Taken DEF OnceInv
<1>4. a \in produced
  BY DEF OnceInv, KnownIsProduced
<1>5. KnownIsProduced'
  BY <1>2, <1>3, <1>4, TakenKnown
<1>6. SentIsHandled' /\ sent[v][a] = 0
  <2>1. \A m \in Node, b \in GeoAlert :
           b \in Alert /\ sent[m][b] <= handled[m][b] /\ sent[m][b] \in Nat /\ handled[m][b] \in Nat
    BY DEF OnceInv, SentIsHandled, GeoAlert, TypeOK
  <2>2. sent[v][a] = 0
    BY <1>1, <1>3, <2>1
  <2> QED BY <1>3, <2>1, <2>2 DEF SentIsHandled
<1> QED BY <1>1, <1>3, <1>5, <1>6

LEMMA DropMovingAwayOnce ==
    ASSUME NoOverflow, OnceInv, NEW v \in Vehicle, NEW f \in air, DropMovingAway(v, f)
    PROVE  HandledIsStored' /\ KnownIsProduced' /\ PendingIsFirst' /\ SentIsHandled'
<1>1. /\ HandledIsStored' /\ KnownIsProduced' /\ SentIsHandled'
      /\ handled[v][f.alert] = 0
      /\ \A m \in Node, b \in Alert : m # v \/ b # f.alert => handled'[m][b] = handled[m][b]
  BY TakeNewOnce DEF DropMovingAway
<1>2. PendingIsFirst'
  <2> SUFFICES ASSUME NEW w \in Vehicle, NEW e \in pending[w]
               PROVE  handled'[w][e.alert] = handled[w][e.alert]
    BY DEF OnceInv, PendingIsFirst, DropMovingAway
  <2>1. w \in Node /\ e.alert \in Alert /\ handled[w][e.alert] = 1
    BY DEF Node, OnceInv, TypeOK, EventType, GeoAlert, PendingIsFirst
  <2> QED BY <1>1, <2>1
<1> QED BY <1>1, <1>2

LEMMA DeferOnce ==
    ASSUME NoOverflow, OnceInv, NEW v \in Vehicle, NEW f \in air, Defer(v, f)
    PROVE  HandledIsStored' /\ KnownIsProduced' /\ PendingIsFirst' /\ SentIsHandled'
<1> DEFINE event == Deferred(v, f)
<1>1. /\ HandledIsStored' /\ KnownIsProduced' /\ SentIsHandled'
      /\ v \in Node /\ f.alert \in GeoAlert
      /\ handled[v][f.alert] = 0 /\ handled'[v][f.alert] = 1 /\ sent[v][f.alert] = 0
      /\ \A m \in Node, b \in Alert : m # v \/ b # f.alert => handled'[m][b] = handled[m][b]
  BY TakeNewOnce DEF Defer
<1>2. /\ pending' = [pending EXCEPT ![v] = @ \cup {event}]
      /\ registry' = [registry EXCEPT ![v] = Register(@, f.alert, event.id)]
      /\ sent' = sent
  BY DEF Defer
<1>3. event.alert = f.alert
  BY DEF Deferred
<1> HIDE DEF event
<1>4. /\ pending \in [Node -> SUBSET EventType]
      /\ registry \in [Node -> [Alert -> Nat \cup {NoEvent}]]
      /\ f.alert \in Alert
  BY <1>1 DEF OnceInv, TypeOK, GeoAlert
<1>5. /\ registry'[v][f.alert] = event.id
      /\ \A w \in Node, b \in Alert : w # v \/ b # f.alert => registry'[w][b] = registry[w][b]
  BY <1>1, <1>2, <1>4 DEF Register
<1>6. \A d \in pending[v] : d.alert # f.alert
  BY <1>1 DEF OnceInv, PendingIsFirst
<1>7. \A w \in Vehicle : \A e :
         e \in pending'[w] <=> e \in pending[w] \/ (w = v /\ e = event)
  BY <1>1, <1>2, <1>4 DEF Node
<1>8. PendingIsFirst'
  <2> SUFFICES ASSUME NEW w \in Vehicle, NEW e \in pending'[w]
               PROVE  /\ handled'[w][e.alert] = 1
                      /\ sent'[w][e.alert] = 0
                      /\ registry'[w][e.alert] = e.id
                      /\ \A d \in pending'[w] : d.alert = e.alert => d = e
    BY DEF PendingIsFirst
  <2>1. CASE w = v /\ e = event
    BY <1>1, <1>2, <1>3, <1>5, <1>6, <1>7, <2>1
  <2>2. CASE e \in pending[w]
    <3>1. w \in Node /\ e.alert \in Alert /\ (w = v => e.alert # f.alert)
      BY <1>4, <1>6, <2>2 DEF Node, EventType, GeoAlert
    <3>2. /\ handled[w][e.alert] = 1 /\ sent[w][e.alert] = 0 /\ registry[w][e.alert] = e.id
          /\ \A d \in pending[w] : d.alert = e.alert => d = e
      BY <2>2 DEF OnceInv, PendingIsFirst
    <3> QED BY <1>1, <1>2, <1>3, <1>5, <1>7, <3>1, <3>2
  <2> QED BY <1>7, <2>1, <2>2
<1> QED BY <1>1, <1>8

LEMMA CancelDeferredOnce ==
    ASSUME OnceInv, NEW v \in Vehicle, NEW f \in air, CancelDeferred(v, f)
    PROVE  HandledIsStored' /\ KnownIsProduced' /\ PendingIsFirst' /\ SentIsHandled'
<1>1. UNCHANGED <<store, handled, sent, produced>> /\ air' \subseteq air
  BY DEF CancelDeferred, historyVars
<1>2. HandledIsStored' /\ KnownIsProduced' /\ SentIsHandled'
  BY <1>1 DEF OnceInv, HandledIsStored, KnownIsProduced, SentIsHandled
<1>3. /\ v \in Node /\ f.alert \in Alert
      /\ pending \in [Node -> SUBSET EventType]
      /\ registry \in [Node -> [Alert -> Nat \cup {NoEvent}]]
  BY DEF OnceInv, TypeOK, CancelDeferred, GeoAlert, Node
<1>4. \A w \in Vehicle : pending'[w] \subseteq pending[w]
  BY <1>3 DEF CancelDeferred, Node
<1>5. \A e \in pending'[v] : e.alert # f.alert
  BY <1>3 DEF CancelDeferred, OnceInv, PendingIsFirst
<1>6. \A w \in Node, b \in Alert : w # v \/ b # f.alert => registry'[w][b] = registry[w][b]
  BY <1>3 DEF CancelDeferred, Erase
<1>7. PendingIsFirst'
  <2> SUFFICES ASSUME NEW w \in Vehicle, NEW e \in pending'[w]
               PROVE  registry'[w][e.alert] = registry[w][e.alert]
    BY <1>1, <1>4 DEF OnceInv, PendingIsFirst
  <2>1. w \in Node /\ e.alert \in Alert
    BY <1>3, <1>4 DEF Node, EventType, GeoAlert
  <2> QED BY <1>5, <1>6, <2>1
<1> QED BY <1>2, <1>7

LEMMA FireOnce ==
    ASSUME OnceInv, NEW v \in Vehicle, NEW e \in pending[v], Fire(v, e)
    PROVE  HandledIsStored' /\ KnownIsProduced' /\ PendingIsFirst' /\ SentIsHandled'
<1>1. /\ v \in Node /\ e.alert \in GeoAlert /\ e.alert \in Alert
      /\ pending \in [Node -> SUBSET EventType]
      /\ registry \in [Node -> [Alert -> Nat \cup {NoEvent}]]
      /\ sent \in [Node -> [Alert -> Nat]]
  BY DEF OnceInv, TypeOK, EventType, GeoAlert, Node
<1>2. /\ handled[v][e.alert] = 1 /\ sent[v][e.alert] = 0
      /\ \A d \in pending[v] : d.alert = e.alert => d = e
  BY DEF OnceInv, PendingIsFirst
<1>3. /\ sent'[v][e.alert] = 1
      /\ \A m \in Node, b \in Alert : m # v \/ b # e.alert => sent'[m][b] = sent[m][b]
  BY <1>1, <1>2 DEF Fire, CountSent
<1>4. HandledIsStored' /\ UNCHANGED <<handled, produced>>
  BY DEF Fire, OnceInv, HandledIsStored
<1>5. KnownIsProduced'
  <2>1. e.alert \in produced
    BY <1>1, <1>2 DEF OnceInv, KnownIsProduced
  <2>2. \A f \in air' : f \in air \/ f.alert = e.alert
    BY BroadcastAlert DEF Fire
  <2> QED BY <1>4, <2>1, <2>2, TakenKnown
<1>6. SentIsHandled'
  <2> SUFFICES ASSUME NEW m \in Node, NEW b \in GeoAlert PROVE sent'[m][b] <= handled[m][b]
    BY <1>4 DEF SentIsHandled
  <2>1. b \in Alert /\ sent[m][b] <= handled[m][b]
    BY DEF OnceInv, SentIsHandled, GeoAlert
  <2> QED BY <1>2, <1>3, <2>1
<1>7. /\ pending'[v] = pending[v] \ {e}
      /\ \A w \in Vehicle : pending'[w] \subseteq pending[w]
      /\ \A w \in Node, b \in Alert : w # v \/ b # e.alert => registry'[w][b] = registry[w][b]
  BY <1>1 DEF Fire, Erase, Node
<1>8. PendingIsFirst'
  <2> SUFFICES ASSUME NEW w \in Vehicle, NEW d \in pending'[w]
               PROVE  sent'[w][d.alert] = sent[w][d.alert] /\ registry'[w][d.alert] = registry[w][d.alert]
    BY <1>4, <1>7 DEF OnceInv, PendingIsFirst
  <2>1. w \in Node /\ d.alert \in Alert
    BY <1>1, <1>7 DEF Node, EventType, GeoAlert
  <2>2. w # v \/ d.alert # e.alert
    BY <1>2, <1>7
  <2> QED BY <1>3, <1>7, <2>1, <2>2
<1> QED BY <1>4, <1>5, <1>6, <1>8

-----------------------------------------------------------------------------
(***************************************************************************)
(* The invariant is inductive.                                             *)
(***************************************************************************)
LEMMA OnceInit == Init => OnceInv
<1> SUFFICES ASSUME Init PROVE OnceInv
  OBVIOUS
<1>1. TypeOK
  BY TypeInit
<1>2. HandledIsStored
  BY DEF Init, HandledIsStored, Distinct, IsDuplicate, StoredAlerts, GeoAlert
<1>3. KnownIsProduced
  BY DEF Init, KnownIsProduced, GeoAlert
<1>4. PendingIsFirst
  BY DEF Init, PendingIsFirst, Node
<1>5. SentIsHandled
  BY DEF Init, SentIsHandled, GeoAlert
<1> QED BY <1>1, <1>2, <1>3, <1>4, <1>5 DEF OnceInv

\* Sending an alert, by the kind of its producer and of its zone.
LEMMA ProduceOnce ==
    ASSUME NoOverflow, OnceInv, NEW a \in Alert, Produce(a)
    PROVE  HandledIsStored' /\ KnownIsProduced' /\ PendingIsFirst' /\ SentIsHandled'
<1> DEFINE n == Producer[a]
<1>1. a \notin produced /\ produced' = produced \cup {a}
  BY DEF Produce
<1>2. CASE a \in GeoAlert /\ n \in Vehicle /\ ProduceOnVehicle(n, a)
  BY <1>1, <1>2, ProduceOnVehicleOnce
<1>3. CASE a \in GeoAlert /\ n \in Rsu /\ ProduceOnRsu(n, a)
  BY <1>1, <1>3, RsuHandlerOnce DEF ProduceOnRsu
<1>4. CASE ProduceForNeighbors(n, a)
  <2>1. \A f \in air' : f \in air \/ f.alert = a
    BY <1>4, BroadcastAlert DEF ProduceForNeighbors, Packet
  <2>2. \A f \in air' : f.alert \in produced'
    BY <1>1, <2>1 DEF OnceInv, KnownIsProduced
  <2> QED BY <1>1, <1>4, <2>2, QuietStep DEF ProduceForNeighbors, contextVars, historyVars
<1>5. CASE ProduceLocally(n, a)
  BY <1>1, <1>5, QuietStep DEF ProduceLocally, contextVars, OnceInv, KnownIsProduced
<1> QED BY <1>2, <1>3, <1>4, <1>5 DEF Produce

LEMMA OnceStep ==
    ASSUME NoOverflow, OnceInv, [Next]_vars
    PROVE  OnceInv'
<1> DEFINE Kept == HandledIsStored' /\ KnownIsProduced' /\ PendingIsFirst' /\ SentIsHandled'
<1>1. SUFFICES Kept
  BY TypeStep DEF OnceInv
<1>2. ASSUME UNCHANGED <<store, registry, pending, handled, sent, produced>>, air' \subseteq air
      PROVE  Kept
  BY <1>2, QuietStep DEF OnceInv, KnownIsProduced
<1>3. CASE \E a \in Alert : Produce(a)
  BY <1>3, ProduceOnce
<1>4. CASE \E v \in Vehicle : \E f \in air : VehicleReceive(v, f)
  <2>1. PICK v \in Vehicle, f \in air : VehicleReceive(v, f)
    BY <1>4
  <2>2. CASE VehicleDropDuplicate(v, f) \/ ReceiveFromNeighbor(v, f)
    BY <1>2, <2>2 DEF VehicleDropDuplicate, ReceiveFromNeighbor, contextVars, historyVars
  <2> QED BY <2>1, <2>2, CancelDeferredOnce, DropMovingAwayOnce, DeferOnce DEF VehicleReceive
<1>5. CASE \E r \in Rsu : \E f \in air : RsuReceives(r, f)
  <2>1. PICK r \in Rsu, f \in air : RsuReceives(r, f)
    BY <1>5
  <2>2. CASE RsuReceive(r, f)
    <3>1. f.alert \in GeoAlert /\ f.alert \in produced /\ produced' = produced
      BY <2>1, <2>2 DEF RsuReceive, OnceInv, KnownIsProduced
    <3> QED BY <2>2, <3>1, RsuHandlerOnce DEF RsuReceive
  <2>3. CASE RsuDropDuplicate(r, f) \/ ReceiveFromNeighbor(r, f)
    BY <1>2, <2>3 DEF RsuDropDuplicate, ReceiveFromNeighbor, contextVars, historyVars
  <2> QED BY <2>1, <2>2, <2>3 DEF RsuReceives
<1>6. CASE \E v \in Vehicle : \E e \in pending[v] : Fire(v, e)
  BY <1>6, FireOnce
<1>7. CASE \E v \in Vehicle : HelloHeard(v) \/ HelloTimeout(v) \/ Move(v)
  BY <1>2, <1>7 DEF HelloHeard, HelloTimeout, Move, contextVars, historyVars
<1>8. CASE \E f \in air : Lose(f)
  BY <1>2, <1>8 DEF Lose, contextVars, historyVars
<1>9. CASE UNCHANGED vars
  BY <1>2, <1>9 DEF vars
<1> QED BY <1>3, <1>4, <1>5, <1>6, <1>7, <1>8, <1>9 DEF Next

\* Whoever has handled an alert once at most has transmitted it once at most.
LEMMA OnceImplies == OnceInv => TransmitsAtMostOnce /\ PendingIsRegistered
<1> SUFFICES ASSUME OnceInv PROVE TransmitsAtMostOnce /\ PendingIsRegistered
  OBVIOUS
<1>1. ASSUME NEW n \in Node, NEW a \in GeoAlert PROVE sent[n][a] <= 1
  <2>1. /\ sent[n][a] \in Nat
        /\ sent[n][a] <= handled[n][a]
        /\ handled[n][a] = IF IsDuplicate(store[n], a) THEN 1 ELSE 0
    BY DEF OnceInv, TypeOK, SentIsHandled, HandledIsStored, GeoAlert
  <2> QED BY <2>1
<1>2. PendingIsRegistered
  BY DEF OnceInv, PendingIsFirst, PendingIsRegistered
<1> QED BY <1>1, <1>2 DEF TransmitsAtMostOnce

(* No broadcast storm: in every network whose nodes have room for all alerts,
   in whatever order packets, timers, losses, hello messages and movements
   come, no node broadcasts an alert twice. *)
THEOREM TransmitsOnce ==
    ASSUME NoOverflow
    PROVE  Spec => []TransmitsAtMostOnce
<1>1. OnceInv /\ [Next]_vars => OnceInv'
  BY OnceStep
<1>2. QED BY <1>1, OnceInit, OnceImplies, PTL DEF Spec

(* In such a network every scheduled transmission is the one registered for
   its alert, so that a copy overheard in time can still cancel it. *)
THEOREM PendingRegistered ==
    ASSUME NoOverflow
    PROVE  Spec => []PendingIsRegistered
<1>1. OnceInv /\ [Next]_vars => OnceInv'
  BY OnceStep
<1>2. QED BY <1>1, OnceInit, OnceImplies, PTL DEF Spec

-----------------------------------------------------------------------------
(***************************************************************************)
(* What holds of CafForwarder as long as nobody moves and no store         *)
(* overflows.  A decision is then made once, when a node takes the alert   *)
(* for new, and the position and the first sender it was made on stay what *)
(* they were: the store keeps an entry's first sender, and there is no     *)
(* second decision.                                                        *)
(***************************************************************************)

NobodyMoves == Mobile = {}

\* Distances are numbers (those of the code are doubles, and never NaN).
DistancesAreNumbers ==
    \A a \in GeoAlert, p \in Position : DistanceToBoundary(a, p) \in Int

-----------------------------------------------------------------------------
(***************************************************************************)
(* The store, when a node takes an alert for new.                          *)
(***************************************************************************)

\* A new entry goes to the front, and nothing leaves at the back.
LEMMA InsertInFront ==
    ASSUME NoOverflow, NEW s \in Seq(EntryType), Distinct(s),
           NEW entry \in EntryType, ~IsDuplicate(s, entry.alert)
    PROVE  InsertOrUpdate(s, entry, StoreSize) = <<entry>> \o s
<1>1. entry.alert \in GeoAlert
  BY DEF EntryType
<1>2. Len(s) < StoreSize /\ Len(s) \in Nat /\ Len(<<entry>> \o s) = Len(s) + 1
  BY <1>1, StoreHasRoom
<1> QED BY <1>2, ForwarderAssumption DEF InsertOrUpdate

\* It is found under its alert, and the others as before.
LEMMA GetAfterInsert ==
    ASSUME NoOverflow, NEW s \in Seq(EntryType), Distinct(s),
           NEW entry \in EntryType, ~IsDuplicate(s, entry.alert)
    PROVE  LET t == InsertOrUpdate(s, entry, StoreSize)
           IN  /\ Get(t, entry.alert) = entry
               /\ \A a : IsDuplicate(s, a) => Get(t, a) = Get(s, a)
<1> DEFINE t == <<entry>> \o s
<1>1. InsertOrUpdate(s, entry, StoreSize) = t
  BY InsertInFront
<1>2. Distinct(t) /\ \A a : IsDuplicate(t, a) <=> a = entry.alert \/ IsDuplicate(s, a)
  BY <1>1, InsertNew
<1>3. t \in Seq(EntryType) /\ Len(t) = Len(s) + 1 /\ t[1] = entry
  OBVIOUS
<1>4. \A i \in 1 .. Len(s) : t[i + 1] = s[i]
  OBVIOUS
<1> HIDE DEF t
<1>5. Get(t, entry.alert) = entry
  <2>1. IndexOf(t, entry.alert) \in DOMAIN t /\ t[IndexOf(t, entry.alert)].alert = entry.alert
    BY <1>2, IndexOfStored
  <2>2. IndexOf(t, entry.alert) = 1
    BY <1>2, <1>3, <2>1 DEF Distinct
  <2> QED BY <1>3, <2>2 DEF Get
<1>6. ASSUME NEW a, IsDuplicate(s, a) PROVE Get(t, a) = Get(s, a)
  <2> DEFINE i == IndexOf(s, a)
             j == IndexOf(t, a)
  <2>1. i \in DOMAIN s /\ s[i].alert = a
    BY <1>6, IndexOfStored
  <2>2. j \in DOMAIN t /\ t[j].alert = a
    BY <1>2, <1>6, IndexOfStored
  <2> HIDE DEF i, j
  <2>3. i + 1 \in DOMAIN t /\ t[i + 1] = s[i]
    BY <1>3, <1>4, <2>1
  <2>4. j = i + 1
    BY <1>2, <2>1, <2>2, <2>3 DEF Distinct
  <2> QED BY <2>3, <2>4 DEF Get, i, j
<1> QED BY <1>1, <1>5, <1>6

\* The same, of the node that takes the alert and of all others.
LEMMA RememberNew ==
    ASSUME NoOverflow, OnceInv, NEW n \in Node, NEW entry \in EntryType,
           ~IsDuplicate(store[n], entry.alert), Remember(n, entry)
    PROVE  /\ Get(store'[n], entry.alert) = entry
           /\ \A a : IsDuplicate(store'[n], a) <=> a = entry.alert \/ IsDuplicate(store[n], a)
           /\ \A a : IsDuplicate(store[n], a) => Get(store'[n], a) = Get(store[n], a)
           /\ \A m \in Node : m # n => store'[m] = store[m]
<1>1. store \in [Node -> Seq(EntryType)] /\ Distinct(store[n])
  BY DEF OnceInv, TypeOK, EntryType, HandledIsStored
<1>2. store'[n] = InsertOrUpdate(store[n], entry, StoreSize)
      /\ \A m \in Node : m # n => store'[m] = store[m]
  BY <1>1 DEF Remember
<1>3. store[n] \in Seq(EntryType)
  BY <1>1
<1> QED BY <1>1, <1>2, <1>3, InsertNew, GetAfterInsert

-----------------------------------------------------------------------------
(***************************************************************************)
(* Direction.                                                              *)
(***************************************************************************)

\* What NeverMovesAway says of one transmission.
KeepsDirection(v, e, from) ==
    ~ZoRContains(e.alert, pos[v]) =>
        /\ ~ZoRContains(e.alert, from)
        /\ DistanceToBoundary(e.alert, pos[v]) <= DistanceToBoundary(e.alert, from)

\* An alert with a pending transmission is in the store.
LEMMA PendingIsStored ==
    ASSUME OnceInv, NEW v \in Vehicle, NEW e \in pending[v]
    PROVE  v \in Node /\ e.alert \in GeoAlert /\ IsDuplicate(store[v], e.alert)
<1>1. v \in Node /\ e.alert \in GeoAlert
  BY DEF OnceInv, TypeOK, EventType, Node
<1>2. handled[v][e.alert] = 1
  BY DEF OnceInv, PendingIsFirst
<1> QED BY <1>1, <1>2 DEF OnceInv, HandledIsStored

\* Steps that schedule nothing and at most store a new alert.
LEMMA DirectionKept ==
    ASSUME OnceInv, NeverMovesAway, UNCHANGED pos,
           \A v \in Vehicle : pending'[v] \subseteq pending[v],
           \A v \in Vehicle : \A a :
              IsDuplicate(store[v], a) => Get(store'[v], a) = Get(store[v], a)
    PROVE  NeverMovesAway'
BY PendingIsStored DEF NeverMovesAway

LEMMA DeferDirection ==
    ASSUME NoOverflow, DistancesAreNumbers, OnceInv, NeverMovesAway,
           NEW v \in Vehicle, NEW f \in air, Defer(v, f)
    PROVE  NeverMovesAway'
<1> DEFINE event == Deferred(v, f)
           entry == StoreEntry(f.alert, f.senderType, f.senderPos)
<1>1. /\ v \in Node /\ f.alert \in GeoAlert /\ f.senderPos \in Position /\ pos[v] \in Position
      /\ entry \in EntryType /\ entry.alert = f.alert /\ entry.senderPos = f.senderPos
      /\ pending \in [Node -> SUBSET EventType]
  BY DEF Defer, TakeNew, Node, OnceInv, TypeOK, PacketType, StoreEntry, EntryType
<1>2. Remember(v, entry) /\ ~IsDuplicate(store[v], f.alert)
  BY DEF Defer, TakeNew
<1>3. pos' = pos /\ pending' = [pending EXCEPT ![v] = @ \cup {event}] /\ event.alert = f.alert
  BY DEF Defer, Deferred
<1> HIDE DEF event, entry
<1>4. /\ Get(store'[v], f.alert) = entry
      /\ \A a : IsDuplicate(store[v], a) => Get(store'[v], a) = Get(store[v], a)
      /\ \A m \in Node : m # v => store'[m] = store[m]
  BY <1>1, <1>2, RememberNew
<1>5. KeepsDirection(v, event, f.senderPos)
  BY <1>1, <1>3 DEF KeepsDirection, DistancesAreNumbers, Defer, SenderCloser
<1>6. SUFFICES ASSUME NEW w \in Vehicle, NEW e \in pending'[w]
               PROVE  KeepsDirection(w, e, Get(store'[w], e.alert).senderPos)
  BY <1>3 DEF NeverMovesAway, KeepsDirection
<1>7. CASE w = v /\ e = event
  BY <1>1, <1>3, <1>4, <1>5, <1>7
<1>8. CASE e \in pending[w]
  <2>1. w \in Node /\ IsDuplicate(store[w], e.alert)
    BY <1>8, PendingIsStored
  <2>2. Get(store'[w], e.alert) = Get(store[w], e.alert)
    BY <1>4, <2>1
  <2> QED BY <1>8, <2>2 DEF NeverMovesAway, KeepsDirection
<1> QED BY <1>1, <1>3, <1>7, <1>8 DEF Node

\* Storing a new alert leaves every entry with a pending transmission alone.
LEMMA StoredIsKept ==
    ASSUME NoOverflow, OnceInv, NEW n \in Node, NEW entry \in EntryType,
           ~IsDuplicate(store[n], entry.alert), Remember(n, entry)
    PROVE  \A v \in Vehicle : \A a :
              IsDuplicate(store[v], a) => Get(store'[v], a) = Get(store[v], a)
BY RememberNew DEF Node

\* A producing vehicle does not know its own alert before.
LEMMA ProducerIsNew ==
    ASSUME OnceInv, NEW n \in Node, NEW a \in GeoAlert, a \notin produced
    PROVE  ~IsDuplicate(store[n], a)
BY DEF OnceInv, KnownIsProduced, HandledIsStored

LEMMA DirectionStep ==
    ASSUME NoOverflow, NobodyMoves, DistancesAreNumbers,
           OnceInv, NeverMovesAway, [Next]_vars
    PROVE  NeverMovesAway'
<1>0. pending \in [Node -> SUBSET EventType] /\ Vehicle \subseteq Node
  BY DEF OnceInv, TypeOK, Node
<1>1. ASSUME UNCHANGED <<pos, store>>, \A v \in Vehicle : pending'[v] \subseteq pending[v]
      PROVE  NeverMovesAway'
  BY <1>1, DirectionKept
<1>2. ASSUME NEW r \in Rsu, NEW a \in GeoAlert, NEW tag, NEW arrived,
             RsuHandler(r, a, tag, arrived)
      PROVE  NeverMovesAway'
  <2>1. r \in Node /\ StoreEntry(a, "NONE", NoPosition) \in EntryType
    BY DEF Node, StoreEntry, EntryType
  <2>2. \A v \in Vehicle : \A b :
           IsDuplicate(store[v], b) => Get(store'[v], b) = Get(store[v], b)
    BY <1>2, <2>1, StoredIsKept DEF RsuHandler, StoreEntry
  <2> QED BY <1>2, <2>2, DirectionKept DEF RsuHandler
<1>3. CASE \E a \in Alert : Produce(a)
  <2>1. PICK a \in Alert : Produce(a)
    BY <1>3
  <2> DEFINE n == Producer[a]
  <2>2. CASE a \in GeoAlert /\ n \in Vehicle /\ ProduceOnVehicle(n, a)
    <3>1. n \in Node /\ ~IsDuplicate(store[n], a)
      BY <1>0, <2>1, <2>2, ProducerIsNew DEF Produce
    <3>2. StoreEntry(a, "VEHICLE", pos[n]) \in EntryType
      BY <2>2, <3>1 DEF StoreEntry, EntryType, OnceInv, TypeOK
    <3>3. \A v \in Vehicle : \A b :
             IsDuplicate(store[v], b) => Get(store'[v], b) = Get(store[v], b)
      BY <2>2, <3>1, <3>2, StoredIsKept DEF ProduceOnVehicle, StoreEntry
    <3> QED BY <2>2, <3>3, DirectionKept DEF ProduceOnVehicle
  <2>3. CASE a \in GeoAlert /\ n \in Rsu /\ ProduceOnRsu(n, a)
    BY <1>2, <2>3 DEF ProduceOnRsu
  <2>4. CASE ProduceForNeighbors(n, a) \/ ProduceLocally(n, a)
    BY <1>1, <2>4 DEF ProduceForNeighbors, ProduceLocally, contextVars
  <2> QED BY <2>1, <2>2, <2>3, <2>4 DEF Produce
<1>4. CASE \E v \in Vehicle : \E f \in air : VehicleReceive(v, f)
  <2>1. PICK v \in Vehicle, f \in air : VehicleReceive(v, f)
    BY <1>4
  <2>2. CASE CancelDeferred(v, f)
    <3>1. \A w \in Vehicle : pending'[w] \subseteq pending[w]
      BY <1>0, <2>2 DEF CancelDeferred
    <3> QED BY <1>1, <2>2, <3>1 DEF CancelDeferred
  <2>3. CASE VehicleDropDuplicate(v, f) \/ ReceiveFromNeighbor(v, f)
    BY <1>1, <2>3 DEF VehicleDropDuplicate, ReceiveFromNeighbor, contextVars
  <2>4. CASE DropMovingAway(v, f)
    <3>1. StoreEntry(f.alert, f.senderType, f.senderPos) \in EntryType
      BY <2>4 DEF DropMovingAway, TakeNew, OnceInv, TypeOK, PacketType, StoreEntry, EntryType
    <3>2. \A w \in Vehicle : \A b :
             IsDuplicate(store[w], b) => Get(store'[w], b) = Get(store[w], b)
      BY <1>0, <2>4, <3>1, StoredIsKept DEF DropMovingAway, TakeNew, StoreEntry
    <3> QED BY <2>4, <3>2, DirectionKept DEF DropMovingAway
  <2> QED BY <2>1, <2>2, <2>3, <2>4, DeferDirection DEF VehicleReceive
<1>5. CASE \E r \in Rsu : \E f \in air : RsuReceives(r, f)
  BY <1>1, <1>2, <1>5
     DEF RsuReceives, RsuReceive, RsuDropDuplicate, ReceiveFromNeighbor, contextVars
<1>6. CASE \E v \in Vehicle : \E e \in pending[v] : Fire(v, e)
  <2>1. PICK v \in Vehicle : \E e \in pending[v] : Fire(v, e)
    BY <1>6
  <2>2. \A w \in Vehicle : pending'[w] \subseteq pending[w]
    BY <1>0, <2>1 DEF Fire
  <2> QED BY <1>1, <2>1, <2>2 DEF Fire
<1>7. CASE \E v \in Vehicle : HelloHeard(v) \/ HelloTimeout(v) \/ Move(v)
  BY <1>1, <1>7 DEF HelloHeard, HelloTimeout, Move, NobodyMoves, contextVars
<1>8. CASE \E f \in air : Lose(f)
  BY <1>1, <1>8 DEF Lose, contextVars
<1>9. CASE UNCHANGED vars
  BY <1>1, <1>9 DEF vars
<1> QED BY <1>3, <1>4, <1>5, <1>6, <1>7, <1>8, <1>9 DEF Next

(* Prevented from moving away from the ZoR: in every network that stands
   still, no vehicle outside the ZoR has a transmission scheduled of an alert
   it got from a sender inside it, or closer to it than itself. *)
THEOREM AlertsKeepDirection ==
    ASSUME NoOverflow, NobodyMoves, DistancesAreNumbers
    PROVE  Spec => []NeverMovesAway
<1>1. Init => NeverMovesAway
  BY DEF Init, NeverMovesAway, Node
<1>2. OnceInv /\ NeverMovesAway /\ [Next]_vars => OnceInv' /\ NeverMovesAway'
  BY OnceStep, DirectionStep
<1>3. QED BY <1>1, <1>2, OnceInit, PTL DEF Spec

-----------------------------------------------------------------------------
(***************************************************************************)
(* Delivery.                                                               *)
(***************************************************************************)

\* A node decides whether an alert is for its applications when it takes it.
LEMMA DecidedWhenTaken ==
    ASSUME NoOverflow, OnceInv, SeenInsideIsDelivered, UNCHANGED pos,
           NEW n \in Node, NEW entry \in EntryType,
           ~IsDuplicate(store[n], entry.alert), Remember(n, entry),
           CountRelevant(n, entry.alert, ZoRContains(entry.alert, pos[n]))
    PROVE  SeenInsideIsDelivered'
<1>1. /\ entry.alert \in GeoAlert /\ entry.alert \in Alert
      /\ relevant \in [Node -> [Alert -> Nat]]
  BY DEF EntryType, GeoAlert, OnceInv, TypeOK
<1>2. /\ \A a : IsDuplicate(store'[n], a) <=> a = entry.alert \/ IsDuplicate(store[n], a)
      /\ \A m \in Node : m # n => store'[m] = store[m]
  BY RememberNew
<1>3. relevant[n][entry.alert] = 0
  BY <1>1 DEF SeenInsideIsDelivered
<1>4. /\ relevant'[n][entry.alert] = IF ZoRContains(entry.alert, pos[n]) THEN 1 ELSE 0
      /\ \A m \in Node, b \in Alert :
            m # n \/ b # entry.alert => relevant'[m][b] = relevant[m][b]
  BY <1>1, <1>3 DEF CountRelevant
<1> SUFFICES ASSUME NEW m \in Node, NEW a \in GeoAlert
             PROVE  relevant'[m][a] =
                       IF IsDuplicate(store'[m], a) /\ ZoRContains(a, pos[m]) THEN 1 ELSE 0
  BY DEF SeenInsideIsDelivered, IsDuplicate, StoredAlerts
<1>5. CASE m = n /\ a = entry.alert
  BY <1>2, <1>4, <1>5
<1>6. CASE m = n /\ a # entry.alert
  BY <1>2, <1>4, <1>6 DEF SeenInsideIsDelivered, GeoAlert
<1>7. CASE m # n
  BY <1>2, <1>4, <1>7 DEF SeenInsideIsDelivered, GeoAlert
<1> QED BY <1>5, <1>6, <1>7

\* Steps that take no alert for new, and count none with an area.
LEMMA DeliveryKept ==
    ASSUME SeenInsideIsDelivered, UNCHANGED <<pos, store>>,
           \A n \in Node, a \in GeoAlert : relevant'[n][a] = relevant[n][a]
    PROVE  SeenInsideIsDelivered'
BY DEF SeenInsideIsDelivered, IsDuplicate, StoredAlerts

LEMMA DeliveryStep ==
    ASSUME NoOverflow, NobodyMoves, OnceInv, SeenInsideIsDelivered, [Next]_vars
    PROVE  SeenInsideIsDelivered'
<1>0. /\ relevant \in [Node -> [Alert -> Nat]]
      /\ Vehicle \subseteq Node /\ Rsu \subseteq Node
      /\ \A v \in Vehicle : pos[v] \in Position
  BY DEF OnceInv, TypeOK, Node
<1>1. ASSUME UNCHANGED <<pos, store, relevant>> PROVE SeenInsideIsDelivered'
  BY <1>1, DeliveryKept
<1>2. ASSUME NEW r \in Rsu, NEW a \in GeoAlert, NEW tag, NEW arrived,
             RsuHandler(r, a, tag, arrived)
      PROVE  SeenInsideIsDelivered'
  <2> DEFINE entry == StoreEntry(a, "NONE", NoPosition)
  <2>1. entry \in EntryType /\ entry.alert = a /\ r \in Node
    BY <1>0 DEF StoreEntry, EntryType
  <2>2. /\ ~IsDuplicate(store[r], a) /\ Remember(r, entry) /\ UNCHANGED pos
        /\ CountRelevant(r, a, ZoRContains(a, pos[r]))
    BY <1>2 DEF RsuHandler
  <2> HIDE DEF entry
  <2> QED BY <2>1, <2>2, DecidedWhenTaken
<1>3. ASSUME NEW n \in Node, NEW f \in air, ReceiveFromNeighbor(n, f)
      PROVE  SeenInsideIsDelivered'
  <2>1. f.alert \in Alert /\ f.alert \notin GeoAlert
    BY <1>3, ForwarderAssumption DEF ReceiveFromNeighbor, GeoAlert
  <2>2. \A m \in Node, a \in GeoAlert : relevant'[m][a] = relevant[m][a]
    BY <1>0, <1>3, <2>1 DEF ReceiveFromNeighbor, CountRelevant, GeoAlert
  <2> QED BY <1>3, <2>2, DeliveryKept DEF ReceiveFromNeighbor, contextVars
<1>4. CASE \E a \in Alert : Produce(a)
  <2>1. PICK a \in Alert : Produce(a)
    BY <1>4
  <2> DEFINE n == Producer[a]
  <2>2. CASE a \in GeoAlert /\ n \in Vehicle /\ ProduceOnVehicle(n, a)
    <3> DEFINE entry == StoreEntry(a, "VEHICLE", pos[n])
    <3>1. entry \in EntryType /\ entry.alert = a /\ n \in Node
      BY <1>0, <2>2 DEF StoreEntry, EntryType
    <3>2. ~IsDuplicate(store[n], a)
      BY <2>1, <2>2, <3>1, ProducerIsNew DEF Produce
    <3>3. /\ Remember(n, entry) /\ UNCHANGED pos
          /\ CountRelevant(n, a, ZoRContains(a, pos[n]))
      BY <2>2 DEF ProduceOnVehicle
    <3> HIDE DEF entry
    <3> QED BY <3>1, <3>2, <3>3, DecidedWhenTaken
  <2>3. CASE a \in GeoAlert /\ n \in Rsu /\ ProduceOnRsu(n, a)
    BY <1>2, <2>3 DEF ProduceOnRsu
  <2>4. CASE ProduceForNeighbors(n, a)
    BY <1>1, <2>4 DEF ProduceForNeighbors, contextVars, historyVars
  <2>5. CASE a \in ZoRLess /\ ProduceLocally(n, a)
    <3>1. n \in Node /\ a \notin GeoAlert
      BY <2>5, ForwarderAssumption DEF GeoAlert
    <3>2. \A m \in Node, b \in GeoAlert : relevant'[m][b] = relevant[m][b]
      BY <1>0, <2>5, <3>1 DEF ProduceLocally, CountRelevant, GeoAlert
    <3> QED BY <2>5, <3>2, DeliveryKept DEF ProduceLocally, contextVars
  <2> QED BY <2>1, <2>2, <2>3, <2>4, <2>5 DEF Produce
<1>5. CASE \E v \in Vehicle : \E f \in air : VehicleReceive(v, f)
  <2>1. PICK v \in Vehicle, f \in air : VehicleReceive(v, f)
    BY <1>5
  <2> DEFINE entry == StoreEntry(f.alert, f.senderType, f.senderPos)
  <2>2. CASE TakeNew(v, f) /\ UNCHANGED pos
             /\ CountRelevant(v, f.alert, ZoRContains(f.alert, pos[v]))
    <3>1. entry \in EntryType /\ entry.alert = f.alert /\ v \in Node
      BY <1>0, <2>2 DEF TakeNew, OnceInv, TypeOK, PacketType, StoreEntry, EntryType
    <3>2. Remember(v, entry) /\ ~IsDuplicate(store[v], f.alert)
      BY <2>2 DEF TakeNew
    <3> HIDE DEF entry
    <3> QED BY <2>2, <3>1, <3>2, DecidedWhenTaken
  <2>3. CASE Defer(v, f)
    BY <2>2, <2>3 DEF Defer
  <2>4. CASE DropMovingAway(v, f)
    BY <2>2, <2>4 DEF DropMovingAway, SenderCloser, CountRelevant
  <2>5. CASE CancelDeferred(v, f) \/ VehicleDropDuplicate(v, f)
    BY <1>1, <2>5 DEF CancelDeferred, VehicleDropDuplicate, contextVars, historyVars
  <2> QED BY <1>0, <1>3, <2>1, <2>3, <2>4, <2>5 DEF VehicleReceive
<1>6. CASE \E r \in Rsu : \E f \in air : RsuReceives(r, f)
  <2>1. PICK r \in Rsu, f \in air : RsuReceives(r, f)
    BY <1>6
  <2>2. CASE RsuReceive(r, f)
    BY <1>2, <2>2 DEF RsuReceive
  <2>3. CASE RsuDropDuplicate(r, f)
    BY <1>1, <2>3 DEF RsuDropDuplicate, contextVars, historyVars
  <2> QED BY <1>0, <1>3, <2>1, <2>2, <2>3 DEF RsuReceives
<1>7. CASE \E v \in Vehicle : \E e \in pending[v] : Fire(v, e)
  BY <1>1, <1>7 DEF Fire
<1>8. CASE \E v \in Vehicle : HelloHeard(v) \/ HelloTimeout(v) \/ Move(v)
  BY <1>1, <1>8 DEF HelloHeard, HelloTimeout, Move, NobodyMoves, contextVars, historyVars
<1>9. CASE \E f \in air : Lose(f)
  BY <1>1, <1>9 DEF Lose, contextVars, historyVars
<1>10. CASE UNCHANGED vars
  BY <1>1, <1>10 DEF vars
<1> QED BY <1>4, <1>5, <1>6, <1>7, <1>8, <1>9, <1>10 DEF Next

(* Marking an alert as seen never costs a node its delivery: in every network
   that stands still, whoever remembers an alert has passed it to its
   applications exactly once if it is inside the ZoR, and not at all if not. *)
THEOREM SeenIsDelivered ==
    ASSUME NoOverflow, NobodyMoves
    PROVE  Spec => []SeenInsideIsDelivered
<1>1. Init => SeenInsideIsDelivered
  BY DEF Init, SeenInsideIsDelivered, IsDuplicate, StoredAlerts, GeoAlert
<1>2. OnceInv /\ SeenInsideIsDelivered /\ [Next]_vars => OnceInv' /\ SeenInsideIsDelivered'
  BY OnceStep, DeliveryStep
<1>3. QED BY <1>1, <1>2, OnceInit, PTL DEF Spec

-----------------------------------------------------------------------------
(***************************************************************************)
(* CafForwarder implements Geocast, as long as no store overflows: every   *)
(* step that answers "relevant" to an application is a step in which       *)
(* Geocast hands that alert to that node, and every other step is one it   *)
(* does not notice.  Nodes may move, hellos come and go, packets be lost.  *)
(***************************************************************************)

\* A link connects two RSUs, not one with itself.
NoLoops == \A r \in Rsu : r \notin BackbonePeers(r)

\* An alert with an area is decided about when the store takes it.
UnseenUndelivered ==
    \A n \in Node, a \in GeoAlert : ~IsDuplicate(store[n], a) => relevant[n][a] = 0

DeliveredIsProduced ==
    \A n \in Node, a \in Alert : relevant[n][a] # 0 => a \in produced

\* Of an alert for the neighbours, one copy travels to each of them.
OneCopyEach ==
    \A f \in air : f.alert \in NeighborAlert =>
        /\ f.to # Producer[f.alert]
        /\ relevant[f.to][f.alert] = 0
        /\ \A g \in air : g.alert = f.alert /\ g.to = f.to => g = f

PromiseInv ==
    /\ OnceInv
    /\ UnseenUndelivered
    /\ DeliveredIsProduced
    /\ OneCopyEach

Kept == UnseenUndelivered' /\ DeliveredIsProduced' /\ OneCopyEach'

\* The step hands the alert to the node, or delivers nothing.
HandsOnly(n, a) == Promise!Hand(n, a) \/ UNCHANGED relevant

-----------------------------------------------------------------------------
(***************************************************************************)
(* What a step does to the history of deliveries.                          *)
(***************************************************************************)
LEMMA Counted ==
    ASSUME TypeOK, NEW n \in Node, NEW a \in Alert, NEW answer,
           relevant[n][a] = 0, CountRelevant(n, a, answer)
    PROVE  /\ relevant' = relevant \/ (answer /\ relevant' = [relevant EXCEPT ![n][a] = 1])
           /\ relevant'[n][a] # 0 => relevant' = [relevant EXCEPT ![n][a] = 1]
           /\ \A m \in Node, b \in Alert : m # n \/ b # a => relevant'[m][b] = relevant[m][b]
BY DEF TypeOK, CountRelevant

\* The first answer "relevant", where it is true, is a delivery of Geocast.
LEMMA FirstAnswer ==
    ASSUME TypeOK, NEW n \in Node, NEW a \in Alert, NEW answer,
           relevant[n][a] = 0, CountRelevant(n, a, answer),
           answer => Promise!Relevant(n, a)
    PROVE  HandsOnly(n, a)
BY Counted DEF HandsOnly, Promise!Hand

\* Steps that deliver nothing, and send no alert to neighbours.
LEMMA NothingDelivered ==
    ASSUME PromiseInv, UNCHANGED <<store, relevant>>, produced \subseteq produced',
           \A f \in air' : f \in air \/ f.alert \in GeoAlert
    PROVE  Kept
<1>1. UnseenUndelivered'
  BY DEF PromiseInv, UnseenUndelivered
<1>2. DeliveredIsProduced'
  BY DEF PromiseInv, DeliveredIsProduced
<1>3. \A f \in air' : f.alert \in NeighborAlert => f \in air
  BY DEF GeoAlert
<1>4. OneCopyEach'
  BY <1>3 DEF PromiseInv, OneCopyEach
<1> QED BY <1>1, <1>2, <1>4 DEF Kept

\* A node takes an alert with an area for new.
LEMMA TakenAnswered ==
    ASSUME NoOverflow, PromiseInv, NEW n \in Node, NEW entry \in EntryType, NEW answer,
           ~IsDuplicate(store[n], entry.alert), Remember(n, entry),
           CountRelevant(n, entry.alert, answer),
           answer => ZoRContains(entry.alert, pos[n]),
           produced \subseteq produced', entry.alert \in produced',
           \A f \in air' : f \in air \/ f.alert = entry.alert
    PROVE  Kept /\ HandsOnly(n, entry.alert)
<1> DEFINE a == entry.alert
<1>1. a \in GeoAlert /\ a \in Alert /\ OnceInv /\ TypeOK
  BY DEF EntryType, GeoAlert, PromiseInv, OnceInv
<1>2. relevant[n][a] = 0
  BY <1>1 DEF PromiseInv, UnseenUndelivered
<1>3. \A m \in Node, b \in Alert : m # n \/ b # a => relevant'[m][b] = relevant[m][b]
  BY <1>1, <1>2, Counted
<1>4. /\ \A b : IsDuplicate(store'[n], b) <=> b = a \/ IsDuplicate(store[n], b)
      /\ \A m \in Node : m # n => store'[m] = store[m]
  BY <1>1, RememberNew
<1>5. UnseenUndelivered'
  <2> SUFFICES ASSUME NEW m \in Node, NEW b \in GeoAlert, ~IsDuplicate(store'[m], b)
               PROVE  relevant'[m][b] = 0
    BY DEF UnseenUndelivered, IsDuplicate, StoredAlerts
  <2>1. (m # n \/ b # a) /\ ~IsDuplicate(store[m], b) /\ b \in Alert
    BY <1>4 DEF GeoAlert
  <2> QED BY <1>3, <2>1 DEF PromiseInv, UnseenUndelivered
<1>6. DeliveredIsProduced'
  <2> SUFFICES ASSUME NEW m \in Node, NEW b \in Alert, relevant'[m][b] # 0
               PROVE  b \in produced'
    BY DEF DeliveredIsProduced
  <2>1. CASE m = n /\ b = a
    BY <2>1
  <2>2. CASE m # n \/ b # a
    BY <1>3, <2>2 DEF PromiseInv, DeliveredIsProduced
  <2> QED BY <2>1, <2>2
<1>7. OneCopyEach'
  <2>1. \A f \in air' : f.alert \in NeighborAlert =>
            f \in air /\ f.to \in Node /\ f.alert \in Alert /\ f.alert # a
    BY <1>1 DEF GeoAlert, TypeOK, PacketType
  <2>2. \A f \in air' : f.alert \in NeighborAlert => relevant'[f.to][f.alert] = relevant[f.to][f.alert]
    BY <1>3, <2>1
  <2> QED BY <2>1, <2>2 DEF PromiseInv, OneCopyEach
<1>8. HandsOnly(n, a)
  <2>1. ZoRContains(a, pos[n]) => Promise!Relevant(n, a)
    BY <1>1 DEF Promise!Relevant, GeoAlert
  <2> QED BY <1>1, <1>2, <2>1, FirstAnswer
<1> QED BY <1>5, <1>6, <1>7, <1>8 DEF Kept

\* An RSU takes an alert for new.
LEMMA RsuAnswers ==
    ASSUME NoOverflow, PromiseInv, NEW r \in Rsu, NEW a \in GeoAlert, NEW tag, NEW arrived,
           RsuHandler(r, a, tag, arrived), produced \subseteq produced', a \in produced'
    PROVE  Kept /\ HandsOnly(r, a)
<1> DEFINE entry == StoreEntry(a, "NONE", NoPosition)
<1>1. r \in Node /\ entry \in EntryType /\ entry.alert = a
  BY DEF Node, StoreEntry, EntryType
<1>2. /\ ~IsDuplicate(store[r], a) /\ Remember(r, entry)
      /\ CountRelevant(r, a, ZoRContains(a, pos[r]))
  BY DEF RsuHandler
<1>3. \A f \in air' : f \in air \/ f.alert = a
  BY BroadcastAlert DEF RsuHandler, BroadcastHere, Multicast, Packet
<1> HIDE DEF entry
<1> QED BY <1>1, <1>2, <1>3, TakenAnswered

\* A copy from a neighbour is the only one, and is delivered.
LEMMA NeighborAnswers ==
    ASSUME PromiseInv, NEW n \in Node, NEW f \in air, ReceiveFromNeighbor(n, f)
    PROVE  Kept /\ Promise!Deliver(n, f.alert)
<1> DEFINE a == f.alert
<1>1. a \in Alert /\ a \in NeighborAlert /\ a \notin GeoAlert /\ f.to = n /\ TypeOK
  BY ForwarderAssumption DEF ReceiveFromNeighbor, GeoAlert, PromiseInv, OnceInv
<1>2. /\ n # Producer[a] /\ relevant[n][a] = 0 /\ a \in produced
      /\ \A g \in air : g.alert = a /\ g.to = n => g = f
  BY <1>1 DEF PromiseInv, OneCopyEach, OnceInv, KnownIsProduced
<1>3. /\ air' = air \ {f} /\ CountRelevant(n, a, TRUE)
      /\ UNCHANGED <<store, produced>>
  BY DEF ReceiveFromNeighbor, contextVars
<1>4. \A m \in Node, b \in Alert : m # n \/ b # a => relevant'[m][b] = relevant[m][b]
  BY <1>1, <1>2, <1>3, Counted
<1>5. UnseenUndelivered'
  <2>1. \A m \in Node, b \in GeoAlert : relevant'[m][b] = relevant[m][b]
    BY <1>1, <1>4 DEF GeoAlert
  <2> QED BY <1>3, <2>1 DEF PromiseInv, UnseenUndelivered
<1>6. DeliveredIsProduced'
  <2> SUFFICES ASSUME NEW m \in Node, NEW b \in Alert, relevant'[m][b] # 0
               PROVE  b \in produced
    BY <1>3 DEF DeliveredIsProduced
  <2>1. CASE m = n /\ b = a
    BY <1>2, <2>1
  <2>2. CASE m # n \/ b # a
    BY <1>4, <2>2 DEF PromiseInv, DeliveredIsProduced
  <2> QED BY <2>1, <2>2
<1>7. OneCopyEach'
  <2>1. \A g \in air' : g \in air /\ g.to \in Node /\ g.alert \in Alert /\ (g.to # n \/ g.alert # a)
    BY <1>1, <1>2, <1>3 DEF TypeOK, PacketType
  <2>2. \A g \in air' : relevant'[g.to][g.alert] = relevant[g.to][g.alert]
    BY <1>4, <2>1
  <2> QED BY <2>1, <2>2 DEF PromiseInv, OneCopyEach
<1>8. Promise!Deliver(n, a)
  <2>1. relevant' = [relevant EXCEPT ![n][a] = 1]
    BY <1>1, <1>2, <1>3 DEF CountRelevant, TypeOK
  <2> QED BY <1>1, <1>2, <1>3, <2>1 DEF Promise!Deliver, Promise!Hand, Promise!Relevant
<1> QED BY <1>5, <1>6, <1>7, <1>8 DEF Kept

-----------------------------------------------------------------------------
(***************************************************************************)
(* Applications that send.                                                 *)
(***************************************************************************)

\* The face on which a node reaches a neighbour.
FaceTo(n, m) ==
    IF n \in Vehicle THEN IF m \in Vehicle THEN "V2V" ELSE "V2I"
                     ELSE IF m \in Vehicle THEN "V2I" ELSE "P2P"

\* Nobody is reached on two faces, and no node reaches itself.
LEMMA OneFaceEach ==
    ASSUME NoLoops, NEW n \in Node, NEW a, NEW f,
           \/ \E g \in {h \in Group : HasFace(n, h)} : f \in Broadcast(n, g, a, NoTag)
           \/ \E m \in BackbonePeers(n) : f = Packet(n, m, "P2P", a, NoTag)
    PROVE  f.to \in Node /\ f.to # n /\ f.alert = a /\ f = Packet(n, f.to, FaceTo(n, f.to), a, NoTag)
<1>1. CASE \E g \in {h \in Group : HasFace(n, h)} : f \in Broadcast(n, g, a, NoTag)
  <2>1. PICK g \in {h \in Group : HasFace(n, h)} : f \in Broadcast(n, g, a, NoTag)
    BY <1>1
  <2>2. PICK m \in Hearers(n, g) : f = Packet(n, m, g, a, NoTag)
    BY <2>1 DEF Broadcast
  <2>3. m \in Node /\ m # n /\ f.to = m /\ f.alert = a
    BY <2>2 DEF Hearers, Packet
  <2>4. g = FaceTo(n, m)
    <3>1. CASE g = "V2V"
      BY <2>1, <2>2, <2>3, <3>1 DEF Hearers, HasFace, DropPacket, Filter, NodeType, FaceTo, Node
    <3>2. CASE g = "V2I"
      BY <2>1, <2>2, <2>3, <3>2 DEF Hearers, HasFace, DropPacket, Filter, NodeType, FaceTo, Node
    <3> QED BY <2>1, <3>1, <3>2 DEF Group
  <2> QED BY <2>2, <2>3, <2>4
<1>2. CASE \E m \in BackbonePeers(n) : f = Packet(n, m, "P2P", a, NoTag)
  <2>1. PICK m \in BackbonePeers(n) : f = Packet(n, m, "P2P", a, NoTag)
    BY <1>2
  <2>2. n \in DOMAIN RoutingInfo /\ n \in Rsu
    BY <2>1, ForwarderAssumption DEF BackbonePeers, Neighbors, Faces
  <2>3. m \in DOMAIN RoutingInfo
    <3>1. RoutingInfo[n] \in Seq([remoteNodeId : DOMAIN RoutingInfo, linkCost : Nat])
      BY <2>2, ForwarderAssumption
    <3>2. \A i \in DOMAIN RoutingInfo[n] :
             RoutingInfo[n][i] \in [remoteNodeId : DOMAIN RoutingInfo, linkCost : Nat]
      BY <3>1, ElementType
    <3> QED BY <2>1, <2>2, <3>2 DEF BackbonePeers, Neighbors, Faces
  <2>4. m \in Rsu /\ m # n /\ n \notin Vehicle /\ m \notin Vehicle
    BY <2>1, <2>2, <2>3, ForwarderAssumption DEF NoLoops
  <2>5. f.to = m /\ f.alert = a
    BY <2>1 DEF Packet
  <2> QED BY <2>1, <2>4, <2>5 DEF FaceTo, Node
<1> QED BY <1>1, <1>2

LEMMA NeighborsTold ==
    ASSUME NoLoops, PromiseInv, NEW a \in NeighborAlert,
           a \notin produced, produced' = produced \cup {a}, ProduceForNeighbors(Producer[a], a)
    PROVE  Kept /\ UNCHANGED relevant
<1> DEFINE n == Producer[a]
           New(f) == \/ \E g \in {h \in Group : HasFace(n, h)} : f \in Broadcast(n, g, a, NoTag)
                     \/ \E m \in BackbonePeers(n) : f = Packet(n, m, "P2P", a, NoTag)
<1>1. a \in Alert /\ n \in Node
  BY ForwarderAssumption
<1>2. UNCHANGED <<store, relevant>>
  BY DEF ProduceForNeighbors, contextVars, historyVars
<1>3. \A f \in air' : f \in air \/ New(f)
  BY DEF ProduceForNeighbors
<1>4. \A f : New(f) => /\ f.to \in Node /\ f.to # n /\ f.alert = a
                       /\ f = Packet(n, f.to, FaceTo(n, f.to), a, NoTag)
  BY <1>1, OneFaceEach
<1> HIDE DEF New
<1>5. (\A f \in air : f.alert # a) /\ \A m \in Node : relevant[m][a] = 0
  BY <1>1 DEF PromiseInv, DeliveredIsProduced, OnceInv, KnownIsProduced
<1>6. OneCopyEach'
  <2> SUFFICES ASSUME NEW f \in air', f.alert \in NeighborAlert
               PROVE  /\ f.to # Producer[f.alert]
                      /\ relevant[f.to][f.alert] = 0
                      /\ \A g \in air' : g.alert = f.alert /\ g.to = f.to => g = f
    BY <1>2 DEF OneCopyEach
  <2>1. CASE f \in air
    <3>1. f.alert # a
      BY <1>5, <2>1
    <3>2. \A g \in air' : g.alert = f.alert => g \in air
      BY <1>3, <1>4, <3>1
    <3> QED BY <2>1, <3>2 DEF PromiseInv, OneCopyEach
  <2>2. CASE New(f)
    <3>1. f.to \in Node /\ f.to # n /\ f.alert = a /\ f = Packet(n, f.to, FaceTo(n, f.to), a, NoTag)
      BY <1>4, <2>2
    <3>2. ASSUME NEW g \in air', g.alert = f.alert, g.to = f.to PROVE g = f
      <4>1. New(g)
        BY <1>3, <1>5, <3>1, <3>2
      <4>2. g = Packet(n, g.to, FaceTo(n, g.to), a, NoTag)
        BY <1>4, <4>1
      <4> QED BY <3>1, <3>2, <4>2
    <3> QED BY <1>5, <3>1, <3>2
  <2> QED BY <1>3, <2>1, <2>2
<1>7. UnseenUndelivered' /\ DeliveredIsProduced'
  BY <1>2 DEF PromiseInv, UnseenUndelivered, DeliveredIsProduced
<1> QED BY <1>2, <1>6, <1>7 DEF Kept

LEMMA LocalAnswers ==
    ASSUME PromiseInv, NEW a \in ZoRLess,
           a \notin produced, produced' = produced \cup {a}, ProduceLocally(Producer[a], a)
    PROVE  Kept /\ HandsOnly(Producer[a], a)
<1> DEFINE n == Producer[a]
<1>1. /\ a \in Alert /\ n \in Node /\ a \notin GeoAlert /\ a \notin NeighborAlert /\ TypeOK
      /\ relevant[n][a] = 0
  BY ForwarderAssumption DEF GeoAlert, PromiseInv, OnceInv, DeliveredIsProduced
<1>2. CountRelevant(n, a, TRUE) /\ UNCHANGED <<store, air>>
  BY DEF ProduceLocally, contextVars
<1>3. \A m \in Node, b \in Alert : m # n \/ b # a => relevant'[m][b] = relevant[m][b]
  BY <1>1, <1>2, Counted
<1>4. UnseenUndelivered'
  <2>1. \A m \in Node, b \in GeoAlert : relevant'[m][b] = relevant[m][b]
    BY <1>1, <1>3 DEF GeoAlert
  <2> QED BY <1>2, <2>1 DEF PromiseInv, UnseenUndelivered
<1>5. DeliveredIsProduced'
  <2> SUFFICES ASSUME NEW m \in Node, NEW b \in Alert, relevant'[m][b] # 0
               PROVE  b \in produced'
    BY DEF DeliveredIsProduced
  <2>1. CASE b = a
    BY <2>1
  <2>2. CASE b # a
    BY <1>3, <2>2 DEF PromiseInv, DeliveredIsProduced
  <2> QED BY <2>1, <2>2
<1>6. OneCopyEach'
  <2>1. \A f \in air : f.alert \in NeighborAlert =>
            f.to \in Node /\ f.alert \in Alert /\ f.alert # a
    BY <1>1 DEF TypeOK, PacketType
  <2>2. \A f \in air : f.alert \in NeighborAlert => relevant'[f.to][f.alert] = relevant[f.to][f.alert]
    BY <1>3, <2>1
  <2> QED BY <1>2, <2>2 DEF PromiseInv, OneCopyEach
<1>7. HandsOnly(n, a)
  <2>1. Promise!Relevant(n, a)
    BY <1>1 DEF Promise!Relevant
  <2> QED BY <1>1, <1>2, <2>1, FirstAnswer
<1> QED BY <1>4, <1>5, <1>6, <1>7 DEF Kept

LEMMA ProducePublishes ==
    ASSUME NoOverflow, NoLoops, PromiseInv, NEW a \in Alert, Produce(a)
    PROVE  Kept /\ Promise!Publish(a)
<1> DEFINE n == Producer[a]
<1>1. a \notin produced /\ produced' = produced \cup {a} /\ n \in Node
  BY ForwarderAssumption DEF Produce
<1>2. SUFFICES Kept /\ HandsOnly(n, a)
  BY <1>1 DEF Promise!Publish, HandsOnly
<1>3. CASE a \in GeoAlert /\ n \in Vehicle /\ ProduceOnVehicle(n, a)
  <2> DEFINE entry == StoreEntry(a, "VEHICLE", pos[n])
  <2>1. entry \in EntryType /\ entry.alert = a
    BY <1>1, <1>3 DEF StoreEntry, EntryType, PromiseInv, OnceInv, TypeOK
  <2>2. ~IsDuplicate(store[n], a)
    BY <1>1, <1>3, ProducerIsNew DEF PromiseInv
  <2>3. Remember(n, entry) /\ CountRelevant(n, a, ZoRContains(a, pos[n]))
    BY <1>3 DEF ProduceOnVehicle
  <2>4. \A f \in air' : f \in air \/ f.alert = a
    BY <1>3, BroadcastAlert DEF ProduceOnVehicle
  <2> HIDE DEF entry
  <2> QED BY <1>1, <2>1, <2>2, <2>3, <2>4, TakenAnswered
<1>4. CASE a \in GeoAlert /\ n \in Rsu /\ ProduceOnRsu(n, a)
  BY <1>1, <1>4, RsuAnswers DEF ProduceOnRsu
<1>5. CASE a \in NeighborAlert /\ ProduceForNeighbors(n, a)
  BY <1>1, <1>5, NeighborsTold DEF HandsOnly
<1>6. CASE a \in ZoRLess /\ ProduceLocally(n, a)
  BY <1>1, <1>6, LocalAnswers
<1> QED BY <1>3, <1>4, <1>5, <1>6 DEF Produce

-----------------------------------------------------------------------------
(***************************************************************************)
(* The refinement.                                                         *)
(***************************************************************************)
PromiseStep == Promise!Next \/ UNCHANGED <<produced, relevant>>

\* An answer about an alert that is known was produced delivers it, or nothing.
LEMMA HandingDelivers ==
    ASSUME NEW n \in Node, NEW a \in Alert, a \in produced, UNCHANGED produced, HandsOnly(n, a)
    PROVE  PromiseStep
BY DEF PromiseStep, HandsOnly, Promise!Next, Promise!Deliver

LEMMA VehicleKeepsPromise ==
    ASSUME NoOverflow, PromiseInv, NEW v \in Vehicle, NEW f \in air, VehicleReceive(v, f)
    PROVE  Kept /\ PromiseStep
<1>1. v \in Node /\ f.alert \in Alert /\ f.alert \in produced
  BY DEF Node, PromiseInv, OnceInv, TypeOK, PacketType, KnownIsProduced
<1>2. CASE CancelDeferred(v, f) \/ VehicleDropDuplicate(v, f)
  <2>1. UNCHANGED <<store, relevant, produced>> /\ air' \subseteq air
    BY <1>2 DEF CancelDeferred, VehicleDropDuplicate, contextVars, historyVars
  <2> QED BY <2>1, NothingDelivered DEF PromiseStep
<1>3. CASE Defer(v, f) \/ DropMovingAway(v, f)
  <2> DEFINE entry == StoreEntry(f.alert, f.senderType, f.senderPos)
             answer == ZoRContains(f.alert, pos[v])
  <2>1. entry \in EntryType /\ entry.alert = f.alert
    BY <1>3 DEF Defer, DropMovingAway, TakeNew, PromiseInv, OnceInv, TypeOK, PacketType,
                StoreEntry, EntryType
  <2>2. /\ ~IsDuplicate(store[v], f.alert) /\ Remember(v, entry)
        /\ UNCHANGED produced /\ air' \subseteq air
    BY <1>3 DEF Defer, DropMovingAway, TakeNew
  <2>3. CountRelevant(v, f.alert, answer)
    BY <1>3 DEF Defer, DropMovingAway, SenderCloser, CountRelevant
  <2> HIDE DEF entry
  <2>4. Kept /\ HandsOnly(v, f.alert)
    BY <1>1, <2>1, <2>2, <2>3, TakenAnswered
  <2> QED BY <1>1, <2>2, <2>4, HandingDelivers
<1>4. CASE ReceiveFromNeighbor(v, f)
  BY <1>1, <1>4, NeighborAnswers DEF PromiseStep, Promise!Next
<1> QED BY <1>2, <1>3, <1>4 DEF VehicleReceive

LEMMA RsuKeepsPromise ==
    ASSUME NoOverflow, PromiseInv, NEW r \in Rsu, NEW f \in air, RsuReceives(r, f)
    PROVE  Kept /\ PromiseStep
<1>1. r \in Node /\ f.alert \in Alert /\ f.alert \in produced
  BY DEF Node, PromiseInv, OnceInv, TypeOK, PacketType, KnownIsProduced
<1>2. CASE RsuReceive(r, f)
  <2>1. f.alert \in GeoAlert /\ RsuHandler(r, f.alert, f.dst, {f}) /\ UNCHANGED produced
    BY <1>2 DEF RsuReceive
  <2>2. Kept /\ HandsOnly(r, f.alert)
    BY <1>1, <2>1, RsuAnswers
  <2> QED BY <1>1, <2>1, <2>2, HandingDelivers
<1>3. CASE RsuDropDuplicate(r, f)
  <2>1. UNCHANGED <<store, relevant, produced>> /\ air' \subseteq air
    BY <1>3 DEF RsuDropDuplicate, contextVars, historyVars
  <2> QED BY <2>1, NothingDelivered DEF PromiseStep
<1>4. CASE ReceiveFromNeighbor(r, f)
  BY <1>1, <1>4, NeighborAnswers DEF PromiseStep, Promise!Next
<1> QED BY <1>2, <1>3, <1>4 DEF RsuReceives

LEMMA StepKeepsPromise ==
    ASSUME NoOverflow, NoLoops, PromiseInv, [Next]_vars
    PROVE  PromiseInv' /\ PromiseStep
<1>1. SUFFICES Kept /\ PromiseStep
  BY OnceStep DEF PromiseInv, Kept
<1>2. ASSUME UNCHANGED <<store, relevant, produced>>,
             \A f \in air' : f \in air \/ f.alert \in GeoAlert
      PROVE  Kept /\ PromiseStep
  BY <1>2, NothingDelivered DEF PromiseStep
<1>3. CASE \E a \in Alert : Produce(a)
  BY <1>3, ProducePublishes DEF PromiseStep, Promise!Next
<1>4. CASE \E v \in Vehicle : \E f \in air : VehicleReceive(v, f)
  BY <1>4, VehicleKeepsPromise
<1>5. CASE \E r \in Rsu : \E f \in air : RsuReceives(r, f)
  BY <1>5, RsuKeepsPromise
<1>6. CASE \E v \in Vehicle : \E e \in pending[v] : Fire(v, e)
  <2>1. PICK v \in Vehicle, e \in UNION {pending[w] : w \in Vehicle} : e \in pending[v] /\ Fire(v, e)
    BY <1>6
  <2>2. e.alert \in GeoAlert
    BY <2>1, PendingIsStored DEF PromiseInv
  <2> QED BY <1>2, <2>1, <2>2, BroadcastAlert DEF Fire
<1>7. CASE \E v \in Vehicle : HelloHeard(v) \/ HelloTimeout(v) \/ Move(v)
  BY <1>2, <1>7 DEF HelloHeard, HelloTimeout, Move, contextVars, historyVars
<1>8. CASE \E f \in air : Lose(f)
  BY <1>2, <1>8 DEF Lose, contextVars, historyVars
<1>9. CASE UNCHANGED vars
  BY <1>2, <1>9 DEF vars
<1> QED BY <1>3, <1>4, <1>5, <1>6, <1>7, <1>8, <1>9 DEF Next

(* The forwarder keeps its promise: in every network whose stores have room
   and whose links connect different RSUs, with movement, hellos and losses,
   an application gets an alert only after it was published, only where it is
   relevant, and only once. *)
THEOREM ForwarderKeepsPromise ==
    ASSUME NoOverflow, NoLoops
    PROVE  Spec => KeepsPromise
<1>1. Init => PromiseInv /\ Promise!Init
  <2> SUFFICES ASSUME Init PROVE PromiseInv /\ Promise!Init
    OBVIOUS
  <2>1. UnseenUndelivered /\ DeliveredIsProduced /\ OneCopyEach
    BY DEF Init, UnseenUndelivered, DeliveredIsProduced, OneCopyEach, GeoAlert
  <2>2. Promise!Init
    BY DEF Init, Promise!Init
  <2> QED BY <2>1, <2>2, OnceInit DEF PromiseInv
<1>2. PromiseInv /\ [Next]_vars => PromiseInv' /\ [Promise!Next]_<<produced, relevant>>
  BY StepKeepsPromise DEF PromiseStep
<1>3. QED BY <1>1, <1>2, PTL DEF Spec, KeepsPromise, Promise!Spec
=============================================================================
