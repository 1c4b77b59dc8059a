------------------------------- MODULE Hello -------------------------------
(***************************************************************************)
(* How a vehicle comes to believe in a road-side unit, and for how long:   *)
(* HelloProducer on the RSUs (apps/hello-producer.cpp, with the timer of   *)
(* apps/alert-producer-cbr.cpp), HelloConsumer on the vehicles             *)
(* (apps/hello-consumer.cpp), installed with phases and lifetimes by       *)
(* helper/caf-stack-helper.cpp.  A hello consumer is an alert consumer, so *)
(* its interest, PIT entry and timers are those of Subscription; Node is   *)
(* the set of vehicles.                                                    *)
(***************************************************************************)
EXTENDS Subscription

CONSTANTS
    Rsu,         \* road-side units, numbers
    HelloStart,  \* when the hello producer of each RSU starts
    Interval,    \* between two hellos of one RSU
    Driving,     \* vehicles that drive into and out of the reach of RSUs
    Lossy        \* whether hellos may be lost

ASSUME HelloAssumption ==
    /\ Rsu \subseteq Forwarder \ Node
    /\ Interval \in Nat \ {0}
    /\ HelloStart \in [Rsu -> 0 .. Interval - 1]
    /\ LifeTime > Interval
    /\ StopTime = <<>>
    /\ Driving \subseteq Node
    /\ Lossy \in BOOLEAN

VARIABLES
    inReach,       \* pairs <<r, n>>: vehicle n hears what r sends
    available,     \* Context::m_isRsuAvailable of each vehicle
    away,          \* history: how long a vehicle is out of every RSU's reach
    steady         \* history: how long a pair is in reach, no hello nor the
                   \* subscription of the vehicle being lost

helloVars == <<vars, inReach, available, away, steady>>

-----------------------------------------------------------------------------
(***************************************************************************)
(* RSUs.  SendAlert hands the hello to the forwarder, which broadcasts it, *)
(* and schedules the next one.                                             *)
(***************************************************************************)
StartProducer ==
    /\ Run("StartProducer")
    /\ events' = Enqueue(Tail(events), Event("SendAlert", Next1.node, 0))
    /\ UNCHANGED <<queue, entry, inRecord, stopped, marks, lost, available>>

Audience(r) == {n \in Node : <<r, n>> \in inReach}

\* Mutant of SendAlert: the first hello is the last one.
SendOnce ==
    /\ Run("SendAlert")
    /\ \E delay \in [Audience(Next1.node) -> 1 .. MaxDelay] :
          events' = EnqueueAll(Tail(events), Arrivals(DOMAIN delay, delay))
    /\ UNCHANGED <<queue, entry, inRecord, stopped, marks, lost, available, steady>>

SendAlert ==
    LET r == Next1.node
    IN  /\ Run("SendAlert")
        /\ \E hearers \in IF Lossy THEN SUBSET Audience(r) ELSE {Audience(r)} :
           \E delay \in [hearers -> 1 .. MaxDelay] :
              LET sent == EnqueueAll(Tail(events), Arrivals(hearers, delay))
              IN  /\ events' = Enqueue(sent, Event("SendAlert", r, Interval))
                  /\ steady' = [p \in Rsu \X Node |->
                                    IF p[1] = r /\ p[2] \notin hearers THEN 0 ELSE steady[p]]
        /\ UNCHANGED <<queue, entry, inRecord, stopped, marks, lost, available>>

-----------------------------------------------------------------------------
(***************************************************************************)
(* Vehicles.                                                               *)
(***************************************************************************)
StartConsumer == StartApplication /\ UNCHANGED available

\* OnData, with doReceive of the hello consumer.
HelloReceived ==
    /\ OnData
    /\ available' = [available EXCEPT ![Next1.node] = TRUE]

\* Mutant of HelloMissed: a timeout only renews the interest.
MissedIgnored == OnTimeout /\ UNCHANGED available

\* OnTimeout, with handleTimeout of the hello consumer.
HelloMissed ==
    /\ OnTimeout
    /\ available' = [available EXCEPT ![Next1.node] = FALSE]

Network ==
    /\ DataUnsolicited \/ OnIncomingData \/ ExecuteEvent \/ OnInterestFinalize \/ Mark
    /\ UNCHANGED available

HelloDispatch ==
    /\ \/ SendAlert
       \/ /\ StartProducer \/ StartConsumer \/ HelloReceived \/ HelloMissed \/ Network
          /\ UNCHANGED steady
    /\ UNCHANGED <<inReach, away>>

-----------------------------------------------------------------------------
LongAway == LifeTime + MaxDelay

LongSteady == Interval + MaxDelay

\* Up to one tick more than the properties tell apart.
Older(age, limit) == IF age > limit THEN age ELSE age + 1

HelloTick ==
    /\ Tick
    /\ away' = [n \in Node |-> IF \E r \in Rsu : <<r, n>> \in inReach
                               THEN 0 ELSE Older(away[n], LongAway)]
    /\ steady' = [p \in Rsu \X Node |-> IF p \in inReach /\ p[2] \notin lost
                                        THEN Older(steady[p], LongSteady) ELSE 0]
    /\ UNCHANGED <<inReach, available>>

\* A vehicle drives into or out of the reach of an RSU.
Drive ==
    /\ ~Due(events)
    /\ \E p \in Rsu \X Driving :
          /\ inReach' = IF p \in inReach THEN inReach \ {p} ELSE inReach \cup {p}
          /\ steady' = [steady EXCEPT ![p] = 0]
    /\ UNCHANGED <<vars, available, away>>

HelloInit ==
    /\ events = LET order == InOrder(Node \cup Rsu)
                IN  EnqueueAll(<<FirstWakeUp>>, [i \in DOMAIN order |->
                        IF order[i] \in Node
                        THEN Event("StartApplication", order[i], StartTime[order[i]])
                        ELSE Event("StartProducer", order[i], HelloStart[order[i]])])
    /\ queue = FirstMarks
    /\ entry = {}
    /\ inRecord = [n \in Node |-> NoRecord]
    /\ stopped = {}
    /\ marks = [n \in Forwarder |-> 0]
    /\ lost = {}
    /\ inReach \in SUBSET (Rsu \X Node)
    /\ available = [n \in Node |-> FALSE]
    /\ away = [n \in Node |-> 0]
    /\ steady = [p \in Rsu \X Node |-> 0]

HelloNext == HelloDispatch \/ HelloTick \/ Drive

HelloSpec == HelloInit /\ [][HelloNext]_helloVars

-----------------------------------------------------------------------------
HelloTypeOK ==
    /\ \A i \in DOMAIN events :
          /\ \/ events[i] \in [kind : Kind, node : Node, wait : Nat, valid : BOOLEAN]
             \/ events[i] \in [kind : {"executeEvent", "mark"}, node : Forwarder, wait : Nat,
                               valid : BOOLEAN]
             \/ events[i] \in [kind : {"StartProducer", "SendAlert"}, node : Rsu,
                               wait : 0 .. Interval, valid : {TRUE}]
          /\ \A j \in 1 .. i : events[j].wait <= events[i].wait
    /\ inReach \subseteq Rsu \X Node
    /\ available \in [Node -> BOOLEAN]
    /\ away \in [Node -> 0 .. LongAway + 1]
    /\ steady \in [Rsu \X Node -> 0 .. LongSteady + 1]

(* A vehicle that has left the reach of every RSU stops believing in one: it
   chooses the V2I group, in which nobody would hear it, for at most the
   lifetime of its interest and the delay of one hello, whatever is lost. *)
BeliefIsBounded ==
    \A n \in Node : available[n] => away[n] <= LongAway

(* The lifetime exceeds the interval by more than hellos are delayed: a vehicle
   that stays in the reach of one RSU for an interval and a delay, misses no
   hello of it and keeps its subscription meanwhile, believes in it at the end
   of every instant, however delays differ from hello to hello and whatever it
   misses of other RSUs. *)
SteadyReachIsBelieved ==
    ~Due(events) =>
        \A p \in Rsu \X Node : steady[p] >= LongSteady => available[p[2]]
=============================================================================
