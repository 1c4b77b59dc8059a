---------------------------- MODULE Measurement ----------------------------
(***************************************************************************)
(* How the results of a simulation are measured: scripts/get_results.py    *)
(* (and its copy data/generate_table4.py) reads the log line by line.  The *)
(* lines come from RandomAlertProducer, AlertConsumer and the forwarder;   *)
(* every action of the simulation writes the lines the code writes, in     *)
(* that order, and the analysis goes on with them at once: each state is   *)
(* the result of a log that ends here, as one does when a run breaks off.  *)
(***************************************************************************)
EXTENDS Integers, FiniteSets, Sequences, SequencesExt

CONSTANTS
    Vehicle,        \* vehicles
    Rsu,            \* road-side units
    Alert,          \* names of emergency alerts; a producer sends each once
    RequiredDelay,  \* REQUIRED_DELAY_IN_MS, in ticks
    MaxTime,        \* bound: length of the simulation
    MaxCopies       \* bound: how often the network carries one alert to a node

Node == Vehicle \cup Rsu

ASSUME MeasurementAssumption ==
    /\ IsFiniteSet(Vehicle) /\ IsFiniteSet(Rsu) /\ IsFiniteSet(Alert)
    /\ RequiredDelay \in Nat /\ MaxTime \in Nat /\ MaxCopies \in Nat

VARIABLES
    now,        \* Simulator::Now
    inside,     \* vehicles in the zone of relevance
    stored,     \* <<node, alert>>: in the alert store of the node
    pending,    \* <<vehicle, alert>>: a deferred transmission is registered
    analysis,   \* the local variables of analyze_ns3_logs
    copies,     \* history: how often a node has handled an alert
    target,     \* history: vehicles in the zone when the alert was sent
    heard       \* history: when a vehicle was first handed the alert

vars == <<now, inside, stored, pending, analysis, copies, target, heard>>

-----------------------------------------------------------------------------
(***************************************************************************)
(* The analysis: one step of the loop over the lines of the log.           *)
(***************************************************************************)
\* d[key] = value, of a dictionary of Python.
Put(d, key, value) == [k \in DOMAIN d \cup {key} |-> IF k = key THEN value ELSE d[k]]

NewAlert(line) ==
    [start_time |-> line.time, veh_count |-> line.vc,
     receivers |-> {}, satisfied |-> {}, delays |-> <<>>]

ReadProducer(result, line) ==
    [result EXCEPT !.alert_data = Put(@, line.name, NewAlert(line))]

\* Mutant of Count: a receiver counts with every copy it is handed.
CountAgain(data, line) ==
    LET delay == line.time - data.start_time
    IN  [data EXCEPT !.receivers = @ \cup {line.node},
                     !.satisfied = IF delay <= RequiredDelay THEN @ \cup {line.node} ELSE @,
                     !.delays = Append(@, delay)]

\* What a reception adds to the data of its alert: only unique receivers count.
Count(data, line) ==
    LET delay == line.time - data.start_time
    IN  IF line.node \in data.receivers THEN data
        ELSE [data EXCEPT !.receivers = @ \cup {line.node},
                          !.satisfied = IF delay <= RequiredDelay THEN @ \cup {line.node} ELSE @,
                          !.delays = Append(@, delay)]

ReadConsumer(result, line) ==
    IF line.name \in DOMAIN result.alert_data
    THEN [result EXCEPT !.alert_data[line.name] = Count(@, line)]
    ELSE result

ReadLine(result, line) ==
    CASE line.kind = "producer"  -> ReadProducer(result, line)
      [] line.kind = "consumer"  -> ReadConsumer(result, line)
      [] line.kind = "incoming"  -> [result EXCEPT !.incoming_alerts = @ + 1]
      [] line.kind = "duplicate" -> [result EXCEPT !.duplicate_drops = @ + 1]

Sent == DOMAIN analysis.alert_data

\* len(nodes) / veh_count, cut at 100 %, as a number of vehicles.
Share(a, nodes) ==
    LET n == Cardinality(nodes) vc == analysis.alert_data[a].veh_count
    IN  IF n > vc THEN vc ELSE n

Pdr(a) == Share(a, analysis.alert_data[a].receivers)

Psr(a) == Share(a, analysis.alert_data[a].satisfied)

FailedPackets == {a \in Sent : analysis.alert_data[a].receivers = {}}

-----------------------------------------------------------------------------
(***************************************************************************)
(* The simulation, and the lines it writes.                                *)
(***************************************************************************)
Line(kind, n, a) == [kind |-> kind, time |-> now, node |-> n, name |-> a]

\* Mutant of CountInside: the producer does not count itself.
CountOthers(v) == Cardinality(inside \ {v})

CountInside(v) == Cardinality(inside)

\* Every alert that reaches a forwarder writes this line first.
Incoming(result, n, a) == ReadLine(result, Line("incoming", n, a))

\* The alert goes up to the application; without an interest it meets no consumer.
HandedTo(result, v, a, subscribed) ==
    IF v \in inside /\ subscribed THEN ReadLine(result, Line("consumer", v, a)) ELSE result

Hear(v, a, subscribed) ==
    heard' = IF v \in inside /\ subscribed /\ v \notin DOMAIN heard[a]
             THEN [heard EXCEPT ![a] = Put(@, v, now)] ELSE heard

Announced(result, v, a) ==
    ReadLine(result, [kind |-> "producer", time |-> now, node |-> v, name |-> a,
                      vc |-> CountInside(v)])

\* AlertSupplier writes its line before the forwarder sees the alert.
SendAlert(v, a) ==
    /\ a \notin Sent
    /\ stored' = stored \cup {<<v, a>>}
    /\ copies' = [copies EXCEPT ![<<v, a>>] = @ + 1]
    /\ target' = [target EXCEPT ![a] = inside]
    /\ \E subscribed \in BOOLEAN :
        /\ Hear(v, a, subscribed)
        /\ analysis' = HandedTo(Incoming(Announced(analysis, v, a), v, a), v, a, subscribed)
    /\ UNCHANGED <<now, inside, pending>>

Arrives(n, a) ==
    /\ a \in Sent /\ copies[<<n, a>>] < MaxCopies
    /\ copies' = [copies EXCEPT ![<<n, a>>] = @ + 1]
    /\ UNCHANGED <<now, inside, target>>

\* Mutant of IsDuplicate: the alert is stored before it is looked up.
AlwaysKnown(n, a) == TRUE

IsDuplicate(n, a) == <<n, a>> \in stored

\* A vehicle that knows the alert cancels its own transmission or drops the copy.
ReceiveDuplicate(v, a) ==
    /\ Arrives(v, a) /\ IsDuplicate(v, a)
    /\ \/ <<v, a>> \in pending /\ pending' \in {pending, pending \ {<<v, a>>}}
          /\ analysis' = Incoming(analysis, v, a)
       \/ <<v, a>> \notin pending /\ UNCHANGED pending
          /\ analysis' = ReadLine(Incoming(analysis, v, a), Line("duplicate", v, a))
    /\ UNCHANGED <<stored, heard>>

\* A new alert is handed on and a transmission deferred, or, out of the zone and
\* behind the sender, only stored.
ReceiveNew(v, a) ==
    /\ Arrives(v, a) /\ ~IsDuplicate(v, a)
    /\ stored' = stored \cup {<<v, a>>}
    /\ \/ v \notin inside /\ UNCHANGED <<pending, heard>> /\ analysis' = Incoming(analysis, v, a)
       \/ \E subscribed \in BOOLEAN :
            /\ pending' = pending \cup {<<v, a>>}
            /\ Hear(v, a, subscribed)
            /\ analysis' = HandedTo(Incoming(analysis, v, a), v, a, subscribed)

\* The duplicates of an RSU are logged by its own handler and not counted.
ReceiveAtRsu(r, a) ==
    /\ Arrives(r, a)
    /\ stored' = stored \cup {<<r, a>>}
    /\ analysis' = Incoming(analysis, r, a)
    /\ UNCHANGED <<pending, heard>>

Transmit(v, a) ==
    /\ <<v, a>> \in pending /\ pending' = pending \ {<<v, a>>}
    /\ UNCHANGED <<now, inside, stored, analysis, copies, target, heard>>

\* The alert store makes room; the next copy is new again.
Evict(n, a) ==
    /\ <<n, a>> \in stored /\ stored' = stored \ {<<n, a>>}
    /\ UNCHANGED <<now, inside, pending, analysis, copies, target, heard>>

Move(v) ==
    /\ inside' = IF v \in inside THEN inside \ {v} ELSE inside \cup {v}
    /\ UNCHANGED <<now, stored, pending, analysis, copies, target, heard>>

Tick ==
    /\ now < MaxTime /\ now' = now + 1
    /\ UNCHANGED <<inside, stored, pending, analysis, copies, target, heard>>

Init ==
    /\ now = 0
    /\ inside \in SUBSET Vehicle
    /\ stored = {} /\ pending = {}
    /\ analysis = [alert_data |-> <<>>, duplicate_drops |-> 0, incoming_alerts |-> 0]
    /\ copies = [na \in Node \X Alert |-> 0]
    /\ target = [a \in Alert |-> {}]
    /\ heard = [a \in Alert |-> <<>>]

Next ==
    \/ Tick
    \/ \E v \in Vehicle : Move(v)
    \/ \E v \in Vehicle, a \in Alert :
        SendAlert(v, a) \/ ReceiveDuplicate(v, a) \/ ReceiveNew(v, a) \/ Transmit(v, a)
    \/ \E r \in Rsu, a \in Alert : ReceiveAtRsu(r, a)
    \/ \E n \in Node, a \in Alert : Evict(n, a)

Spec == Init /\ [][Next]_vars

-----------------------------------------------------------------------------
\* What the analysis says of an alert is what happened: a vehicle is a receiver
\* if it was handed the alert, satisfied if the first copy came in time, and has
\* one delay, the first, however often the alert comes back after an eviction
\* (get_results.py:58-70).
MeasuredIsWhatHappened ==
    \A a \in Sent : LET data == analysis.alert_data[a] IN
        /\ data.receivers = DOMAIN heard[a]
        /\ data.satisfied = {v \in DOMAIN heard[a] : heard[a][v] - data.start_time <= RequiredDelay}
        /\ Len(data.delays) = Cardinality(DOMAIN heard[a])
        /\ ToSet(data.delays) = {heard[a][v] - data.start_time : v \in DOMAIN heard[a]}

\* The ratio never understates how many of the vehicles that were in the zone
\* when the alert was sent got it; it overstates only when a vehicle that
\* entered the zone later got it too (get_results.py:92-98).
OverstatedByLateComersOnly ==
    \A a \in Sent : LET reached == target[a] \cap DOMAIN heard[a] IN
        /\ Pdr(a) >= Cardinality(reached)
        /\ Psr(a) <= Pdr(a)
        /\ Pdr(a) > Cardinality(reached) => DOMAIN heard[a] \ target[a] # {}
        /\ a \in FailedPackets => Pdr(a) = 0

\* A counted duplicate is a copy the vehicle had handled before, so the rate of
\* duplicates stays below 100 % (get_results.py:72-78, 119).
DuplicatesAreLaterCopies ==
    LET handled == {na \in DOMAIN copies : copies[na] > 0}
    IN  analysis.duplicate_drops + Cardinality(handled) <= analysis.incoming_alerts
=============================================================================
