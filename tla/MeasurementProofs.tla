------------------------- MODULE MeasurementProofs -------------------------
(***************************************************************************)
(* What the analysis of a log says is what happened, for any number of     *)
(* vehicles, RSUs and alerts, any length of the simulation and any number  *)
(* of copies.  The properties are about sets and counts at once, so the    *)
(* inductive invariant adds only what types everything, what the analysis  *)
(* was told when the alert was sent, and that what is stored was handled.  *)
(***************************************************************************)
EXTENDS Measurement, FiniteSetTheorems, TLAPS

\* When vehicles were first handed an alert.
Hearing == UNION {[S -> Nat] : S \in SUBSET Vehicle}

DataType ==
    [start_time : Nat, veh_count : Nat, receivers : SUBSET Vehicle, satisfied : SUBSET Vehicle,
     delays : Seq(Int)]

ResultType ==
    [alert_data : UNION {[S -> DataType] : S \in SUBSET Alert},
     duplicate_drops : Nat, incoming_alerts : Nat]

TypeInv ==
    /\ now \in Nat
    /\ inside \subseteq Vehicle
    /\ stored \subseteq Node \X Alert
    /\ analysis \in ResultType
    /\ copies \in [Node \X Alert -> Nat]
    /\ target \in [Alert -> SUBSET Vehicle]
    /\ heard \in [Alert -> Hearing]

\* What MeasuredIsWhatHappened says of one alert.
Measures(data, hearing) ==
    /\ data.receivers = DOMAIN hearing
    /\ data.satisfied = {v \in DOMAIN hearing : hearing[v] - data.start_time <= RequiredDelay}
    /\ Len(data.delays) = Cardinality(DOMAIN hearing)
    /\ ToSet(data.delays) = {hearing[v] - data.start_time : v \in DOMAIN hearing}

\* The analysis was told how many vehicles were in the zone.
CountedWhenSent == \A a \in Sent : analysis.alert_data[a].veh_count = Cardinality(target[a])

\* Nobody hears of an alert before it was sent.
HeardIsSent == \A a \in Alert : a \notin Sent => DOMAIN heard[a] = {}

\* An alert in a store was handled by its node.
StoredIsHandled == \A na \in stored : copies[na] > 0

MeasurementInv ==
    /\ TypeInv
    /\ MeasuredIsWhatHappened
    /\ CountedWhenSent
    /\ HeardIsSent
    /\ StoredIsHandled
    /\ DuplicatesAreLaterCopies

-----------------------------------------------------------------------------
(***************************************************************************)
(* One reception.                                                          *)
(***************************************************************************)

\* A sequence with one more element.
LEMMA AppendedSet ==
    ASSUME NEW s \in Seq(Int), NEW d \in Int
    PROVE  /\ Append(s, d) \in Seq(Int)
           /\ Len(Append(s, d)) = Len(s) + 1
           /\ ToSet(Append(s, d)) = ToSet(s) \cup {d}
<1> DEFINE t == Append(s, d)
<1>1. /\ t \in Seq(Int) /\ Len(t) = Len(s) + 1 /\ Len(s) \in Nat
      /\ t[Len(s) + 1] = d /\ \A i \in 1 .. Len(s) : t[i] = s[i]
  OBVIOUS
<1>2. DOMAIN t = DOMAIN s \cup {Len(s) + 1} /\ DOMAIN s = 1 .. Len(s)
  BY <1>1
<1> HIDE DEF t
<1>3. ToSet(t) = ToSet(s) \cup {d}
  BY <1>1, <1>2 DEF ToSet
<1> QED BY <1>1, <1>3 DEF t

\* A vehicle that hears for the first time.
LEMMA HeardFirst ==
    ASSUME NEW h \in Hearing, NEW v \in Vehicle, v \notin DOMAIN h, NEW t \in Nat
    PROVE  LET g == Put(h, v, t)
           IN  /\ g \in Hearing
               /\ DOMAIN g = DOMAIN h \cup {v}
               /\ g[v] = t
               /\ \A w \in DOMAIN h : g[w] = h[w]
<1> DEFINE g == Put(h, v, t)
<1>1. PICK S \in SUBSET Vehicle : h \in [S -> Nat]
  BY DEF Hearing
<1>2. g = [w \in S \cup {v} |-> IF w = v THEN t ELSE h[w]]
  BY <1>1 DEF Put
<1>3. g \in [S \cup {v} -> Nat]
  BY <1>1, <1>2
<1> QED BY <1>1, <1>2, <1>3 DEF Hearing

\* The analysis counts a first reception, and no other one.
LEMMA CountMeasures ==
    ASSUME NEW data \in DataType, NEW h \in Hearing, Measures(data, h),
           NEW v \in Vehicle, NEW line, line.node = v, line.time \in Nat
    PROVE  LET after == Count(data, line)
               g == IF v \notin DOMAIN h THEN Put(h, v, line.time) ELSE h
           IN  /\ after \in DataType /\ g \in Hearing
               /\ Measures(after, g)
               /\ after.veh_count = data.veh_count
<1> DEFINE after == Count(data, line)
           g == Put(h, v, line.time)
           delay == line.time - data.start_time
<1>1. CASE v \in DOMAIN h
  BY <1>1 DEF Count, Measures
<1>2. CASE v \notin DOMAIN h
  <2>1. /\ g \in Hearing /\ DOMAIN g = DOMAIN h \cup {v} /\ g[v] = line.time
        /\ \A w \in DOMAIN h : g[w] = h[w]
    BY <1>2, HeardFirst
  <2>2. delay \in Int /\ data.start_time \in Nat /\ data.delays \in Seq(Int)
    BY DEF DataType
  <2>3. after = [data EXCEPT !.receivers = @ \cup {v},
                             !.satisfied = IF delay <= RequiredDelay THEN @ \cup {v} ELSE @,
                             !.delays = Append(@, delay)]
    BY <1>2 DEF Count, Measures
  <2>4. /\ after.start_time = data.start_time /\ after.veh_count = data.veh_count
        /\ after.receivers = data.receivers \cup {v}
        /\ after.satisfied = IF delay <= RequiredDelay THEN data.satisfied \cup {v} ELSE data.satisfied
        /\ after.delays = Append(data.delays, delay)
    BY <2>3 DEF DataType
  <2>5. after \in DataType
    <3>1. Append(data.delays, delay) \in Seq(Int)
      BY <2>2, AppendedSet
    <3> DEFINE receivers == data.receivers \cup {v}
               satisfied == IF delay <= RequiredDelay
                            THEN data.satisfied \cup {v} ELSE data.satisfied
               delays == Append(data.delays, delay)
    <3>2. /\ receivers \in SUBSET Vehicle /\ satisfied \in SUBSET Vehicle
          /\ delays \in Seq(Int)
      BY <3>1 DEF DataType
    <3>3. after = [data EXCEPT !.receivers = receivers, !.satisfied = satisfied,
                               !.delays = delays]
      BY <2>3
    <3> HIDE DEF after, receivers, satisfied, delays
    <3> QED BY <3>2, <3>3 DEF DataType
  <2> HIDE DEF after, g, delay
  <2>6. after.receivers = DOMAIN g
    BY <2>1, <2>4 DEF Measures
  <2>7. after.satisfied = {w \in DOMAIN g : g[w] - after.start_time <= RequiredDelay}
    <3>1. data.satisfied = {w \in DOMAIN h : g[w] - data.start_time <= RequiredDelay}
      BY <2>1 DEF Measures
    <3>2. g[v] - data.start_time = delay
      BY <2>1 DEF delay
    <3> QED BY <2>1, <2>4, <3>1, <3>2
  <2>8. Len(after.delays) = Cardinality(DOMAIN g)
    <3>1. IsFiniteSet(DOMAIN h)
      <4>1. DOMAIN h \subseteq Vehicle
        BY DEF Hearing
      <4> QED BY <4>1, FS_Subset, MeasurementAssumption
    <3>2. Cardinality(DOMAIN h \cup {v}) = Cardinality(DOMAIN h) + 1
      BY <1>2, <3>1, FS_AddElement
    <3>3. Len(after.delays) = Len(data.delays) + 1
      BY <2>2, <2>4, AppendedSet
    <3> QED BY <2>1, <3>2, <3>3 DEF Measures
  <2>9. ToSet(after.delays) = {g[w] - after.start_time : w \in DOMAIN g}
    <3>1. ToSet(after.delays) = ToSet(data.delays) \cup {delay}
      BY <2>2, <2>4, AppendedSet
    <3>2. ToSet(data.delays) = {g[w] - data.start_time : w \in DOMAIN h}
      BY <2>1 DEF Measures
    <3>3. g[v] - data.start_time = delay
      BY <2>1 DEF delay
    <3> QED BY <2>1, <2>4, <3>1, <3>2, <3>3
  <2> QED BY <1>2, <2>1, <2>4, <2>5, <2>6, <2>7, <2>8, <2>9 DEF Measures, after, g
<1> QED BY <1>1, <1>2

\* What a line of the forwarder adds: one to a counter, and nothing else.
LEMMA ForwarderLines ==
    ASSUME NEW result \in ResultType, NEW n, NEW a
    PROVE  /\ LET after == Incoming(result, n, a)
              IN  /\ after \in ResultType
                  /\ after.alert_data = result.alert_data
                  /\ after.duplicate_drops = result.duplicate_drops
                  /\ after.incoming_alerts = result.incoming_alerts + 1
           /\ LET after == ReadLine(result, Line("duplicate", n, a))
              IN  /\ after \in ResultType
                  /\ after.alert_data = result.alert_data
                  /\ after.duplicate_drops = result.duplicate_drops + 1
                  /\ after.incoming_alerts = result.incoming_alerts
<1>1. Incoming(result, n, a) = [result EXCEPT !.incoming_alerts = @ + 1]
  BY DEF Incoming, ReadLine, Line
<1>2. ReadLine(result, Line("duplicate", n, a)) = [result EXCEPT !.duplicate_drops = @ + 1]
  BY DEF ReadLine, Line
<1> QED BY <1>1, <1>2 DEF ResultType

\* An alert that is sent starts with no receivers.
LEMMA AnnouncedData ==
    ASSUME TypeInv, NEW result \in ResultType, NEW v, NEW a \in Alert,
           DOMAIN heard[a] = {}
    PROVE  LET after == Announced(result, v, a)
           IN  /\ after \in ResultType
               /\ DOMAIN after.alert_data = DOMAIN result.alert_data \cup {a}
               /\ after.alert_data[a].veh_count = Cardinality(inside)
               /\ Measures(after.alert_data[a], heard[a])
               /\ \A b \in DOMAIN result.alert_data \ {a} :
                    after.alert_data[b] = result.alert_data[b]
               /\ after.duplicate_drops = result.duplicate_drops
               /\ after.incoming_alerts = result.incoming_alerts
<1> DEFINE after == Announced(result, v, a)
           new == [start_time |-> now, veh_count |-> Cardinality(inside),
                   receivers |-> {}, satisfied |-> {}, delays |-> <<>>]
<1>1. new \in DataType
  <2>1. IsFiniteSet(inside)
    BY FS_Subset, MeasurementAssumption DEF TypeInv
  <2>2. Cardinality(inside) \in Nat
    BY <2>1, FS_CardinalityType
  <2> QED BY <2>2 DEF DataType, TypeInv
<1>2. Measures(new, heard[a])
  <2>1. Len(<<>>) = 0
    OBVIOUS
  <2>2. Cardinality({}) = 0
    BY FS_EmptySet
  <2>3. ToSet(<<>>) = {}
    BY DEF ToSet
  <2> QED BY <2>1, <2>2, <2>3 DEF Measures
<1>3. after = [result EXCEPT !.alert_data = Put(@, a, new)]
  BY DEF Announced, ReadLine, ReadProducer, NewAlert, CountInside
<1> HIDE DEF after, new
<1>4. PICK S \in SUBSET Alert : result.alert_data \in [S -> DataType]
  BY DEF ResultType
<1> DEFINE data == Put(result.alert_data, a, new)
<1>5. data = [k \in S \cup {a} |-> IF k = a THEN new ELSE result.alert_data[k]]
  BY <1>4 DEF Put
<1>6. data \in [S \cup {a} -> DataType]
  BY <1>1, <1>4, <1>5
<1>7. /\ DOMAIN data = DOMAIN result.alert_data \cup {a} /\ data[a] = new
      /\ \A b \in DOMAIN result.alert_data \ {a} : data[b] = result.alert_data[b]
  BY <1>4, <1>5
<1> HIDE DEF data
<1>8. after = [result EXCEPT !.alert_data = data]
  BY <1>3 DEF data
<1>9. after \in ResultType
  <2>1. data \in UNION {[T -> DataType] : T \in SUBSET Alert}
    BY <1>6
  <2> QED BY <1>8, <2>1 DEF ResultType
<1>10. /\ after.alert_data = data
       /\ after.duplicate_drops = result.duplicate_drops
       /\ after.incoming_alerts = result.incoming_alerts
  BY <1>8 DEF ResultType
<1>11. new.veh_count = Cardinality(inside)
  BY DEF new
<1> QED BY <1>2, <1>7, <1>9, <1>10, <1>11 DEF after

\* Handing an alert to a vehicle: the analysis and the history agree on it again.
LEMMA HandingMeasures ==
    ASSUME TypeInv, NEW result \in ResultType, NEW v \in Vehicle, NEW a \in Alert,
           a \in DOMAIN result.alert_data, NEW subscribed \in BOOLEAN,
           Measures(result.alert_data[a], heard[a]), Hear(v, a, subscribed)
    PROVE  LET after == HandedTo(result, v, a, subscribed)
           IN  /\ after \in ResultType
               /\ DOMAIN after.alert_data = DOMAIN result.alert_data
               /\ heard' \in [Alert -> Hearing]
               /\ Measures(after.alert_data[a], heard'[a])
               /\ after.alert_data[a].veh_count = result.alert_data[a].veh_count
               /\ \A b \in Alert \ {a} : heard'[b] = heard[b]
               /\ \A b \in DOMAIN result.alert_data \ {a} :
                    after.alert_data[b] = result.alert_data[b]
               /\ after.duplicate_drops = result.duplicate_drops
               /\ after.incoming_alerts = result.incoming_alerts
<1> DEFINE after == HandedTo(result, v, a, subscribed)
           line == Line("consumer", v, a)
<1>1. CASE ~(v \in inside /\ subscribed)
  BY <1>1 DEF HandedTo, Hear, TypeInv
<1>2. CASE v \in inside /\ subscribed
  <2>1. PICK S \in SUBSET Alert : result.alert_data \in [S -> DataType]
    BY DEF ResultType
  <2>2. /\ line.node = v /\ line.time = now /\ line.name = a /\ line.kind = "consumer"
        /\ now \in Nat
    BY DEF Line, TypeInv
  <2> HIDE DEF line
  <2> DEFINE new == Count(result.alert_data[a], line)
             data == [result.alert_data EXCEPT ![a] = new]
             g == IF v \notin DOMAIN heard[a] THEN Put(heard[a], v, line.time) ELSE heard[a]
  <2>3. result.alert_data[a] \in DataType /\ heard[a] \in Hearing
    BY <2>1 DEF TypeInv
  <2>4. /\ new \in DataType /\ g \in Hearing /\ Measures(new, g)
        /\ new.veh_count = result.alert_data[a].veh_count
    BY <2>2, <2>3, CountMeasures
  <2>5. after = [result EXCEPT !.alert_data = data]
    BY <1>2, <2>2 DEF HandedTo, ReadLine, ReadConsumer, line
  <2>6. heard' = [heard EXCEPT ![a] = g]
    BY <1>2, <2>2 DEF Hear, TypeInv
  <2> HIDE DEF after, new, g
  <2>7. /\ data \in [S -> DataType] /\ DOMAIN data = DOMAIN result.alert_data /\ data[a] = new
        /\ \A b \in DOMAIN result.alert_data \ {a} : data[b] = result.alert_data[b]
    BY <2>1, <2>4
  <2> HIDE DEF data
  <2>8. after \in ResultType
    <3>1. data \in UNION {[T -> DataType] : T \in SUBSET Alert}
      BY <2>7
    <3> QED BY <2>5, <3>1 DEF ResultType
  <2>9. /\ after.alert_data = data
        /\ after.duplicate_drops = result.duplicate_drops
        /\ after.incoming_alerts = result.incoming_alerts
    BY <2>5 DEF ResultType
  <2>10. /\ heard' \in [Alert -> Hearing] /\ heard'[a] = g
         /\ \A b \in Alert \ {a} : heard'[b] = heard[b]
    BY <2>4, <2>6 DEF TypeInv
  <2> QED BY <2>4, <2>7, <2>8, <2>9, <2>10 DEF after
<1> QED BY <1>1, <1>2

-----------------------------------------------------------------------------
(***************************************************************************)
(* The copies a node has handled.                                          *)
(***************************************************************************)
Handled(c) == {na \in DOMAIN c : c[na] > 0}

\* One copy more: a node that had handled none has now, and the others as before.
LEMMA OneMoreCopy ==
    ASSUME NEW c \in [Node \X Alert -> Nat], NEW n \in Node, NEW a \in Alert
    PROVE  LET d == [c EXCEPT ![<<n, a>>] = @ + 1]
           IN  /\ d \in [Node \X Alert -> Nat]
               /\ d[<<n, a>>] > 0
               /\ \A na \in Node \X Alert : c[na] > 0 => d[na] > 0
               /\ Cardinality(Handled(c)) \in Nat
               /\ Cardinality(Handled(d)) \in Nat
               /\ Cardinality(Handled(d)) <= Cardinality(Handled(c)) + 1
               /\ c[<<n, a>>] > 0 => Cardinality(Handled(d)) = Cardinality(Handled(c))
<1> DEFINE d == [c EXCEPT ![<<n, a>>] = @ + 1]
           na == <<n, a>>
<1>1. na \in Node \X Alert
  OBVIOUS
<1> HIDE DEF na
<1>2. /\ d \in [Node \X Alert -> Nat] /\ d[na] > 0
      /\ \A o \in Node \X Alert : o # na => d[o] = c[o]
      /\ \A o \in Node \X Alert : c[o] > 0 => d[o] > 0
  BY <1>1 DEF na
<1> HIDE DEF d
<1>3. Handled(d) = Handled(c) \cup {na}
  BY <1>1, <1>2 DEF Handled
<1>4. IsFiniteSet(Handled(c))
  <2>1. IsFiniteSet(Vehicle \cup Rsu)
    BY FS_Union, MeasurementAssumption
  <2>2. IsFiniteSet(Node \X Alert)
    BY <2>1, FS_Product, MeasurementAssumption DEF Node
  <2>3. Handled(c) \subseteq Node \X Alert
    BY DEF Handled
  <2> QED BY <2>2, <2>3, FS_Subset
<1>5. /\ Cardinality(Handled(c)) \in Nat
      /\ Cardinality(Handled(c) \cup {na}) =
           IF na \in Handled(c) THEN Cardinality(Handled(c)) ELSE Cardinality(Handled(c)) + 1
  BY <1>4, FS_CardinalityType, FS_AddElement
<1>6. c[na] > 0 => na \in Handled(c)
  BY <1>1 DEF Handled
<1> DEFINE before == Cardinality(Handled(c))
           later == Cardinality(Handled(d))
<1>7. /\ before \in Nat
      /\ later = IF na \in Handled(c) THEN before ELSE before + 1
  BY <1>3, <1>5
<1> HIDE DEF before, later
<1>8. before \in Nat /\ later \in Nat /\ later <= before + 1 /\ (c[na] > 0 => later = before)
  BY <1>6, <1>7
<1> QED BY <1>2, <1>8 DEF before, later, d, na

-----------------------------------------------------------------------------
(***************************************************************************)
(* The invariant.                                                          *)
(***************************************************************************)
\* The counters of the analysis against the copies, in the words of the lemmas.
CountersOf(result, c) ==
    result.duplicate_drops + Cardinality(Handled(c)) <= result.incoming_alerts

AllMeasured == \A a \in Sent : Measures(analysis.alert_data[a], heard[a])

\* The invariant is about one alert, one hearing and one result at a time.
LEMMA InWords ==
    /\ MeasuredIsWhatHappened <=> AllMeasured
    /\ DuplicatesAreLaterCopies <=> CountersOf(analysis, copies)
  BY DEF MeasuredIsWhatHappened, AllMeasured, DuplicatesAreLaterCopies, CountersOf, Measures,
         Handled

\* Nothing is sent at first.
LEMMA InitMeasures == Init => MeasurementInv
<1> SUFFICES ASSUME Init PROVE MeasurementInv
  OBVIOUS
<1> DEFINE empty == <<>>
<1>1. DOMAIN empty = {} /\ empty \in [{} -> Nat] /\ empty \in [{} -> DataType]
  OBVIOUS
<1>2. empty \in Hearing /\ empty \in UNION {[S -> DataType] : S \in SUBSET Alert}
  BY <1>1 DEF Hearing
<1> HIDE DEF empty
<1>3. /\ analysis = [alert_data |-> empty, duplicate_drops |-> 0, incoming_alerts |-> 0]
      /\ heard = [a \in Alert |-> empty]
  BY DEF Init, empty
<1>4. TypeInv
  <2>1. analysis \in ResultType
    BY <1>2, <1>3 DEF ResultType
  <2>2. heard \in [Alert -> Hearing]
    BY <1>2, <1>3
  <2> QED BY <2>1, <2>2 DEF Init, TypeInv
<1>5. Sent = {}
  BY <1>1, <1>3 DEF Sent
<1>6. MeasuredIsWhatHappened /\ CountedWhenSent
  BY <1>5 DEF MeasuredIsWhatHappened, CountedWhenSent
<1>7. HeardIsSent
  BY <1>1, <1>3 DEF HeardIsSent
<1>8. StoredIsHandled
  BY DEF Init, StoredIsHandled
<1>9. DuplicatesAreLaterCopies
  <2>1. Handled(copies) = {}
    BY DEF Init, Handled
  <2>2. Cardinality(Handled(copies)) = 0
    BY <2>1, FS_EmptySet
  <2> QED BY <1>3, <2>2, InWords DEF CountersOf
<1> QED BY <1>4, <1>6, <1>7, <1>8, <1>9 DEF MeasurementInv

\* A producer sends an alert.
LEMMA SendMeasures ==
    ASSUME MeasurementInv, NEW v \in Vehicle, NEW a \in Alert, SendAlert(v, a)
    PROVE  MeasurementInv'
<1>1. PICK subscribed \in BOOLEAN :
        /\ Hear(v, a, subscribed)
        /\ analysis' = HandedTo(Incoming(Announced(analysis, v, a), v, a), v, a, subscribed)
  BY DEF SendAlert
<1> DEFINE first == Announced(analysis, v, a)
           second == Incoming(first, v, a)
           third == HandedTo(second, v, a, subscribed)
<1>2. TypeInv /\ analysis \in ResultType /\ v \in Node /\ a \notin Sent
  BY DEF MeasurementInv, TypeInv, Node, SendAlert
<1>3. DOMAIN heard[a] = {}
  BY <1>2 DEF MeasurementInv, HeardIsSent
<1>4. /\ first \in ResultType
      /\ DOMAIN first.alert_data = Sent \cup {a}
      /\ first.alert_data[a].veh_count = Cardinality(inside)
      /\ Measures(first.alert_data[a], heard[a])
      /\ \A b \in Sent : first.alert_data[b] = analysis.alert_data[b]
      /\ first.duplicate_drops = analysis.duplicate_drops
      /\ first.incoming_alerts = analysis.incoming_alerts
  <2>1. /\ first \in ResultType
        /\ DOMAIN first.alert_data = DOMAIN analysis.alert_data \cup {a}
        /\ first.alert_data[a].veh_count = Cardinality(inside)
        /\ Measures(first.alert_data[a], heard[a])
        /\ \A b \in DOMAIN analysis.alert_data \ {a} :
             first.alert_data[b] = analysis.alert_data[b]
        /\ first.duplicate_drops = analysis.duplicate_drops
        /\ first.incoming_alerts = analysis.incoming_alerts
    BY <1>2, <1>3, AnnouncedData
  <2> QED BY <1>2, <2>1 DEF Sent
<1> HIDE DEF first
<1>5. /\ second \in ResultType
      /\ second.alert_data = first.alert_data
      /\ second.duplicate_drops = analysis.duplicate_drops
      /\ second.incoming_alerts = analysis.incoming_alerts + 1
  BY <1>4, ForwarderLines
<1> HIDE DEF second
<1>6. /\ third \in ResultType
      /\ DOMAIN third.alert_data = Sent \cup {a}
      /\ heard' \in [Alert -> Hearing]
      /\ Measures(third.alert_data[a], heard'[a])
      /\ third.alert_data[a].veh_count = Cardinality(inside)
      /\ \A b \in Alert \ {a} : heard'[b] = heard[b]
      /\ \A b \in Sent : third.alert_data[b] = analysis.alert_data[b]
      /\ third.duplicate_drops = analysis.duplicate_drops
      /\ third.incoming_alerts = analysis.incoming_alerts + 1
  <2>1. a \in DOMAIN second.alert_data /\ Measures(second.alert_data[a], heard[a])
    BY <1>4, <1>5
  <2>2. /\ third \in ResultType
        /\ DOMAIN third.alert_data = DOMAIN second.alert_data
        /\ heard' \in [Alert -> Hearing]
        /\ Measures(third.alert_data[a], heard'[a])
        /\ third.alert_data[a].veh_count = second.alert_data[a].veh_count
        /\ \A b \in Alert \ {a} : heard'[b] = heard[b]
        /\ \A b \in DOMAIN second.alert_data \ {a} : third.alert_data[b] = second.alert_data[b]
        /\ third.duplicate_drops = second.duplicate_drops
        /\ third.incoming_alerts = second.incoming_alerts
    BY <1>1, <1>2, <1>5, <2>1, HandingMeasures
  <2> HIDE DEF third
  <2> QED BY <1>2, <1>4, <1>5, <2>2
<1>7. analysis' = third
  BY <1>1 DEF first, second
<1> HIDE DEF third
<1>8. /\ copies' = [copies EXCEPT ![<<v, a>>] = @ + 1]
      /\ copies \in [Node \X Alert -> Nat]
  BY DEF SendAlert, MeasurementInv, TypeInv
<1>9. /\ copies' \in [Node \X Alert -> Nat]
      /\ copies'[<<v, a>>] > 0
      /\ \A na \in Node \X Alert : copies[na] > 0 => copies'[na] > 0
      /\ Cardinality(Handled(copies)) \in Nat
      /\ Cardinality(Handled(copies')) \in Nat
      /\ Cardinality(Handled(copies')) <= Cardinality(Handled(copies)) + 1
  BY <1>2, <1>8, OneMoreCopy
<1>10. TypeInv'
  BY <1>2, <1>6, <1>7, <1>9 DEF TypeInv, SendAlert
<1>11. Sent' = Sent \cup {a} /\ Sent \subseteq Alert
  <2>1. Sent' = DOMAIN third.alert_data
    BY <1>7 DEF Sent
  <2>2. Sent \subseteq Alert
    BY <1>2 DEF Sent, ResultType
  <2> QED BY <1>6, <2>1, <2>2
<1>12. MeasuredIsWhatHappened'
  <2>1. \A b \in Sent : Measures(analysis.alert_data[b], heard[b])
    BY InWords DEF MeasurementInv, AllMeasured
  <2>2. \A b \in Sent \cup {a} : Measures(third.alert_data[b], heard'[b])
    BY <1>6, <1>11, <2>1
  <2>3. AllMeasured'
    BY <1>7, <1>11, <2>2 DEF AllMeasured
  <2> QED BY <2>3, InWords, PTL
<1>13. CountedWhenSent'
  <2>1. target' = [target EXCEPT ![a] = inside] /\ target \in [Alert -> SUBSET Vehicle]
    BY <1>2 DEF SendAlert, TypeInv
  <2>2. \A b \in Sent : analysis.alert_data[b].veh_count = Cardinality(target[b])
    BY DEF MeasurementInv, CountedWhenSent
  <2>3. \A b \in Sent \cup {a} : third.alert_data[b].veh_count = Cardinality(target'[b])
    BY <1>2, <1>6, <1>11, <2>1, <2>2
  <2> QED BY <1>7, <1>11, <2>3 DEF CountedWhenSent
<1>14. HeardIsSent'
  BY <1>6, <1>11 DEF MeasurementInv, HeardIsSent
<1>15. StoredIsHandled'
  BY <1>2, <1>9 DEF MeasurementInv, StoredIsHandled, SendAlert, TypeInv
<1>16. DuplicatesAreLaterCopies'
  <2> DEFINE before == Cardinality(Handled(copies))
             later == Cardinality(Handled(copies'))
  <2>1. before \in Nat /\ later \in Nat /\ later <= before + 1
    BY <1>9
  <2>2. analysis.duplicate_drops + before <= analysis.incoming_alerts
    BY InWords DEF MeasurementInv, CountersOf
  <2> HIDE DEF before, later
  <2>3. analysis.duplicate_drops \in Nat /\ analysis.incoming_alerts \in Nat
    BY <1>2 DEF ResultType
  <2>4. third.duplicate_drops + later <= third.incoming_alerts
    BY <1>6, <2>1, <2>2, <2>3
  <2>5. CountersOf(analysis, copies)'
    BY <1>7, <2>4 DEF CountersOf, later, Handled
  <2> QED BY <2>5, InWords, PTL
<1> QED BY <1>10, <1>12, <1>13, <1>14, <1>15, <1>16 DEF MeasurementInv

\* A copy that arrives, whatever its node makes of it: the analysis and the history
\* still agree on the alert, and a duplicate is counted only of a known alert.
LEMMA CopyMeasures ==
    ASSUME MeasurementInv, NEW n \in Node, NEW a \in Sent, Arrives(n, a),
           stored' \subseteq stored \cup {<<n, a>>},
           analysis' \in ResultType, heard' \in [Alert -> Hearing],
           DOMAIN analysis'.alert_data = Sent,
           Measures(analysis'.alert_data[a], heard'[a]),
           analysis'.alert_data[a].veh_count = analysis.alert_data[a].veh_count,
           \A b \in Alert \ {a} : heard'[b] = heard[b],
           \A b \in Sent \ {a} : analysis'.alert_data[b] = analysis.alert_data[b],
           analysis'.incoming_alerts = analysis.incoming_alerts + 1,
           \/ analysis'.duplicate_drops = analysis.duplicate_drops
           \/ /\ analysis'.duplicate_drops = analysis.duplicate_drops + 1
              /\ <<n, a>> \in stored
    PROVE  MeasurementInv'
<1>1. TypeInv /\ Sent \subseteq Alert /\ a \in Alert
  BY DEF MeasurementInv, TypeInv, Sent, ResultType
<1>2. copies' = [copies EXCEPT ![<<n, a>>] = @ + 1] /\ copies \in [Node \X Alert -> Nat]
  BY <1>1 DEF Arrives, TypeInv
<1>3. /\ copies' \in [Node \X Alert -> Nat]
      /\ copies'[<<n, a>>] > 0
      /\ \A na \in Node \X Alert : copies[na] > 0 => copies'[na] > 0
      /\ Cardinality(Handled(copies)) \in Nat
      /\ Cardinality(Handled(copies')) \in Nat
      /\ Cardinality(Handled(copies')) <= Cardinality(Handled(copies)) + 1
      /\ copies[<<n, a>>] > 0 => Cardinality(Handled(copies')) = Cardinality(Handled(copies))
  <2> DEFINE d == [copies EXCEPT ![<<n, a>>] = @ + 1]
  <2>1. /\ d \in [Node \X Alert -> Nat]
        /\ d[<<n, a>>] > 0
        /\ \A na \in Node \X Alert : copies[na] > 0 => d[na] > 0
        /\ Cardinality(Handled(copies)) \in Nat
        /\ Cardinality(Handled(d)) \in Nat
        /\ Cardinality(Handled(d)) <= Cardinality(Handled(copies)) + 1
        /\ copies[<<n, a>>] > 0 => Cardinality(Handled(d)) = Cardinality(Handled(copies))
    BY <1>1, <1>2, n \in Node, OneMoreCopy
  <2> HIDE DEF d
  <2> QED BY <1>2, <2>1 DEF d
<1>4. TypeInv'
  <2>1. stored' \subseteq Node \X Alert
    BY <1>1 DEF TypeInv
  <2>2. now' \in Nat /\ inside' \subseteq Vehicle /\ target' \in [Alert -> SUBSET Vehicle]
    BY <1>1 DEF TypeInv, Arrives
  <2> QED BY <1>3, <2>1, <2>2 DEF TypeInv
<1>5. Sent' = Sent
  BY DEF Sent
<1>6. MeasuredIsWhatHappened'
  <2>1. \A b \in Sent : Measures(analysis.alert_data[b], heard[b])
    BY InWords DEF MeasurementInv, AllMeasured
  <2>2. \A b \in Sent : Measures(analysis'.alert_data[b], heard'[b])
    BY <1>1, <2>1
  <2>3. AllMeasured'
    BY <1>5, <2>2 DEF AllMeasured
  <2> QED BY <2>3, InWords, PTL
<1>7. CountedWhenSent'
  <2>1. \A b \in Sent : analysis'.alert_data[b].veh_count = analysis.alert_data[b].veh_count
    OBVIOUS
  <2>2. target' = target
    BY DEF Arrives
  <2> QED BY <1>5, <2>1, <2>2 DEF MeasurementInv, CountedWhenSent
<1>8. HeardIsSent'
  BY <1>5 DEF MeasurementInv, HeardIsSent
<1>9. StoredIsHandled'
  BY <1>1, <1>3 DEF MeasurementInv, StoredIsHandled, TypeInv
<1>10. DuplicatesAreLaterCopies'
  <2> DEFINE before == Cardinality(Handled(copies))
             later == Cardinality(Handled(copies'))
             drops == analysis'.duplicate_drops
             incoming == analysis'.incoming_alerts
  <2>1. /\ before \in Nat /\ later \in Nat /\ later <= before + 1
        /\ <<n, a>> \in stored => later = before
    BY <1>3 DEF MeasurementInv, StoredIsHandled
  <2>2. analysis.duplicate_drops + before <= analysis.incoming_alerts
    BY InWords DEF MeasurementInv, CountersOf
  <2>3. analysis.duplicate_drops \in Nat /\ analysis.incoming_alerts \in Nat
    BY <1>1 DEF TypeInv, ResultType
  <2>4. /\ incoming = analysis.incoming_alerts + 1
        /\ \/ drops = analysis.duplicate_drops
           \/ drops = analysis.duplicate_drops + 1 /\ <<n, a>> \in stored
    OBVIOUS
  <2> HIDE DEF before, later, drops, incoming
  <2>5. drops + later <= incoming
    BY <2>1, <2>2, <2>3, <2>4
  <2>6. CountersOf(analysis, copies)'
    BY <2>5 DEF CountersOf, later, Handled, drops, incoming
  <2> QED BY <2>6, InWords, PTL
<1> QED BY <1>4, <1>6, <1>7, <1>8, <1>9, <1>10 DEF MeasurementInv

\* A copy that only the forwarder's own lines tell of.
LEMMA LoggedMeasures ==
    ASSUME MeasurementInv, NEW n \in Node, NEW a \in Alert, Arrives(n, a),
           stored' \subseteq stored \cup {<<n, a>>}, heard' = heard,
           \/ analysis' = Incoming(analysis, n, a)
           \/ /\ analysis' = ReadLine(Incoming(analysis, n, a), Line("duplicate", n, a))
              /\ <<n, a>> \in stored
    PROVE  MeasurementInv'
<1> DEFINE one == Incoming(analysis, n, a)
           two == ReadLine(one, Line("duplicate", n, a))
<1>1. TypeInv /\ analysis \in ResultType /\ a \in Sent
  BY DEF MeasurementInv, TypeInv, Arrives
<1>2. /\ one \in ResultType
      /\ one.alert_data = analysis.alert_data
      /\ one.duplicate_drops = analysis.duplicate_drops
      /\ one.incoming_alerts = analysis.incoming_alerts + 1
  BY <1>1, ForwarderLines
<1> HIDE DEF one
<1>3. /\ two \in ResultType
      /\ two.alert_data = analysis.alert_data
      /\ two.duplicate_drops = analysis.duplicate_drops + 1
      /\ two.incoming_alerts = analysis.incoming_alerts + 1
  BY <1>2, ForwarderLines
<1>4. analysis' = one \/ (analysis' = two /\ <<n, a>> \in stored)
  BY DEF one
<1> HIDE DEF two
<1>5. /\ analysis' \in ResultType
      /\ analysis'.alert_data = analysis.alert_data
      /\ analysis'.incoming_alerts = analysis.incoming_alerts + 1
      /\ \/ analysis'.duplicate_drops = analysis.duplicate_drops
         \/ /\ analysis'.duplicate_drops = analysis.duplicate_drops + 1
            /\ <<n, a>> \in stored
  BY <1>2, <1>3, <1>4
<1>6. heard' \in [Alert -> Hearing] /\ Measures(analysis'.alert_data[a], heard'[a])
  BY <1>1, <1>5, InWords DEF MeasurementInv, AllMeasured, TypeInv
<1>7. DOMAIN analysis'.alert_data = Sent
  BY <1>5 DEF Sent
<1> QED BY <1>1, <1>5, <1>6, <1>7, CopyMeasures

\* A vehicle takes in a new alert.
LEMMA NewMeasures ==
    ASSUME MeasurementInv, NEW v \in Vehicle, NEW a \in Alert, ReceiveNew(v, a)
    PROVE  MeasurementInv'
<1>1. /\ TypeInv /\ analysis \in ResultType /\ a \in Sent /\ v \in Node /\ Arrives(v, a)
      /\ stored' \subseteq stored \cup {<<v, a>>}
  BY DEF MeasurementInv, TypeInv, Arrives, Node, ReceiveNew
<1>2. CASE heard' = heard /\ analysis' = Incoming(analysis, v, a)
  BY <1>1, <1>2, LoggedMeasures
<1>3. ASSUME NEW subscribed \in BOOLEAN, Hear(v, a, subscribed),
             analysis' = HandedTo(Incoming(analysis, v, a), v, a, subscribed)
      PROVE  MeasurementInv'
  <2> DEFINE one == Incoming(analysis, v, a)
             two == HandedTo(one, v, a, subscribed)
  <2>1. /\ one \in ResultType
        /\ one.alert_data = analysis.alert_data
        /\ one.duplicate_drops = analysis.duplicate_drops
        /\ one.incoming_alerts = analysis.incoming_alerts + 1
    BY <1>1, ForwarderLines
  <2> HIDE DEF one
  <2>2. a \in DOMAIN one.alert_data /\ Measures(one.alert_data[a], heard[a])
    BY <1>1, <2>1, InWords DEF MeasurementInv, AllMeasured, Sent
  <2>3. /\ two \in ResultType
        /\ DOMAIN two.alert_data = DOMAIN one.alert_data
        /\ heard' \in [Alert -> Hearing]
        /\ Measures(two.alert_data[a], heard'[a])
        /\ two.alert_data[a].veh_count = one.alert_data[a].veh_count
        /\ \A b \in Alert \ {a} : heard'[b] = heard[b]
        /\ \A b \in DOMAIN one.alert_data \ {a} : two.alert_data[b] = one.alert_data[b]
        /\ two.duplicate_drops = one.duplicate_drops
        /\ two.incoming_alerts = one.incoming_alerts
    BY <1>1, <1>3, <2>1, <2>2, HandingMeasures
  <2>4. analysis' = two
    BY <1>3 DEF one
  <2> HIDE DEF two
  <2>5. /\ analysis' \in ResultType
        /\ DOMAIN analysis'.alert_data = Sent
        /\ Measures(analysis'.alert_data[a], heard'[a])
        /\ analysis'.alert_data[a].veh_count = analysis.alert_data[a].veh_count
        /\ \A b \in Sent \ {a} : analysis'.alert_data[b] = analysis.alert_data[b]
        /\ analysis'.duplicate_drops = analysis.duplicate_drops
        /\ analysis'.incoming_alerts = analysis.incoming_alerts + 1
    BY <2>1, <2>3, <2>4 DEF Sent
  <2> QED BY <1>1, <2>3, <2>5, CopyMeasures
<1> QED BY <1>2, <1>3 DEF ReceiveNew

-----------------------------------------------------------------------------
(***************************************************************************)
(* The theorems.                                                           *)
(***************************************************************************)

\* Steps that neither log a line nor carry a copy.
LEMMA SilentMeasures ==
    ASSUME MeasurementInv, UNCHANGED <<analysis, copies, target, heard>>,
           stored' \subseteq stored, now' \in Nat, inside' \subseteq Vehicle
    PROVE  MeasurementInv'
<1>1. TypeInv'
  BY DEF MeasurementInv, TypeInv
<1>2. MeasuredIsWhatHappened' /\ CountedWhenSent' /\ HeardIsSent' /\ DuplicatesAreLaterCopies'
  BY DEF MeasurementInv, MeasuredIsWhatHappened, CountedWhenSent, HeardIsSent,
         DuplicatesAreLaterCopies, Sent
<1>3. StoredIsHandled'
  BY DEF MeasurementInv, StoredIsHandled
<1> QED BY <1>1, <1>2, <1>3 DEF MeasurementInv

LEMMA NextMeasures ==
    ASSUME MeasurementInv, [Next]_vars
    PROVE  MeasurementInv'
<1>1. TypeInv
  BY DEF MeasurementInv
<1>2. CASE Tick
  BY <1>1, <1>2, SilentMeasures DEF Tick, TypeInv
<1>3. ASSUME NEW v \in Vehicle, Move(v)
      PROVE  MeasurementInv'
  BY <1>1, <1>3, SilentMeasures DEF Move, TypeInv
<1>4. ASSUME NEW v \in Vehicle, NEW a \in Alert, SendAlert(v, a)
      PROVE  MeasurementInv'
  BY <1>4, SendMeasures
<1>5. ASSUME NEW v \in Vehicle, NEW a \in Alert, ReceiveDuplicate(v, a)
      PROVE  MeasurementInv'
  BY <1>5, LoggedMeasures DEF ReceiveDuplicate, IsDuplicate, Node
<1>6. ASSUME NEW v \in Vehicle, NEW a \in Alert, ReceiveNew(v, a)
      PROVE  MeasurementInv'
  BY <1>6, NewMeasures
<1>7. ASSUME NEW v \in Vehicle, NEW a \in Alert, Transmit(v, a)
      PROVE  MeasurementInv'
  BY <1>1, <1>7, SilentMeasures DEF Transmit, TypeInv
<1>8. ASSUME NEW r \in Rsu, NEW a \in Alert, ReceiveAtRsu(r, a)
      PROVE  MeasurementInv'
  BY <1>8, LoggedMeasures DEF ReceiveAtRsu, Node
<1>9. ASSUME NEW n \in Node, NEW a \in Alert, Evict(n, a)
      PROVE  MeasurementInv'
  BY <1>1, <1>9, SilentMeasures DEF Evict, TypeInv
<1>10. CASE UNCHANGED vars
  BY <1>1, <1>10, SilentMeasures DEF vars, TypeInv
<1> QED BY <1>2, <1>3, <1>4, <1>5, <1>6, <1>7, <1>8, <1>9, <1>10 DEF Next

LEMMA MeasurementInvariant == Spec => []MeasurementInv
  BY InitMeasures, NextMeasures, PTL DEF Spec

\* The ratio of one alert: the vehicles that heard of it, cut at those that were
\* in the zone when it was sent.
LEMMA RatiosAreRight ==
    ASSUME MeasurementInv
    PROVE  OverstatedByLateComersOnly
<1> SUFFICES ASSUME NEW a \in Sent
             PROVE  /\ Pdr(a) >= Cardinality(target[a] \cap DOMAIN heard[a])
                    /\ Psr(a) <= Pdr(a)
                    /\ Pdr(a) > Cardinality(target[a] \cap DOMAIN heard[a])
                         => DOMAIN heard[a] \ target[a] # {}
                    /\ a \in FailedPackets => Pdr(a) = 0
  BY DEF OverstatedByLateComersOnly
<1> DEFINE data == analysis.alert_data[a]
           hearers == DOMAIN heard[a]
           reached == target[a] \cap hearers
<1>1. a \in Alert /\ data.satisfied \subseteq data.receivers /\ data.receivers = hearers
  BY DEF MeasurementInv, TypeInv, ResultType, Sent, MeasuredIsWhatHappened
<1>2. hearers \subseteq Vehicle /\ target[a] \subseteq Vehicle
  <2>1. heard[a] \in Hearing /\ target[a] \in SUBSET Vehicle
    BY <1>1 DEF MeasurementInv, TypeInv
  <2> QED BY <2>1 DEF Hearing
<1>3. data.veh_count = Cardinality(target[a])
  BY DEF MeasurementInv, CountedWhenSent
<1> DEFINE satisfied == data.satisfied
           aimed == target[a]
<1>4. /\ IsFiniteSet(hearers) /\ IsFiniteSet(aimed) /\ reached \subseteq hearers
      /\ reached \subseteq aimed /\ satisfied \subseteq hearers
  <2>1. IsFiniteSet(hearers) /\ IsFiniteSet(aimed)
    BY <1>2, FS_Subset, MeasurementAssumption
  <2> QED BY <1>1, <2>1
<1>5. hearers \ aimed = {} => reached = hearers
  OBVIOUS
<1>6. /\ Pdr(a) = IF Cardinality(hearers) > Cardinality(aimed)
                  THEN Cardinality(aimed) ELSE Cardinality(hearers)
      /\ Psr(a) = IF Cardinality(satisfied) > Cardinality(aimed)
                  THEN Cardinality(aimed) ELSE Cardinality(satisfied)
      /\ a \in FailedPackets => hearers = {}
  BY <1>1, <1>3 DEF Pdr, Psr, Share, FailedPackets
<1> HIDE DEF data, hearers, reached, satisfied, aimed
<1>7. /\ Cardinality(reached) \in Nat /\ Cardinality(satisfied) \in Nat
      /\ Cardinality(hearers) \in Nat /\ Cardinality(aimed) \in Nat
      /\ Cardinality(reached) <= Cardinality(hearers)
      /\ Cardinality(reached) <= Cardinality(aimed)
      /\ Cardinality(satisfied) <= Cardinality(hearers)
  <2>1. IsFiniteSet(reached) /\ IsFiniteSet(satisfied)
    BY <1>4, FS_Subset
  <2> QED BY <1>4, <2>1, FS_Subset, FS_CardinalityType
<1>8. hearers = {} => Cardinality(hearers) = 0
  BY FS_EmptySet
<1>9. /\ Pdr(a) >= Cardinality(reached)
      /\ Psr(a) <= Pdr(a)
      /\ a \in FailedPackets => Pdr(a) = 0
  BY <1>6, <1>7, <1>8
<1>10. Pdr(a) > Cardinality(reached) => hearers \ aimed # {}
  BY <1>5, <1>6, <1>7
<1> QED BY <1>9, <1>10 DEF reached, hearers, aimed

\* What the analysis says of an alert - its receivers, those in time, their delays
\* - is what happened, with any number of vehicles, alerts, copies and evictions
\* (get_results.py:58-70).
THEOREM AnalysisIsRight == Spec => []MeasuredIsWhatHappened
<1>1. MeasurementInv => MeasuredIsWhatHappened
  BY DEF MeasurementInv
<1> QED BY <1>1, MeasurementInvariant, PTL

\* The delivery ratio never understates, and overstates only by vehicles that
\* entered the zone after the alert was sent (get_results.py:92-98).
THEOREM RatioIsRight == Spec => []OverstatedByLateComersOnly
  BY RatiosAreRight, MeasurementInvariant, PTL

\* A counted duplicate is a copy its vehicle had handled before, however many
\* nodes, alerts and copies there are (get_results.py:72-78).
THEOREM DuplicatesAreCounted == Spec => []DuplicatesAreLaterCopies
<1>1. MeasurementInv => DuplicatesAreLaterCopies
  BY DEF MeasurementInv
<1> QED BY <1>1, MeasurementInvariant, PTL
=============================================================================
