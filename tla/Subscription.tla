---------------------------- MODULE Subscription ----------------------------
(***************************************************************************)
(* How an application stays subscribed to alerts: AlertConsumer            *)
(* (src/src/ndnSIM/apps/alert-consumer.cpp), the Pending Interest Table    *)
(* entry behind it (NFD/daemon/fw/forwarder.cpp), the one scheduler all    *)
(* nodes share (ndn-cxx/ndn-cxx/util/scheduler.cpp), and the event queue   *)
(* of ns-3, which runs events of one instant in the order of scheduling.   *)
(* Two more kinds of timers share the scheduler: the marks of every        *)
(* forwarder's DeadNonceList, and the one that deallocates a removed face. *)
(*                                                                         *)
(* Times are waits relative to the present instant.  One application and   *)
(* one name prefix per node; every alert received is a new, relevant one.  *)
(***************************************************************************)
EXTENDS Integers, Sequences, FiniteSets, SequencesExt

CONSTANTS
    Node,        \* nodes with the application, numbers
    Forwarder,   \* nodes with a stack
    StartTime,   \* when the application of each node starts
    StopTime,    \* when the applications that are to stop do so
    LifeTime,    \* of an interest, in ticks
    MarkInterval, \* DeadNonceList::m_markInterval, in ticks
    MaxMarks,    \* bound: how often each list schedules its mark again
    MaxDelay,    \* bound: ticks from the sending of an alert to its arrival
    MaxWakeUps,  \* bound: wake-ups of the scheduler when another alert is sent
    NoRecord     \* "the PIT entry has no in-record"

ASSUME SubscriptionAssumption ==
    /\ Forwarder \subseteq Nat /\ IsFiniteSet(Forwarder) /\ Forwarder # {}
    /\ Node \subseteq Forwarder
    /\ StartTime \in [Node -> Nat]
    /\ DOMAIN StopTime \subseteq Node
    /\ \A n \in DOMAIN StopTime : StopTime[n] \in Nat /\ StopTime[n] > StartTime[n]
    /\ LifeTime \in Nat \ {0}
    /\ MarkInterval \in Nat \ {0}
    /\ MaxMarks \in Nat
    /\ MaxDelay \in Nat \ {0}
    /\ MaxWakeUps \in Nat
    /\ NoRecord \notin Nat

VARIABLES
    events,     \* the queue of ns-3
    queue,      \* Scheduler::m_queue: the timers of all nodes
    entry,      \* which nodes hold a PIT entry for the prefix
    inRecord,   \* how long the application's in-record is still valid
    stopped,    \* nodes whose application has closed its face
    marks,      \* how often each list has scheduled its mark again
    lost        \* history: a posted callback took the node's subscription

vars == <<events, queue, entry, inRecord, stopped, marks, lost>>

-----------------------------------------------------------------------------
\* Mutant of Enqueue: an item always goes to the end.
EnqueueLast(items, item) == Append(items, item)

(***************************************************************************)
(* Both queues are sorted, and an item goes behind those due no later.     *)
(***************************************************************************)
Enqueue(items, item) ==
    LET sooner == Cardinality({i \in DOMAIN items : items[i].wait <= item.wait})
    IN  SubSeq(items, 1, sooner) \o <<item>> \o SubSeq(items, sooner + 1, Len(items))

(***************************************************************************)
(* "valid": m_timerEvent refers to this wake-up; the PIT still holds the   *)
(* entry this callback is for.                                             *)
(***************************************************************************)
Event(kind, node, wait) == [kind |-> kind, node |-> node, wait |-> wait, valid |-> TRUE]

(***************************************************************************)
(* The kind of a timer is that of its callback: "onInterestFinalize" of a  *)
(* PIT entry, "mark" of a DeadNonceList, "deallocate" of a face.           *)
(***************************************************************************)
Timer(kind, node, wait) == [kind |-> kind, node |-> node, wait |-> wait]

Expires(timer, n) == timer.kind = "onInterestFinalize" /\ timer.node = n

(***************************************************************************)
(* Loops over a queue or a list of items, as functions of the number of    *)
(* items done.                                                             *)
(***************************************************************************)
Keeping(items, dropped) ==
    LET kept[i \in 0 .. Len(items)] ==
            IF i = 0 THEN <<>>
            ELSE IF items[i] \in dropped THEN kept[i - 1] ELSE Append(kept[i - 1], items[i])
    IN  kept

Without(items, dropped) == Keeping(items, dropped)[Len(items)]

Adding(items, more) ==
    LET grown[i \in 0 .. Len(more)] ==
            IF i = 0 THEN items ELSE Enqueue(grown[i - 1], more[i])
    IN  grown

EnqueueAll(items, more) == Adding(items, more)[Len(more)]

\* A set of nodes in the order of their identifiers.
InOrder(nodes) ==
    CHOOSE s \in [1 .. Cardinality(nodes) -> nodes] : \A i, j \in DOMAIN s : i < j => s[i] < s[j]

Due(items) == items # <<>> /\ items[1].wait = 0

Invalidate(items, Which(_)) ==
    [i \in DOMAIN items |-> [items[i] EXCEPT !.valid = @ /\ ~Which(items[i])]]

IsWakeUp(e) == e.kind = "executeEvent"

\* m_timerEvent no longer refers to any wake-up.
Forget(sim) == Invalidate(sim.events, IsWakeUp)

\* The entries of these nodes leave the PIT.
Orphan(evs, nodes) ==
    Invalidate(evs, LAMBDA e : e.kind = "onInterestFinalize" /\ e.node \in nodes)

(***************************************************************************)
(* The scheduler, as functions of [events, queue].  A wake-up keeps the    *)
(* context of the node that asked for it.                                  *)
(***************************************************************************)
ScheduleNext(sim, context) ==
    IF sim.queue = <<>> THEN sim
    ELSE [sim EXCEPT !.events =
             Enqueue(Forget(sim), Event("executeEvent", context, sim.queue[1].wait))]

\* Mutant of Schedule: a wake-up is scheduled only for an empty queue.
ScheduleFirst(sim, kind, context, wait) ==
    LET timer == Timer(kind, context, wait)
        grown == [sim EXCEPT !.queue = Enqueue(@, timer)]
    IN  IF sim.queue = <<>> THEN ScheduleNext(grown, context) ELSE grown

\* A wake-up that is already scheduled stays when a sooner one is.
Schedule(sim, kind, context, wait) ==
    LET timer == Timer(kind, context, wait)
        grown == [sim EXCEPT !.queue = Enqueue(@, timer)]
        first == \A i \in DOMAIN sim.queue : wait < sim.queue[i].wait
    IN  IF first THEN ScheduleNext(grown, context) ELSE grown

\* Mutant of CancelTimer: the timer of the entry stays in the queue.
CancelNoTimer(sim, context) == sim

\* Without effect once the timer was taken out of the queue.
CancelTimer(sim, context) ==
    IF \A i \in DOMAIN sim.queue : ~Expires(sim.queue[i], context) THEN sim
    ELSE ScheduleNext(
             [events |-> Without(sim.events, {e \in Range(sim.events) : IsWakeUp(e) /\ e.valid}),
              queue  |-> Without(sim.queue, {t \in Range(sim.queue) : Expires(t, context)})],
             context)

SetExpiryTimer(sim, n, wait) == Schedule(CancelTimer(sim, n), "onInterestFinalize", n, wait)

-----------------------------------------------------------------------------
(***************************************************************************)
(* What the first event of the ns-3 queue does.                            *)
(***************************************************************************)
Next1 == Head(events)

Rest == [events |-> Tail(events), queue |-> queue]

Run(kind) == Due(events) /\ Next1.kind = kind

Becomes(sim) == events' = sim.events /\ queue' = sim.queue

\* The timeouts of a node that are scheduled.
Timeouts(evs, n) == {e \in Range(evs) : e.kind = "OnTimeout" /\ e.node = n}

\* Mutant of RegisterInterest: the timeout is cancelled and not started anew.
RegisterWithoutTimeout ==
    LET n     == Next1.node
        timed == SetExpiryTimer(Rest, n, LifeTime)
    IN  /\ entry' = entry \cup {n}
        /\ inRecord' = [inRecord EXCEPT ![n] = LifeTime]
        /\ events' = Without(timed.events, Timeouts(timed.events, n))
        /\ queue' = timed.queue
        /\ lost' = lost \ {n}
        /\ UNCHANGED <<stopped, marks>>

\* RegisterInterest: refresh the PIT entry, then start the timeout anew.
RegisterInterest ==
    LET n     == Next1.node
        timed == SetExpiryTimer(Rest, n, LifeTime)
        quiet == Without(timed.events, Timeouts(timed.events, n))
    IN  /\ entry' = entry \cup {n}
        /\ inRecord' = [inRecord EXCEPT ![n] = LifeTime]
        /\ events' = Enqueue(quiet, Event("OnTimeout", n, LifeTime))
        /\ queue' = timed.queue
        /\ lost' = lost \ {n}
        /\ UNCHANGED <<stopped, marks>>

StartApplication == Run("StartApplication") /\ RegisterInterest
OnData == Run("OnData") /\ RegisterInterest
OnTimeout == Run("OnTimeout") /\ RegisterInterest

(***************************************************************************)
(* The face is closed and removed, and with it the in-record; the PIT      *)
(* entry and both timers stay.  A timer is to deallocate the face.         *)
(***************************************************************************)
StopApplication ==
    /\ Run("StopApplication")
    /\ stopped' = stopped \cup {Next1.node}
    /\ inRecord' = [inRecord EXCEPT ![Next1.node] = NoRecord]
    /\ Becomes(Schedule(Rest, "deallocate", Next1.node, 0))
    /\ UNCHANGED <<entry, marks, lost>>

\* No entry, no delivery.
DataUnsolicited ==
    /\ Run("receive")
    /\ Next1.node \notin entry
    /\ Becomes(Rest)
    /\ UNCHANGED <<entry, inRecord, stopped, marks, lost>>

Pending(n) == inRecord[n] # NoRecord /\ inRecord[n] # 0

\* Mutant of OnOutgoingData: a removed face is not recognised.
SendOnAnyFace(evs, n) == Enqueue(evs, Event("OnData", n, 0))

\* The application gets the data as an event of its own, if its face exists.
OnOutgoingData(evs, n) ==
    IF n \in stopped THEN evs ELSE Enqueue(evs, Event("OnData", n, 0))

(***************************************************************************)
(* The entry expires at once, and an in-record that has not expired itself *)
(* is used up.                                                             *)
(***************************************************************************)
OnIncomingData ==
    LET n     == Next1.node
        timed == SetExpiryTimer(Rest, n, 0)
    IN  /\ Run("receive")
        /\ n \in entry
        /\ inRecord' = [inRecord EXCEPT ![n] = IF Pending(n) THEN NoRecord ELSE @]
        /\ events' = IF Pending(n) THEN OnOutgoingData(timed.events, n) ELSE timed.events
        /\ queue' = timed.queue
        /\ UNCHANGED <<entry, stopped, marks, lost>>

(***************************************************************************)
(* DeadNonceList::mark schedules the next mark.                            *)
(***************************************************************************)
MarksAgain(n) == marks[n] < MaxMarks

Marked(n) == IF MarksAgain(n) THEN [marks EXCEPT ![n] = @ + 1] ELSE marks

(***************************************************************************)
(* executeEvent: timers of the node the wake-up belongs to run at once,    *)
(* those of other nodes are expired too but their callbacks become events. *)
(* What a callback schedules meanwhile only goes into the queue.           *)
(***************************************************************************)
ExecuteEvent ==
    LET n       == Next1.node
        expired == {t \in Range(queue) : t.wait = 0}
        ours    == {t \in expired : t.node = n}
        marking == \E t \in ours : t.kind = "mark"
        erased  == IF \E t \in ours : Expires(t, n) THEN {n} ELSE {}
        others  == Without(queue, Range(queue) \ (expired \ ours))
        posted  == EnqueueAll(Orphan(Forget(Rest), erased),
                              [i \in DOMAIN others |-> Event(others[i].kind, others[i].node, 0)])
        left    == Without(queue, expired)
        again   == IF marking /\ MarksAgain(n)
                   THEN Enqueue(left, Timer("mark", n, MarkInterval)) ELSE left
    IN  /\ Run("executeEvent")
        /\ Becomes(ScheduleNext([events |-> posted, queue |-> again], n))
        /\ entry' = entry \ erased
        /\ inRecord' = [m \in Node |-> IF m \in erased THEN NoRecord ELSE inRecord[m]]
        /\ marks' = IF marking THEN Marked(n) ELSE marks
        /\ UNCHANGED <<stopped, lost>>

\* The posted callback.
Mark ==
    LET n == Next1.node
    IN  /\ Run("mark")
        /\ Becomes(IF MarksAgain(n) THEN Schedule(Rest, "mark", n, MarkInterval) ELSE Rest)
        /\ marks' = Marked(n)
        /\ UNCHANGED <<entry, inRecord, stopped, lost>>

\* The posted callback.
Deallocate ==
    /\ Run("deallocate")
    /\ Becomes(Rest)
    /\ UNCHANGED <<entry, inRecord, stopped, marks, lost>>

(***************************************************************************)
(* The posted callback cancels the timer of its entry and erases the entry *)
(* from the PIT; Pit::erase asserts that it is there.                      *)
(***************************************************************************)
OnInterestFinalize ==
    LET n    == Next1.node
        done == CancelTimer(Rest, n)
    IN  /\ Run("onInterestFinalize")
        /\ Next1.valid
        /\ Becomes([done EXCEPT !.events = Orphan(@, {n})])
        /\ entry' = entry \ {n}
        /\ inRecord' = [inRecord EXCEPT ![n] = NoRecord]
        /\ lost' = lost \cup {n}
        /\ UNCHANGED <<stopped, marks>>

-----------------------------------------------------------------------------
(***************************************************************************)
(* Time passes when the present instant holds no more events.              *)
(***************************************************************************)
Later(items) == [i \in DOMAIN items |-> [items[i] EXCEPT !.wait = @ - 1]]

Tick ==
    /\ ~Due(events)
    /\ events' = Later(events)
    /\ queue' = Later(queue)
    /\ inRecord' = [n \in Node |-> IF Pending(n) THEN inRecord[n] - 1 ELSE inRecord[n]]
    /\ UNCHANGED <<entry, stopped, marks, lost>>

WakeUps == {i \in DOMAIN events : events[i].kind = "executeEvent"}

InFlight == {i \in DOMAIN events : events[i].kind = "receive"}

\* The receptions of what is sent to these nodes.
Arrivals(receivers, delay) ==
    LET order == InOrder(receivers)
    IN  [i \in DOMAIN order |-> Event("receive", order[i], delay[order[i]])]

\* An alert is sent; each receiver gets it after its own propagation delay.
Send ==
    /\ ~Due(events)
    /\ InFlight = {}
    /\ Cardinality(WakeUps) <= MaxWakeUps
    /\ \E receivers \in SUBSET Node \ {{}} : \E delay \in [receivers -> 1 .. MaxDelay] :
          events' = EnqueueAll(events, Arrivals(receivers, delay))
    /\ UNCHANGED <<queue, entry, inRecord, stopped, marks, lost>>

(***************************************************************************)
(* Stacks are installed in the order of their nodes, before the            *)
(* applications.  The first mark is the first timer.                       *)
(***************************************************************************)
FirstMarks ==
    LET order == InOrder(Forwarder)
    IN  [i \in DOMAIN order |-> Timer("mark", order[i], MarkInterval)]

FirstWakeUp == Event("executeEvent", InOrder(Forwarder)[1], MarkInterval)

\* DoInitialize of every application.
Install(evs, n) ==
    LET started == Enqueue(evs, Event("StartApplication", n, StartTime[n]))
    IN  IF n \in DOMAIN StopTime
        THEN Enqueue(started, Event("StopApplication", n, StopTime[n]))
        ELSE started

Installing ==
    LET order == InOrder(Node)
        installed[i \in 0 .. Len(order)] ==
            IF i = 0 THEN <<FirstWakeUp>> ELSE Install(installed[i - 1], order[i])
    IN  installed

Installed == Installing[Len(InOrder(Node))]

Init ==
    /\ events = Installed
    /\ queue = FirstMarks
    /\ entry = {}
    /\ inRecord = [n \in Node |-> NoRecord]
    /\ stopped = {}
    /\ marks = [n \in Forwarder |-> 0]
    /\ lost = {}

Dispatch ==
    \/ StartApplication \/ StopApplication \/ OnData \/ OnTimeout
    \/ DataUnsolicited \/ OnIncomingData
    \/ ExecuteEvent \/ OnInterestFinalize \/ Mark \/ Deallocate

Next == Dispatch \/ Tick \/ Send

Spec == Init /\ [][Next]_vars

\* An assertion of the code fails and ends the program.
Aborted == Run("onInterestFinalize") /\ ~Next1.valid

(***************************************************************************)
(* The simulator runs every event of an instant and then goes on in time:  *)
(* weak fairness, with "the program was not aborted" for ENABLED.          *)
(***************************************************************************)
FairSpec == Spec /\ (<>[]Aborted \/ []<><<Dispatch \/ Tick>>_vars)

-----------------------------------------------------------------------------
Kind == {"StartApplication", "StopApplication", "OnData", "OnTimeout", "receive", "executeEvent",
         "onInterestFinalize", "mark", "deallocate"}

TimerType ==
    [kind : {"onInterestFinalize"}, node : Node, wait : 0 .. LifeTime]
    \cup [kind : {"mark"}, node : Forwarder, wait : 0 .. MarkInterval]
    \cup [kind : {"deallocate"}, node : Node, wait : {0}]

(* Type invariant: queues are sorted and hold the items they should. *)
TypeOK ==
    /\ \A i \in DOMAIN events :
          /\ events[i] \in [kind : Kind, node : Forwarder, wait : Nat, valid : BOOLEAN]
          /\ events[i].kind \in {"mark", "executeEvent"} \/ events[i].node \in Node
          /\ \A j \in 1 .. i : events[j].wait <= events[i].wait
    /\ \A i \in DOMAIN queue :
          /\ queue[i] \in TimerType
          /\ \A j \in 1 .. i : queue[j].wait <= queue[i].wait
    /\ entry \subseteq Node
    /\ inRecord \in [Node -> {NoRecord} \cup 0 .. LifeTime]
    /\ stopped \subseteq DOMAIN StopTime
    /\ marks \in [Forwarder -> 0 .. MaxMarks]
    /\ lost \subseteq Node \ entry

Started(n) == \A i \in DOMAIN events : events[i].node = n => events[i].kind # "StartApplication"

Subscribed(n) == n \in entry /\ inRecord[n] # NoRecord

(* A consumer is subscribed whenever all events of an instant have run: it
   renews its interest "immediately ... to stay subscribed" after each alert
   and at each timeout. *)
StaysSubscribed ==
    ~Due(events) => \A n \in Node : Started(n) => Subscribed(n)

(* What takes a subscription away is nothing but a posted callback: whoever runs
   first when a timeout, the expiry of an entry and an alert fall on one instant,
   the consumer is subscribed again when all events of the instant have run. *)
LostByPostingOnly ==
    ~Due(events) => \A n \in Node \ stopped : Started(n) => Subscribed(n) \/ n \in lost

(* The scheduler never sleeps through a timer: a wake-up is scheduled for the
   instant at which its first timer expires, however timers are added,
   cancelled and executed on behalf of different nodes. *)
NoTimerStranded ==
    queue # <<>> => \E i \in WakeUps : events[i].wait = queue[1].wait

(* The callback of a PIT entry never outlives the entry: when it runs, the PIT
   still holds the entry, as Pit::erase asserts. *)
ErasesOnlyHeldEntries == ~Aborted

(* A subscription that was lost comes back: every consumer is subscribed at
   the end of infinitely many instants, unless it is told to stop or the
   assertion ends the program. *)
Resubscribes ==
    \A n \in Node \ DOMAIN StopTime :
        []<>(~Due(events) /\ Subscribed(n)) \/ <>[]Aborted

(* An application that has stopped is not handed data: neither by the interest
   its closed face had pending, nor by those its timeout goes on registering
   through that face. *)
StoppedGetsNothing ==
    \A i \in DOMAIN events : events[i].kind = "OnData" => events[i].node \notin stopped
=============================================================================
