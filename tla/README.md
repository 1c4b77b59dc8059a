# CAFE in TLA+

This directory holds TLA+ models of this repository (a fork of ns-3 with
ndnSIM). Its core is the context-aware forwarding of alerts: how vehicles and
road-side units (RSUs) disseminate an alert to its *zone of relevance* (ZoR),
how the RSUs' backbone routes it, how applications stay subscribed and how a
vehicle comes to believe in an RSU. Around it stand three Python programs whose
control is modelled as well: the analysis that measures a simulation by its log,
the runner of the test suites, and the threads of the visualizer. The models are
checked with TLC on small instances; the main results are also proved with
TLAPS for every value of the constants.

Paths below are relative to the repository's `src/ndnSIM` unless they say
otherwise; `scripts/`, `test.py` and `src/visualizer/` are those at its top.

## 1. The system

A simulation is one program: ns-3 runs events one at a time, in the order of
their times, and in the order of scheduling within one instant. Nothing runs in
parallel, yet the events of different nodes interleave in orders nobody wrote
down, since timers, propagation delays and random jitter decide them. A
handler runs to its end before the next event starts, so an action of the
models is one event. The test runner and the visualizer have real threads; there
an action is the code between two points at which another thread can be seen.

| Component | State | Operations | Interacts with |
|---|---|---|---|
| Alert forwarder, `NFD/daemon/fw/caf-forwarder.cpp` | none of its own | `OnIncomingAlert`, `AlertVehicleHandler`, `AlertRsuHandler`, `DeferredOutgoingAlert`, `OnOutgoingAlert` | the node's context, faces, the simulator's queue |
| Node context, `model/caf-context.cpp` | `AlertStore`, `DeferredRegistry`, RSU availability, face contexts; process-wide: node positions, backbone graph | insert/update, look up, register, cancel, complete | the forwarder, hello consumer, stack helper |
| Backbone routing, `model/caf-routing.cpp` | none; the graph comes from the context | `Mira`, `ComputeDestinationNodes` | `AlertRsuHandler` |
| Zones of relevance, `model/caf-zor.cpp` | immutable, but for the parts of a composite | build, append, `contains`, `coveredBy`, `distanceToBoundary`, serialize and deserialize | forwarder, scenarios |
| Broadcast groups, `model/ndn-wifi-net-device-transport.cpp`, `helper/ndn-stack-helper.cpp` | faces, two Wi-Fi groups (V2V, V2I), point-to-point links | send, receive filter, face creation | forwarder, backbone graph |
| Alert consumer, `apps/alert-consumer.cpp` | the interest's timeout | start, stop, `OnData`, `OnTimeout`, `RegisterInterest` | PIT of its node |
| Alert producers, `apps/*alert-producer*.cpp` | intervals, thresholds | send an alert | forwarder |
| Hello consumer and producer, `apps/hello-*.cpp` | timeout, sequence numbers | set and clear RSU availability | context |
| Dead nonce lists, face removal, `NFD/daemon/table/dead-nonce-list.cpp`, `NFD/daemon/fw/face-table.cpp` | a timer each | mark every 1.2 s, deallocate a removed face | the same scheduler |
| PIT and alert branches of NFD, `NFD/daemon/fw/forwarder.cpp`, `NFD/daemon/table/pit.cpp` | PIT entries, their expiry timers | `onIncomingInterest`, `onIncomingData`, `onInterestFinalize`, `setExpiryTimer` | consumer, scheduler |
| Scheduler, `ndn-cxx/ndn-cxx/util/scheduler.cpp` | one queue for **all** nodes, one wake-up | `schedule`, `cancel`, `scheduleNext`, `executeEvent` | ns-3's event queue, PIT |
| Link fields for alerts, `NFD/daemon/face/generic-link-service.cpp` | none | encode and decode sender type, position, destination nodes | forwarder |
| Log analysis, `scripts/get_results.py` | data of each alert, counters | read a line; delivery ratio, satisfaction ratio, delays | the log that producers, consumers and forwarders write |
| Test runner, `test.py` | two queues, worker threads, an interrupt flag, counters | dispatch, run, hand in, collect, join | the processes of the tests |
| Visualizer, `src/visualizer/visualizer/core.py`, `model/pyviz.cc` | a lock, the events go and quit, an update timer | run a period, refresh the view, play, speed, quit | the GLib main loop, the simulator |
| NFD, ndn-cxx, ns-3 otherwise | | vendored libraries | |
| Python bindings (`src/*/bindings/modulegen__*.py`) | | generated tables of declarations | |
| Scenarios, other scripts, traces (`scratch/`, ...) | | build one network each | |

What a packet does: an application's alert enters `OnIncomingAlert` on its own
node. A producing vehicle transmits at once, to an RSU if it believes in one
(V2I), otherwise to vehicles (V2V). A vehicle that hears an alert it has not
seen stores it, drops it if the sender was closer to the zone, and otherwise
schedules a deferred transmission; a copy overheard before it fires may
cancel it. An RSU computes the RSUs that must broadcast (or takes them from the
packet's destination tag), broadcasts if it is one of them, and multicasts to
the next hops that Mira names, each with its share of the destinations.

### What is hard here

`PROJECT.json` lists the hazards line by line. In groups:

* **Interleaving**: deferred transmission against the copy that cancels it;
  two copies of one alert with different destination tags in the backbone; PIT
  timers of several nodes in one scheduler; the interrupt of a test run against
  jobs in every state; handlers of the view that nest while it waits for the lock.
* **Ordering**: the alert is stored before the decisions about it are taken;
  a posted callback runs after its PIT entry is gone; the visualizer's next run may start before
  the last one was drawn.
* **Stale state**: position and RSU availability are read at reception and
  used at transmission; vehicles are counted when an alert is sent and receivers when
  they receive it.
* **Timing**: the hello timeout is 10 ms longer than the hello interval.
* **Limits**: the alert store evicts; an RSU without a reachable neighbour;
  graphs with cycles, ties and parallel links; the parts of a zone counted in a byte.
* **Geometry**: ray casting at vertices and edges; the distance to a segment.
* **Loss and failure**: Wi-Fi loses packets, and suppression may rely on a copy that
  others never heard; a test's process cannot be started, or crashes without its results.
* **Liveness and deadlock**: suppression must leave enough transmissions to cover a
  zone; duplicates dropped in the backbone must not cost destinations; a lost
  subscription must come back; threads must find each other at the end.

## 2. Modules

| Module | Uses | Checked in |
|---|---|---|
| `CafContext`, `CafRouting`, `CafZor` | | the modules that use them |
| `Backbone` | `CafRouting` | `MCBackbone` |
| `CafForwarder` | `CafContext`, `CafRouting`; implements `Geocast` | `MCRoad`, `MCHybrid`, `MCScopes`, with the zones of `CafZor` |
| `Subscription` | | `MCSubscription` |
| `Hello` | extends `Subscription` | `MCHello` |
| `ZoneShapes`, `Zones` | | `MCZones` |
| `Measurement` | | `MCMeasurement` |
| `TestRunner` | | `MCTestRunner` |
| `Visualizer` | | `MCVisualizer` |
| `Induction` | | lemmas: induction and recursion without operator parameters |
| `CafForwarderProofs`, `BackboneProofs`, `HelloProofs`, `ZonesProofs`, `MeasurementProofs`, `TestRunnerProofs`, `VisualizerProofs` | the module they are named for; `HelloProofs` also has the proofs about `Subscription`; those of queues, graphs and zones use `Induction` | proofs |

**CafContext** has the values of `AlertStore` (newest first, bounded, evicting
the oldest) and `DeferredRegistry` (alert to event identifier) and their
operations as operators. `IsDuplicate` only asks; `InsertOrUpdate` keeps the
fields of an entry that is already there, as the code's splice does.

**CafRouting** has Mira and `ComputeDestinationNodes`. Dijkstra's priority queue,
its strict comparison and the order in which faces are relaxed are kept,
because they decide which of several shortest paths is chosen; so is the
breadth-first fallback to the nearest RSU. A loop of the code is a function of
the number of its iterations, so that the module can be used in proofs. The graph is a function from node to a sequence of faces in the order
the links were installed.

**Backbone** has the graph as its state and the installation of a link
(`PointToPointNetDeviceCallback`) as its action; reference definitions of least
cost and reachability; and what the two algorithms must answer on the graph.

**CafZor** has circular zones on a straight road. Distances are exact there, and the
forwarder only compares distances.

**CafForwarder** is the core. Its variables and what they stand for:

| Variable | Code |
|---|---|
| `pos` | mobility model of each node |
| `store`, `registry` | `Context::m_alertStore`, `m_deferredRegistry` |
| `pending` | `DeferredOutgoingAlert` events in ns-3's queue, with the face and tag they were scheduled with |
| `rsuAvailable` | `Context::m_isRsuAvailable` |
| `air` | packets sent and not yet received, one copy for each receiver |
| `produced` | which producers have sent (history) |
| `handled`, `sent`, `relevant` | how often a node took an alert for new, broadcast it, and answered "relevant" (history) |

| Action | Code |
|---|---|
| `Produce` (`ProduceOnVehicle`, `ProduceOnRsu`, `ProduceForNeighbors`, `ProduceLocally`) | `OnIncomingAlert` for a packet of a local application, by node type and scope of the zone |
| `RsuReceive`, `RsuDropDuplicate` | `AlertRsuHandler` |
| `Defer`, `DropMovingAway`, `CancelDeferred`, `VehicleDropDuplicate` | `AlertVehicleHandler`, by its returns |
| `ReceiveFromNeighbor` | `OnIncomingAlert` for `NeighborZoR` |
| `Fire` | `DeferredOutgoingAlert`, with `OnOutgoingAlert` |
| `HelloHeard`, `HelloTimeout` | what hello messages and their absence do to the context |
| `Move`, `Lose` | the environment |

**Geocast** is what an application may rely on: an alert reaches it only after it
was published, only where it is relevant, and once. The refinement maps
`delivered` to `relevant`, the answers "relevant" of `OnIncomingAlert`, which the
NFD branch turns into a delivery.

**Subscription** models how a consumer keeps its subscription: ns-3's queue
(`events`), the scheduler's queue (`queue`), the PIT entries of one prefix
(`entry`), their in-records (`inRecord`) and the applications that were told to
stop (`stopped`). Every node with a stack (`Forwarder`) also has the timer of its
`DeadNonceList`, whose `mark` schedules the next one, and a removed face has one that
deallocates it (`Deallocate`): both are in the same queue and decide on whose behalf, and after
which events, a wake-up comes. `marks` counts the marks, for their bound; `lost` remembers which nodes
a posted callback has deprived of their entry. Times are waits relative to now and
`Tick` lets one unit pass when the present instant is empty. `executeEvent`
runs the expired timers of the node it was woken for and posts those of other
nodes as new events (`OnInterestFinalize`, `Mark`, `Deallocate`), as the code does with the node's context. `StopApplication`
closes the face and leaves the timeout running, as the code does; the PIT entry stays,
and `OnOutgoingData` meets the closed face.

**Hello** puts RSUs with `HelloProducer` and vehicles with `HelloConsumer` on top of
it: a hello consumer *is* an alert consumer, so its interest, entry and timers are
those of `Subscription`, and `HelloReceived` and `HelloMissed` are `OnData` and
`OnTimeout` with what `doReceive` and `handleTimeout` do to the context. `SendAlert`
hands the hello to the vehicles in reach, each with its own delay or not at all, and
schedules the next one; `Drive` moves a vehicle into or out of the reach of one RSU.
`away` and `steady` measure, for the properties, how long that has been so; `steady` starts anew when
a hello of the RSU is missed and while the vehicle has lost its subscription (`lost`).

**ZoneShapes** has circles, polygons and composites in the plane with what
`contains`, `coveredBy` and `distanceToBoundary` answer, exactly: squares of distances
and cross-multiplication replace the code's floats. Composites nest to the depth `MaxDepth`,
a bound of the model (`Nested`, `Zone`), and the virtual functions of a zone are functions defined by
recursion over its parts (`ZoneContains`, `ZoneCoveredBy`). **Zones** is a zone that an
application builds (`MakeCircle`, `MakePolygon`, `MakeComposite`), extends
(`AppendPart`) and nests (`Enclose`), its serialization with the count cut to one byte, and
the recursive `Deserialize`, which restores the parts of a composite with the function for the
depth below (`Restored`).

**Measurement** runs a small simulation of vehicles, RSUs and alerts that writes the
log lines of `RandomAlertProducer`, `AlertConsumer` and the forwarder, and the loop of
`analyze_ns3_logs` reads each line as it is written. `analysis` holds the local
variables of that function; `copies`, `target` and `heard` are what really happened.
What the forwarder decides about a copy is left open where the log does not show it:
the properties are about any dissemination.

**TestRunner** is `run_tests` of `test.py` from the dispatch of jobs to the exit code.
`Get`, `GiveUp`, `Skip`, `Launch`, `Finish` and `Raise` are the steps of
`worker_thread.run`; `Dispatch`, `Collect` and `Join` those of the main thread;
`Interrupt` is `sigint_hook`.

**Visualizer** is the simulation thread (`Loop`, `Wake`, `Clear`, `Check`, `Acquire`,
`Run`, `Release`: `SimulationThread.run` statement by statement) against the handlers
of the view thread. `frames` is the stack of handlers that have begun: `update_view_timeout`
runs the main loop while it waits for the lock (`Spin`), so other handlers start on top of it.
Time is kept relative to what the view last showed (`lead`, `target`). One timer is alive at the start,
since `create_gui` sets the speed (`core.py:1046`).

Operators commented "Mutant of ..." are plausible slips in the code; no
specification uses them. Putting one in the place of its original must violate
the property `PROJECT.json` pairs it with, which shows that the property can
fail.

## 3. Runs

| Run | Configuration | Properties | Distinct states |
|---|---|---|---|
| `backbone` | 4 RSUs, up to 4 links of cost 1 or 3, 5 in all | `TypeOK`, `HopByHopServesOnce`, `EntriesPartition`, `DestinationsCoverOrNearest`, `NextHopOnShortestPath` | 1813 |
| `road` | 5 vehicles, no RSU, no loss, fairness | `Coverage` | 19705 |
| `hybrid` | 5 RSUs in a square and a triangle, 3 vehicles, hellos, losses, fairness | `TypeOK`, `RegisteredIsPending`, `PendingIsRegistered`, `TransmitsAtMostOnce`, `UntaggedOnAir`, `SeenInsideIsDelivered`, `NeverMovesAway`, `DestinationsBroadcast` | 3768 |
| `scopes` | 2 RSUs, 2 vehicles (one moves), 4 alerts | `KeepsPromise` (refinement of Geocast) | 48776 |
| `consumers` | 2 nodes, one of which stops; lifetime 3, marks every 5, fairness | `TypeOK`, `NoTimerStranded`, `StoppedGetsNothing`, `Resubscribes` | 29348 |
| `hello` | 1 vehicle, 2 RSUs of opposite phases, interval 4, lifetime 6, marks every 6, losses, driving | `HelloTypeOK`, `LostByPostingOnly`, `SteadyReachIsBelieved`, `BeliefIsBounded` | 711622 |
| `zones` | circles, all polygons of up to 4 corners on a 3 x 3 grid, composites of up to 4 parts, nested | `RoundTrip`, `InsideByParity`, `ContainedIsCovered`, `CoveredIsNear` | 8744 |
| `measurement` | 2 vehicles, 1 RSU, 1 alert, 3 ticks | `MeasuredIsWhatHappened`, `OverstatedByLateComersOnly`, `DuplicatesAreLaterCopies` | 652816 |
| `test_runner` | 2 workers, 3 jobs, interrupt, Popen may raise, fairness | `TypeOK`, `EveryResultIsComing`, `SuccessMeansAllPassed`, `Terminates` | 18577 |
| `visualizer` | 2 speeds, 3 timer sources, updates nested twice, fairness | `TypeOK`, `NeverFarAhead`, `UpdatesDoNotPileUp`, `QuitEnds`, `PlayRuns`, `MessagesPause` | 320016 |
| `stays_subscribed` | 2 nodes, lifetime 2, marks every 5 | `StaysSubscribed` is **violated** | |
| `held_entries` | 2 nodes, lifetime 3, marks every 5 | `ErasesOnlyHeldEntries` is **violated** | |

What they show:

* **Backbone.** Every RSU on the way recomputes Mira for its share. On every
  graph within the bounds, with ties, cycles and parallel links, this serves
  each reachable destination once (`HopByHopServesOnce`): shares are disjoint and
  complete (`EntriesPartition`) and every next hop is on a least-cost path
  (`NextHopOnShortestPath`). `ComputeDestinationNodes` names the RSUs covering the
  zone, or a nearest one among those reachable. Four RSUs and four links give
  every shape with a cycle of even length, where ties come from; costs 1 and 3
  let two hops beat one.
* **Road.** With a reliable medium, cancelling transmissions does not cost
  coverage: an alert produced outside the zone reaches every vehicle in it.
  Timers of deferred transmissions may fire in any order, so this does not rest
  on the delay formula. It is a statement about the shape of this instance (a
  row of vehicles, each heard by two on either side, and a zone that begins
  where the producer's reach ends), not about every network: with gaps in the
  row, or a zone on both sides of the producer, suppression can leave part of a
  zone uncovered.
* **Hybrid.** Two copies with different tags race through a backbone with cycles of
  three and four links, while copies arrive over the air or are lost and
  availability changes at any moment. Registry, queue, store and transmissions
  stay consistent, nobody transmits twice, destination tags never reach
  vehicles, a pending transmission never carries the alert away from the zone,
  and whoever has seen the alert inside it has delivered it once. An RSU drops
  the second copy together with the destinations it was to serve, yet every
  responsible RSU broadcasts (`DestinationsBroadcast`). The run takes no deferred
  transmission to an RSU, and hardly a vehicle outside the zone defers in it; `TransmitsOnce` covers the one branch
  and `AlertsKeepDirection` states `NeverMovesAway` in general. `DestinationsBroadcast` is a statement
  about this backbone, whose square is that of `scratch/mira-sim.cc`, and not
  about every one: when two entries have disjoint shortest paths to one
  destination and each copy is overtaken by the other on the path where it is
  the shorter way, both are dropped. That takes delays which order the copies
  against the lengths of their paths; links are installed with equal delays, so
  it takes queues that differ a lot.
* **Scopes.** All scopes together, with a vehicle that moves, implement Geocast.
* **Consumers.** With two nodes on one scheduler a subscription that is lost comes
  back (`Resubscribes`), the scheduler never sleeps through a timer
  (`NoTimerStranded`), and a consumer that stops with an interest pending and
  alerts in flight is not handed another one (`StoppedGetsNothing`).
* **Hello.** A vehicle that stays in the reach of one RSU, hears it and keeps its subscription,
  believes in it throughout, however the delays of hellos vary: the 10 ms by which the timeout
  exceeds the interval are what this takes (with delays that differ by more it fails). A vehicle that
  drives off stops believing after at most a lifetime and a delay. A subscription goes only by a
  posted callback (`LostByPostingOnly`): no order of the timeout, the expiry of the entry and an arriving
  hello within one instant costs it. The run meets such a callback although there is one vehicle, since
  its first interest times out together with the first marks, whose wake-up belongs to an RSU.
* **Zones.** Every zone is restored as it was, nested zones and the largest count of a
  byte included. Ray casting agrees with a definition that knows no rays, also for
  polygons that cross themselves; an RSU in whose range a point of the zone lies
  counts as covering the zone, and one that covers it is not far from it.
* **Measurement.** Receivers, satisfied receivers and delays are those of the first copies,
  though copies come back after evictions and vehicles subscribe late. The delivery ratio
  does not understate; it overstates only by vehicles that came into the zone after the
  alert was sent, which are not in the count it is divided by. A counted duplicate is a
  copy its vehicle had handled before.
* **Test runner.** Every job is in one place at every moment, so that the main thread's
  count of results comes out; success means that every test was run and passed or was
  to be skipped. The run ends, interrupted or not, unless a process could not be started
  (below).
* **Visualizer.** However the user's actions and the updates nest, the simulation is at most
  one sample period ahead of the view, redraws do not pile up, playing goes on, pause
  messages pause, and closing the window ends both threads.

### Findings

1. `stays_subscribed`: `ndn-cxx/ndn-cxx/util/scheduler.cpp:177`. `executeEvent`
   takes expired timers of all nodes out of the shared queue and posts the
   callbacks of other nodes' timers as new events. A consumer that renews its
   interest in between keeps the old PIT entry, can no longer cancel its timer,
   and loses the renewed entry when the callback runs. Until its next timeout
   it gets no alerts, although `apps/alert-consumer.cpp:65-66` wants it to stay
   subscribed. Two consumers started together are enough, if the wake-up for their
   timers was scheduled before their timeouts. That takes a lifetime that ends before
   the next dead-nonce mark (every 1.2 s, `NFD/daemon/table/dead-nonce-list.cpp:130`), because the
   wake-up is scheduled anew after every mark and then comes behind the timeouts of its instant.
   So the trace fits hello interests, of 410 ms (`helper/caf-stack-helper.cpp:127`), and not alert
   interests of 30 s and more. It also depends on the start: with these times and nothing received,
   vehicles that start together at 0, 0.1 or 0.5 s, or at 1.2 s, lose a subscription at their first timeout;
   for the helper's default of 1 s a mark lies between, and they do not.
2. `held_entries`: the same mechanism lets the callback of an entry run after
   the entry was erased, which the assertion at `NFD/daemon/table/pit.cpp:105`
   excludes. It takes an alert that arrives in the very instant in which the
   timers expire. Times are whole ticks in the model; in the program two
   nanosecond times must coincide, which is rare but not excluded.

With two hello consumers on one scheduler a vehicle may miss a hello of an RSU in reach because its subscription
is lost, until its next timeout; `SteadyReachIsBelieved` therefore speaks of vehicles that keep theirs,
and its theorem, like that on `LostByPostingOnly`, of any number of them.

Met while modelling, and stated by no property:

* A consumer that was stopped goes on: `StopApplication` (`apps/alert-consumer.cpp:55`)
  leaves the timeout running, which registers an interest through the closed face once
  per lifetime, for ever.
* Wake-ups pile up. `schedule` at the front of the queue and `executeEvent` forget the
  identifier of an earlier wake-up without removing it (`scheduler.cpp:105`, `:157`), and
  each one that runs schedules another. No timer is missed; the event queue grows.
* The constructor of `CompositeZoR` (`model/caf-zor.cpp:178-183`) checks the size of a
  parameter it has just moved from, and does not throw the exception it builds. Its only
  caller has at most 255 parts.
* When `Popen` raises (`test.py:814`), the worker's thread is gone, its job is never handed
  in and the main thread waits for a result that does not come (`test.py:1724`).
  `Terminates` allows for it and `SuccessMeansAllPassed` shows that it never looks like success.
* Output that does not decode replaces the code of a process by 1 (`test.py:824`). When the
  process had crashed before it wrote its file, the main thread opens a file that is not there
  (`test.py:1848`); when it had crashed after, the results count as a failure, not a crash.
* A speed change nested in an update starts a new timer; when that update finds play
  released it clears the remembered identifier (`core.py:1480`). The new timer then runs
  beside the one that play starts next, and quitting does not remove it.
* The next run of the simulator may start before the last period was drawn (`core.py:1484`,
  `pyviz.cc:293`), so that two periods are drawn as one, while `core.py:711` speaks of every period.
  `m_stop` of `PyViz::DoPause` is read by nothing: a pause message stops the play, not the run.
* `get_results.py:8` says "less than 10ms" and line 67 takes 10 ms too; the cap at
  100 % hides vehicles that came late; the producer counts as a receiver, if it has a consumer;
  an alert that nobody got enters the mean delay with 0. `test.py` leaves valgrind errors out
  of its progress count.
* Comments that differ from the code: `model/caf-context.hpp:82-87` says `IsDuplicate` adds
  to the store (it does not, `caf-context.cpp:31-34`); `helper/caf-stack-helper.cpp:98-103`
  speaks of another hello phase than it computes.

### Bounds and abstractions

* `MaxHandled = 2`: how often one node may take one alert for new. Without
  eviction this never exceeds 1 (proved, see below), so the bound cuts nothing
  off; it is 2 so that a store that forgets too early shows. No run evicts;
  that a registered alert keeps a live event when stores forget is proved.
* `MaxLinks`, `MaxCost`: links in one graph and the sum of their costs.
* `MaxDelay`, `MaxWakeUps`: delay of an alert and
  wake-ups in the queue when another alert is sent. A wake-up that is no longer
  the scheduler's latest finds nothing due or takes over from the latest; three
  of them, for the timers of two nodes and one that is left over, give both cases. `LifeTime` is small: only its comparison with
  delays and with `MarkInterval` matters. In `hello` the RSUs send by their timers, and `MaxWakeUps` bounds nothing.
* `MaxMarks = 1`: each list marks once more after its first mark, so that both a mark scheduled with the stack and
  one scheduled by `mark` meet the timers of PIT entries. `MarkInterval` exceeds the lifetime in `consumers`, for the trace of
  finding 1, and equals it in `hello`, for the coincidence of both. The list's second timer, `adjustCapacity`, comes
  every 6 s, always together with a mark of its list and posted with it, and is left out.
* `Interval = 4`, `LifeTime = 6`, `MaxDelay = 2` in `hello`: opposite phases need an even interval,
  and the lifetime exceeds it by more than two delays differ, as the 10 ms of the code do.
* `MaxByte = 4` stands for 255, so that a fifth part is what the 256th is in the code; polygons of
  four corners have every kind of crossing. `MaxDepth = 2`: a composite in a composite, whose parts
  are restored by the same recursion as any deeper ones. The theorems about `Zones` need neither number.
* `MaxTime = 3`, `MaxCopies = 2`: an alert may be sent, heard in time and late, and come back.
  The theorems about `Measurement` need neither number.
* `MaxFrames = 2`, `MaxIdle = 4`, `Source`: updates of the view nested in each other, redraws queued,
  timers alive or remembered. `UpdatesDoNotPileUp` shows that `MaxIdle` is never reached; it and
  `NeverFarAhead` are proved for every depth.
* Deferred transmissions fire in any order. The code orders them by distance,
  which is one of these orders; safety for all of them covers the code's.
* Whether a node hears a transmission is decided when it is sent, by distance;
  `Lossy` adds any loss. Copies on their way are unordered.
* In `CafForwarder` availability changes at any moment; `Hello` has the timing.
* RSUs stand still and the graph is fixed while alerts travel, as in every
  scenario. `CafForwarder` takes graphs without parallel links; `Backbone` has
  them. Graphs are closed: a link to an RSU without a stack would let Mira
  throw, and scenarios leave such links out by hand.
* Coordinates and distances are integers and computed exactly; rounding of the code's
  floats is left out.
* Nonces, signatures, names, encodings and logging are left out, except for the
  zone's encoding and the log lines that the analysis reads. One alert is one
  name, and no two producers send the same name: the code does not enforce that, scenarios give
  every producer a prefix of its own. One application and one prefix per node.
* `NeverMovesAway`, `SeenInsideIsDelivered` and `Coverage` compare positions at two
  times and are stated for vehicles that do not move between; `scopes` has
  movement.
* Deadlock is not checked where a system may stop: a network in which all alerts have been
  disseminated, a graph with all its links, a zone with all its parts, a test run
  whose main thread waits for a lost worker, and a program that an assertion ended (finding 2).
  In `measurement`, `hello` and `visualizer` it is checked.

### Fairness

* ns-3 runs every event it holds. So `CafForwarder` assumes weak fairness of
  vehicles' producers, of receptions at each node, and of each vehicle's deferred
  transmissions. Nothing is assumed about hellos, movement, losses or RSU
  producers. For an RSU, weak fairness is written out with `PacketAt(r)` in the place
  of `ENABLED`: the two are equivalent, and evaluating `ENABLED` would run Mira
  in every state.
* `Subscription` assumes that events run and time passes, as
  long as no assertion has failed (`Aborted`); nothing is assumed about senders of
  alerts.
* `TestRunner` assumes that the main thread and every worker run, so that a process
  that was started ends; nothing is assumed about the interrupt.
* `Visualizer` assumes that both threads run. An inner main loop returns when no event is
  left, and timers come after all other sources, so a user who never stops acting could hold up both;
  strong fairness of `Spin` and of timers says that the user leaves the view thread time,
  again and again.

## 4. Proofs

TLAPS proves, for any sets of nodes, alerts, jobs and workers, any positions, coordinates, zones
of any depth, and graphs that satisfy the assumptions of the modules:

| Theorem | Module | Statement | Assumes also |
|---|---|---|---|
| `TypeCorrect` | `CafForwarderProofs` | `Spec => []TypeOK` | |
| `RegisteredAlertsPending` | | `Spec => []RegisteredIsPending` | |
| `TransmitsOnce` | | `Spec => []TransmitsAtMostOnce` | `NoOverflow` |
| `PendingRegistered` | | `Spec => []PendingIsRegistered` | `NoOverflow` |
| `Untagged` | | `Spec => []UntaggedOnAir` | |
| `AlertsKeepDirection` | | `Spec => []NeverMovesAway` | `NoOverflow`, `NobodyMoves`, `DistancesAreNumbers` |
| `SeenIsDelivered` | | `Spec => []SeenInsideIsDelivered` | `NoOverflow`, `NobodyMoves` |
| `ForwarderKeepsPromise` | | `Spec => KeepsPromise`, the refinement of `Geocast` | `NoOverflow`, `NoLoops` |
| `BackboneTypes` | `BackboneProofs` | `Spec => []TypeOK` | |
| `MiraPartitions` | | `Spec => []EntriesPartition` | |
| `HopsAreOnShortestPaths` | | `Spec => []NextHopOnShortestPath` | |
| `EachIsServedOnce` | | `Spec => []HopByHopServesOnce` | |
| `DestinationsAreRight` | | `Spec => []DestinationsCoverOrNearest` | |
| `SubscriptionTypes` | `HelloProofs` | `Spec => []TypeOK` | |
| `SchedulerIsAwake` | | `Spec => []NoTimerStranded` | |
| `StoppedStaySilent` | | `Spec => []StoppedGetsNothing` | |
| `HelloTypes` | | `HelloSpec => []HelloTypeOK` | |
| `BeliefEndsInTime` | | `HelloSpec => []BeliefIsBounded` | |
| `OnlyPostingLoses` | | `HelloSpec => []LostByPostingOnly` | |
| `SteadyBelief` | | `HelloSpec => []SteadyReachIsBelieved` | vehicles start at once; `MaxDelay <= Interval`, `Interval + MaxDelay <= LifeTime` |
| `ZonesFit` | `ZonesProofs` | `Spec => []Fits`, the zone is one that its counts can describe | |
| `ZonesRoundTrip` | | `Spec => []RoundTrip` | |
| `ZonesInsideByParity` | | `Spec => []InsideByParity` | |
| `ZonesContainedIsCovered` | | `Spec => []ContainedIsCovered` | |
| `ZonesCoveredIsNear` | | `Spec => []CoveredIsNear` | |
| `AnalysisIsRight` | `MeasurementProofs` | `Spec => []MeasuredIsWhatHappened` | |
| `RatioIsRight` | | `Spec => []OverstatedByLateComersOnly` | |
| `DuplicatesAreCounted` | | `Spec => []DuplicatesAreLaterCopies` | |
| `TestRunnerTypes` | `TestRunnerProofs` | `Spec => []TypeOK` | |
| `ResultsAreComing` | | `Spec => []EveryResultIsComing` | |
| `SuccessIsReal` | | `Spec => []SuccessMeansAllPassed` | |
| `VisualizerTypes` | `VisualizerProofs` | `Spec => []TypeOK` | |
| `StaysNear` | | `Spec => []NeverFarAhead` | |
| `AtMostThreeRedraws` | | `Spec => []UpdatesDoNotPileUp` | |

`ForwarderAssumption` says what a scenario provides: RSUs and vehicles are
distinct, the graph's faces lead to nodes of the graph with natural costs and
without parallel links, special values are distinct from ordinary ones.
`NoOverflow` says that every store has room for all alerts, `NobodyMoves` that no vehicle is
mobile, `DistancesAreNumbers` that distances to a zone are integers, `NoLoops` that no RSU has a
link to itself. The theorems about the forwarder are about the specification with losses, hellos
and, except under `NobodyMoves`, movement.

*Types.* `TypeOK` is inductive. The lemmas say that `InsertOrUpdate` keeps a list
of entries a list of entries, that a broadcast consists of packets, and that
Mira only names neighbours and passes on only destinations it was given.

*Registered alerts are pending.* With `TypeOK` the property is inductive as it
stands: `Register` and the scheduling of the event are one step, and an event
leaves the queue only together with the registry entry of its alert.

*Once.* That a node transmits at most once is not inductive: nothing in it says
why a node that has transmitted will not schedule again. `OnceInv` adds that

1. stores have no repetitions, and a node has taken an alert for new exactly
   if its store holds it (`HandledIsStored`);
2. nothing is known of an alert before it was sent (`KnownIsProduced`), so that
   its producer cannot have stored it already;
3. a pending transmission is the first and only one of its alert, and the
   registered one (`PendingIsFirst`);
4. transmissions are never more than the times an alert was new (`SentIsHandled`).

`NoOverflow` enters in `StoreHasRoom`: a store without repetitions that lacks one
alert has room, so nothing is evicted and 1 is preserved.

*Tags.* A vehicle transmits the tag its event was scheduled with, much later, so `UntaggedInv`
adds that events hold no tag. That a producing vehicle has no tag, and that Mira's next hops are
RSUs at the end of a wire, are lemmas.

*Direction and delivery of vehicles that stand still.* On top of `OnceInv` both properties are
inductive as they stand. What carries them is that the store's entry of an alert, with the
position of its sender, stays as it was when the alert was new and is found again
(`GetAfterInsert`, `RememberNew`), and that the answer "relevant" was given once, where the node
still is.

*The promise.* `PromiseInv` is `OnceInv` and three facts: an alert that is not in a store was
not delivered there (`UnseenUndelivered`), only produced alerts were delivered
(`DeliveredIsProduced`), and of a neighbours' alert there is one copy for each receiver and it was
not delivered to it yet (`OneCopyEach`), since that alert is in no store at all. Every step then
hands the alert to one node, publishes it, or leaves the abstract variables alone. A self-loop
would hand an RSU its own alert, hence `NoLoops`.

*Measurement.* The properties relate sets and counts that change together, so the
inductive invariant adds what the analysis was told when the alert was sent
(`CountedWhenSent`), that nobody hears of an alert that was not sent (`HeardIsSent`), and that
what is in a store was handled (`StoredIsHandled`): an eviction may make a known alert new,
never an unknown one a duplicate. `CountMeasures` is the heart: one reception keeps the data of an alert
equal to the history.

*Test runner.* `PlaceInv` says place by place what `EveryResultIsComing` counts: queues
have no job twice, and waiting, queued, held, handed in and reported exclude one another.
`ResultInv` says that what was handed in has run or was given up, `TallyInv` that the counters
are the sizes of sets of jobs, so that a full count of passes and skips means all of them.

*Visualizer.* That three redraws suffice is not inductive, since a run that is under way will
queue one more. `RunsDue` counts the runs to which the thread is committed, with the go signal, and
`QueueInv` bounds redraws and runs due together: by three, and by two while the innermost
handler is one that may still say go. A handler comes to that point only when the queue was empty.

*Backbone.* The invariant about the graph is small (`GraphInv`: it is closed and finite, and its
faces come in pairs); the work is in what the algorithms answer on such a graph.
`SearchInv` is the invariant of Dijkstra's loop: the settled nodes have their final distance, no
queued pair is below them, and parents lie on tight links. The faces of nodes that are not settled
and the pairs of the queue bound the iterations that are left (`Measure`), so the loop ends with an
empty queue and its result is a distance function and a tree (`IsDistance`, `IsTree`), whatever ties
decided. That each step up the tree is nearer to the source makes the first hop of a destination
lie on a least-cost path; the reference definition of least cost is shown to be the same distance.
Forwarding hop by hop then makes progress: after k hops the k nodes that are furthest from a
destination are behind its entry (`Behind`), and a destination was served once or is in exactly one entry
that is under way (`FairWalk`). `BfsInv` is the invariant of the breadth-first fallback: its order visits reachable nodes, each once, and
holds whatever the faces of nodes already expanded lead to, so it ends with all of them.

*Subscription.* `Good` is the type invariant with two sorted queues. `Awake` says that the latest
wake-up is not later than the first timer: an `executeEvent` that finds nothing due, or timers of
other nodes, leaves a wake-up behind, and one at the front of the queue is replaced only by an earlier
one. `StopsFirst` and `DataIsForNow` say why a stopped application gets nothing: its stop comes before
all else of its instant, and posted data waits for no later one.

*Hello.* `Recent` bounds the age of what is under way: a hello that has not arrived was sent at most
`MaxDelay` after its vehicle left, so a belief ends with the timeout of the last one. `Kept` is about
subscriptions: before an entry or an in-record runs out, or in the same instant, its consumer has a timeout,
or data to be handed over, that renews the interest, and a started consumer without entry or record has
one due now or has lost its entry to a posted callback. `SteadyInv` adds the argument about time: for each
hello that an RSU in reach has sent less than two intervals ago (`HellosHeard`), the vehicle has its packet still
on the way, or its data in the queue, or believes and has a timeout that is as far away as a lifetime
from that hello. Of one instant, timeouts run before the hellos that arrive in it, and these before posted callbacks (`InTurn`), which is where the
hypothesis on the lifetime is sharp: an interval and a delay may take the whole of it.

*Zones.* `Fits` is the invariant: vertices and parts at every depth are at most what a byte counts. The
rest is about one zone that fits. `FlattenSuffix` and `PartsRestored` carry the round trip: a zone is
restored from the front of a buffer whatever follows it, so its parts are restored one after the other.
Ray casting and triangles are compared edge by edge: walking round a closed polygon, a Boolean that
depends on the vertex changes an even number of times (`LoopIsEven`), so that the crossings of the polygon
are, up to an even number, those of the triangles of the fan (`FanIsOdd`), each of which is crossed an odd number
of times exactly from its inside (`TriangleCrossed`). Two points of which one is
inside have crossings of different parity, so an edge meets the segment between them (`OneBetween`), and a disc
that holds both holds a point of that edge: its foot is near enough by Lagrange's identity (`MeetIsNear`).
That a point in the disc is covered is this for polygons and the triangle inequality for circles; the
other direction, `CoveredIsNear`, follows the foot of the perpendicular into the box. All of it is in
integers, without rounding and without division.

*How iterations are proved.* The library's induction theorems take an operator, which the provers cannot
instantiate. `Induction` states them for sets and functions: a predicate is the set of its values
(`NatSetInduction`, `LeastNat`, `UpToInduction`), and a function that is defined by recursion over
`0 .. n` exists and satisfies its equation (`RecursionExists`). So loops are
functions of the number of iterations in `CafRouting` and `Backbone`, the queues of `Subscription` are
defined by positions, and what is proved of nested zones goes by their depth (`ZoneRecursion`, `ZoneInduction`).

Only model-checked: all liveness (`Coverage`, `DestinationsBroadcast`, `Resubscribes`, `Terminates`,
`QuitEnds`, `PlayRuns`, `MessagesPause`), since fairness and `ENABLED` are beyond the prover. Every safety
property that a run finds to hold is a theorem. The theorems about the forwarder use only facts about
Mira that its last step shows.

## 5. Not modelled

* NFD, ndn-cxx and ns-3 where this repository only uses them: content store,
  nacks, the content of dead nonce lists (their timers are modelled), strategies, Wi-Fi, mobility.
* The Python bindings, `src/*/bindings/modulegen__*.py`. They are generated tables of C++
  declarations, make up 97 % of the repository's lines of Python and have neither state
  nor control to model. The C++ that carries the system's logic is modelled instead.
* Scenarios, other scripts, trace data: they build networks, run them and draw the results.
  `data/generate_table4.py` reads logs as `get_results.py` does and tabulates.
* Of the timers on the shared scheduler, `DeadNonceList::adjustCapacity` (section 3, bounds). The marks are modelled and
  limit finding 1 to interests that expire before the next mark: hello interests of vehicles that start together
  soon after a mark, and not alert interests, whose wake-up is scheduled anew at each mark.
* The node type `NODE_TYPE_BACKBONE` (`model/caf-context.hpp:44`), whose alerts `OnIncomingAlert` drops
  (`caf-forwarder.cpp:153-155`): no scenario has such a node.
* The encoding of the link fields; confidence intervals and formatting of the analysis;
  which suites `test.py` selects, building them and the layout of its reports; what the
  visualizer draws and what `pyviz.cc` samples for it.
* Jitter and thresholds of producers; rounding of 32-bit coordinates.

## 6. Plan

Written so far, in this order: CafContext and CafRouting, Backbone,
CafForwarder with its instances, Geocast, Subscription; stopping consumers, Hello, zones,
the log analysis, the test runner, the visualizer; the proofs above.
What could come next:

1. *Backbone while it is built*: stacks installed on RSUs after links exist,
   inactive RSUs.
2. *Delays*: deferred transmissions in the order the delay formula gives,
   where more may hold than for all orders.
3. *Backbones in general*: conditions on links and entries under which every responsible RSU
   broadcasts.
4. *A store that forgets*: what remains of the promise with stores smaller than the number
   of alerts; so far only that registered alerts are pending.
