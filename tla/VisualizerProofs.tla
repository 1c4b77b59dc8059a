-------------------------- MODULE VisualizerProofs --------------------------
(***************************************************************************)
(* What holds of Visualizer for every number of timers, every set of       *)
(* speeds and every depth of nesting: its type invariant, that the         *)
(* simulator stays within one sample period of the view, and that redraws  *)
(* do not pile up.                                                         *)
(***************************************************************************)
EXTENDS Visualizer, TLAPS

FrameType ==
    [kind : {"draw", "try", "spin", "pause", "resume", "use", "wake", "join"},
     source : Source \cup {None}]

ThreadInv ==
    /\ sim \in {"loop", "wait", "woken", "cleared", "acquire", "run", "ran", "ended"}
    /\ {go, quit, locked, messages, active, closed} \subseteq BOOLEAN
    /\ locked <=> sim \in {"run", "ran"}

TimeInv ==
    /\ lead \in Nat /\ target \in Nat /\ lead <= target
    /\ \E p \in Period : target <= p
    /\ sample_period \in Period

TimerInv == timers \subseteq Source /\ timer_id \in Source \cup {None}

IdleInv == idle \in 0 .. MaxIdle

\* Only the innermost handler does anything but wait in a main loop, and the
\* deepest one is no update, unless there is room for another.
FramesInv ==
    /\ frames \in Seq(FrameType)
    /\ \A i \in DOMAIN frames : i > 1 => frames[i].kind = "spin"
    /\ \/ Len(frames) <= MaxFrames
       \/ Len(frames) = MaxFrames + 1 /\ frames[1].kind \in {"draw", "use", "wake", "join"}

\* How often the simulation thread will still run if the event is not set again.
RunsDue ==
    LET onGo == IF go THEN 1 ELSE 0
    IN  CASE sim \in {"loop", "wait", "ran"}        -> onGo
          [] sim = "woken"                          -> 1
          [] sim \in {"cleared", "acquire", "run"}  -> 1 + onGo
          [] OTHER                                  -> 0

\* Whoever is about to set the event has seen the queue empty since it was last set.
QueueInv ==
    /\ idle + RunsDue <= 3
    /\ frames # <<>> /\ frames[1].kind \in {"try", "pause", "resume", "wake"} => idle + RunsDue <= 2

VisualizerInv ==
    ThreadInv /\ TimeInv /\ TimerInv /\ IdleInv /\ FramesInv /\ QueueInv

-----------------------------------------------------------------------------
(***************************************************************************)
(* Stacks of handlers.                                                     *)
(***************************************************************************)
LEMMA Pushed ==
    ASSUME NEW f \in Seq(FrameType), NEW x \in FrameType
    PROVE  LET g == <<x>> \o f
           IN  /\ g \in Seq(FrameType) /\ Len(g) = Len(f) + 1 /\ g[1] = x
               /\ \A i \in DOMAIN g : i > 1 => i - 1 \in DOMAIN f /\ g[i] = f[i - 1]
OBVIOUS

LEMMA Popped ==
    ASSUME NEW f \in Seq(FrameType), f # <<>>
    PROVE  /\ Tail(f) \in Seq(FrameType) /\ Len(Tail(f)) = Len(f) - 1
           /\ \A i \in DOMAIN Tail(f) : i + 1 \in DOMAIN f /\ Tail(f)[i] = f[i + 1]
OBVIOUS

LEMMA Changed ==
    ASSUME NEW f \in Seq(FrameType), f # <<>>,
           NEW kind \in {"draw", "try", "spin", "pause", "resume", "use", "wake", "join"},
           NEW g, g = [f EXCEPT ![1].kind = kind]
    PROVE  /\ g \in Seq(FrameType) /\ Len(g) = Len(f) /\ g # <<>> /\ g[1].kind = kind
           /\ \A i \in DOMAIN g : i \in DOMAIN f /\ (i > 1 => g[i] = f[i])
<1>1. f \in [1 .. Len(f) -> FrameType] /\ 1 \in 1 .. Len(f) /\ Len(f) \in Nat
  OBVIOUS
<1>2. [f[1] EXCEPT !.kind = kind] \in FrameType
  BY <1>1 DEF FrameType
<1>3. g \in [1 .. Len(f) -> FrameType]
  BY <1>1, <1>2
<1>4. g \in Seq(FrameType) /\ Len(g) = Len(f)
  BY <1>1, <1>3
<1>5. g[1].kind = kind /\ \A i \in DOMAIN g : i \in DOMAIN f /\ (i > 1 => g[i] = f[i])
  BY <1>1 DEF FrameType
<1> QED BY <1>1, <1>3, <1>4, <1>5

\* A handler begins, in the outermost loop or in the one of an update.
LEMMA BeginFrames ==
    ASSUME FramesInv, NEW kind, NEW source \in Source \cup {None}, Begin(kind, source),
           \/ kind \in {"draw", "use", "wake"}
           \/ kind = "try" /\ Len(frames) < MaxFrames
    PROVE  FramesInv' /\ frames' # <<>> /\ frames'[1].kind = kind
<1>1. /\ frames \in Seq(FrameType) /\ Len(frames) \in Nat /\ MaxFrames \in Nat
      /\ Frame(kind, source) \in FrameType /\ Frame(kind, source).kind = kind
  BY VisualizerAssumption DEF FramesInv, Frame, FrameType
<1>2. /\ frames' \in Seq(FrameType) /\ Len(frames') = Len(frames) + 1
      /\ frames'[1].kind = kind
      /\ \A i \in DOMAIN frames' : i > 1 => i - 1 \in DOMAIN frames /\ frames'[i] = frames[i - 1]
  BY <1>1, Pushed DEF Begin
<1>3. frames = <<>> \/ frames[1].kind = "spin"
  BY <1>1 DEF Begin, Dispatching, In
<1>4. Len(frames) <= MaxFrames
  BY <1>1, <1>3 DEF FramesInv
<1>5. \A i \in DOMAIN frames' : i > 1 => frames'[i].kind = "spin"
  BY <1>1, <1>2, <1>3 DEF FramesInv
<1>6. frames' # <<>>
  BY <1>1, <1>2
<1>7. \/ Len(frames') <= MaxFrames
      \/ Len(frames') = MaxFrames + 1 /\ frames'[1].kind \in {"draw", "use", "wake", "join"}
  BY <1>1, <1>2, <1>4
<1> QED BY <1>2, <1>5, <1>6, <1>7 DEF FramesInv

\* A handler ends: below it there are main loops only.
LEMMA EndFrames ==
    ASSUME FramesInv, frames # <<>>, frames' = Tail(frames)
    PROVE  FramesInv' /\ (frames' # <<>> => frames'[1].kind = "spin")
<1>1. frames \in Seq(FrameType) /\ Len(frames) \in Nat \ {0} /\ MaxFrames \in Nat
  BY VisualizerAssumption DEF FramesInv
<1>2. /\ frames' \in Seq(FrameType) /\ Len(frames') = Len(frames) - 1
      /\ \A i \in DOMAIN frames' : i + 1 \in DOMAIN frames /\ frames'[i] = frames[i + 1]
  BY <1>1, Popped
<1>3. ASSUME NEW i \in DOMAIN frames' PROVE frames'[i].kind = "spin"
  <2>1. i \in Nat /\ i >= 1
    BY <1>2
  <2>2. i + 1 \in DOMAIN frames /\ i + 1 > 1 /\ frames'[i] = frames[i + 1]
    BY <1>2, <2>1
  <2> QED BY <2>2 DEF FramesInv
<1>4. Len(frames') <= MaxFrames /\ (frames' # <<>> => 1 \in DOMAIN frames')
  <2>1. Len(frames) <= MaxFrames + 1
    BY <1>1 DEF FramesInv
  <2>2. Len(frames') \in Nat /\ (frames' # <<>> => Len(frames') >= 1)
    BY <1>2
  <2> QED BY <1>1, <1>2, <2>1, <2>2
<1> QED BY <1>2, <1>3, <1>4 DEF FramesInv

\* An update goes from one stage to the next.
LEMMA BecomeFrames ==
    ASSUME FramesInv, frames # <<>>, NEW kind, Become(kind),
           \/ /\ frames[1].kind \in {"try", "spin", "pause"}
              /\ kind \in {"try", "spin", "pause", "resume"}
           \/ frames[1].kind = "wake" /\ kind = "join"
    PROVE  FramesInv' /\ frames' # <<>> /\ frames'[1].kind = kind
<1>1. frames \in Seq(FrameType) /\ Len(frames) \in Nat /\ MaxFrames \in Nat
  BY VisualizerAssumption DEF FramesInv
<1>k. kind \in {"draw", "try", "spin", "pause", "resume", "use", "wake", "join"}
  OBVIOUS
<1>2. /\ frames' \in Seq(FrameType) /\ Len(frames') = Len(frames) /\ frames' # <<>>
      /\ frames'[1].kind = kind
      /\ \A i \in DOMAIN frames' : i \in DOMAIN frames /\ (i > 1 => frames'[i] = frames[i])
  <2>1. frames' = [frames EXCEPT ![1].kind = kind]
    BY DEF Become
  <2> QED BY <1>1, <1>k, <2>1, Changed
<1> QED BY <1>1, <1>2 DEF FramesInv

-----------------------------------------------------------------------------
(***************************************************************************)
(* The event and the queue.                                                *)
(***************************************************************************)

\* At most two runs are due when nothing is queued.
LEMMA RunsDueRange ==
    ASSUME ThreadInv
    PROVE  RunsDue \in 0 .. 2
BY DEF RunsDue

\* The event set, one run more is due, if any.
LEMMA GoAddsOne ==
    ASSUME ThreadInv, UNCHANGED sim, go' = TRUE
    PROVE  RunsDue' = RunsDue \/ RunsDue' = RunsDue + 1
BY DEF RunsDue, ThreadInv

\* No more redraws are queued or due than before, and the handler on top has
\* stayed or is none that will set the event.
LEMMA QueueKept ==
    ASSUME QueueInv, NEW n \in Nat, n = idle + RunsDue,
           idle' + RunsDue' \in Nat, idle' + RunsDue' <= n,
           \/ frames' = frames
           \/ frames' = <<>>
           \/ frames'[1].kind \in {"draw", "use", "spin", "join"}
    PROVE  QueueInv'
<1>1. n <= 3
  BY DEF QueueInv
<1>2. idle' + RunsDue' <= 3
  BY <1>1
<1>3. ASSUME frames' # <<>>, frames'[1].kind \in {"try", "pause", "resume", "wake"}
      PROVE  idle' + RunsDue' <= 2
  <2>1. frames' = frames
    BY <1>3
  <2>2. n <= 2
    BY <1>3, <2>1 DEF QueueInv
  <2> QED BY <2>2
<1> QED BY <1>2, <1>3 DEF QueueInv

-----------------------------------------------------------------------------
(***************************************************************************)
(* The simulation thread: what it queues it was due to queue.              *)
(***************************************************************************)
LEMMA SimStepKeeps ==
    ASSUME VisualizerInv, SimStep
    PROVE  VisualizerInv'
<1>1. /\ UNCHANGED <<frames, timers, timer_id, active, sample_period, closed, quit, target>>
      /\ go \in BOOLEAN /\ quit \in BOOLEAN /\ messages \in BOOLEAN
  BY DEF SimStep, Loop, Wake, Clear, Check, Acquire, Run, Release, View, VisualizerInv, ThreadInv
<1>2. FramesInv' /\ TimerInv'
  BY <1>1 DEF VisualizerInv, FramesInv, TimerInv
<1>3. ThreadInv'
  <2>1. locked \in BOOLEAN /\ active \in BOOLEAN /\ closed \in BOOLEAN /\ (locked <=> sim \in {"run", "ran"})
    BY DEF VisualizerInv, ThreadInv
  <2>2. CASE Loop \/ Check
    BY <1>1, <2>1, <2>2 DEF Loop, Check, ThreadInv
  <2>3. CASE Wake
    BY <1>1, <2>1, <2>3 DEF Wake, At, ThreadInv
  <2>6. CASE Clear
    BY <1>1, <2>1, <2>6 DEF Clear, At, ThreadInv
  <2>4. CASE Acquire \/ Release
    BY <1>1, <2>1, <2>4 DEF Acquire, Release, At, ThreadInv
  <2>5. CASE Run
    BY <1>1, <2>1, <2>5 DEF Run, At, ThreadInv
  <2> QED BY <2>2, <2>3, <2>4, <2>5, <2>6 DEF SimStep
<1>4. TimeInv'
  <2>1. lead' = lead \/ lead' = target
    BY DEF SimStep, Loop, Wake, Clear, Check, Acquire, Run, Release
  <2> QED BY <1>1, <2>1 DEF VisualizerInv, TimeInv
<1>5. idle \in Nat /\ IdleInv'
  <2>1. idle \in 0 .. MaxIdle /\ MaxIdle \in Nat
    BY VisualizerAssumption DEF VisualizerInv, IdleInv
  <2>2. idle' = idle \/ (idle < MaxIdle /\ idle' = idle + 1)
    BY DEF SimStep, Loop, Wake, Clear, Check, Acquire, Run, Release
  <2> QED BY <2>1, <2>2 DEF IdleInv
<1>6. idle' + RunsDue' <= idle + RunsDue
  <2>1. CASE Loop \/ Check
    BY <1>1, <1>5, <2>1 DEF Loop, Check, RunsDue
  <2>2. CASE Wake
    BY <1>1, <1>5, <2>2 DEF Wake, At, RunsDue
  <2>3. CASE Clear
    BY <1>1, <1>5, <2>3 DEF Clear, At, RunsDue
  <2>4. CASE Acquire \/ Release
    BY <1>1, <1>5, <2>4 DEF Acquire, Release, At, RunsDue
  <2>5. CASE Run
    BY <1>1, <1>5, <2>5 DEF Run, At, RunsDue
  <2> QED BY <2>1, <2>2, <2>3, <2>4, <2>5 DEF SimStep
<1>7. QueueInv'
  <2>1. idle + RunsDue \in Nat
    BY <1>5, RunsDueRange DEF VisualizerInv
  <2>2. idle' + RunsDue' \in Nat
    BY <1>5 DEF RunsDue, IdleInv
  <2>3. frames' = frames /\ QueueInv
    BY <1>1 DEF VisualizerInv
  <2> QED BY <1>6, <2>1, <2>2, <2>3, QueueKept
<1> QED BY <1>2, <1>3, <1>4, <1>5, <1>7 DEF VisualizerInv

-----------------------------------------------------------------------------
(***************************************************************************)
(* The view thread.                                                        *)
(***************************************************************************)

\* Handlers other than updates: one redraw less, or none more.
LEMMA OtherHandlersKeep ==
    ASSUME VisualizerInv,
           BeginUpdateModel \/ UpdateModel \/ BeginUse \/ Use \/ Join
    PROVE  VisualizerInv'
<1>1. /\ UNCHANGED <<sim, locked, lead, go, quit, target, messages, timers, timer_id, active,
                     sample_period>>
      /\ idle' = idle \/ (idle > 0 /\ idle' = idle - 1)
  BY DEF BeginUpdateModel, UpdateModel, BeginUse, Use, Join, Simulation, playVars
<1>2. TimeInv' /\ TimerInv'
  BY <1>1 DEF VisualizerInv, TimeInv, TimerInv
<1>3. ThreadInv'
  BY <1>1 DEF VisualizerInv, ThreadInv, BeginUpdateModel, UpdateModel, BeginUse, Use, Join
<1>4. idle \in Nat /\ idle' \in Nat /\ idle' <= idle /\ IdleInv'
  BY <1>1, VisualizerAssumption DEF VisualizerInv, IdleInv
<1>5. FramesInv' /\ (frames' # <<>> => frames'[1].kind \in {"draw", "use", "spin"})
  <2>1. CASE BeginUpdateModel
    BY <2>1, BeginFrames DEF BeginUpdateModel, VisualizerInv
  <2>2. CASE BeginUse
    BY <2>2, BeginFrames DEF BeginUse, VisualizerInv
  <2>3. CASE UpdateModel \/ Use \/ Join
    BY <2>3, EndFrames DEF UpdateModel, Use, Join, In, VisualizerInv
  <2> QED BY <2>1, <2>2, <2>3
<1>6. RunsDue' = RunsDue /\ RunsDue \in Nat
  BY <1>1 DEF RunsDue
<1>7. QueueInv'
  <2>1. idle + RunsDue \in Nat /\ idle' + RunsDue' \in Nat /\ idle' + RunsDue' <= idle + RunsDue
    <3>1. CASE idle' = idle
      BY <1>4, <1>6, <3>1
    <3>2. CASE idle > 0 /\ idle' = idle - 1
      BY <1>4, <1>6, <3>2
    <3> QED BY <1>1, <3>1, <3>2
  <2>2. QueueInv
    BY DEF VisualizerInv
  <2> QED BY <1>5, <2>1, <2>2, QueueKept
<1> QED BY <1>2, <1>3, <1>4, <1>5, <1>7 DEF VisualizerInv

\* An update begins, or tries again, when nothing is queued.
LEMMA UpdateTriesKeep ==
    ASSUME VisualizerInv, Spin \/ \E s \in Source : BeginUpdateView(s)
    PROVE  VisualizerInv'
<1>1. UNCHANGED <<sim, locked, lead, go, quit, target, messages, idle, timers, timer_id, active,
                  sample_period, closed>>
  BY DEF Spin, BeginUpdateView, Simulation, playVars
<1>2. ThreadInv' /\ TimeInv' /\ TimerInv' /\ IdleInv'
  BY <1>1 DEF VisualizerInv, ThreadInv, TimeInv, TimerInv, IdleInv
<1>3. FramesInv' /\ (frames'[1].kind = "spin" \/ (frames'[1].kind = "try" /\ idle = 0))
  <2>1. CASE In("try") /\ Become("spin")
    BY <2>1, BecomeFrames DEF In, VisualizerInv
  <2>2. CASE In("spin") /\ idle = 0 /\ Become("try")
    BY <2>2, BecomeFrames DEF In, VisualizerInv
  <2>3. ASSUME NEW s \in Source, BeginUpdateView(s)
        PROVE  FramesInv' /\ frames'[1].kind = "try" /\ idle = 0
    BY <2>3, BeginFrames DEF BeginUpdateView, VisualizerInv
  <2> QED BY <2>1, <2>2, <2>3 DEF Spin
<1>4. RunsDue' = RunsDue /\ RunsDue \in 0 .. 2
  BY <1>1, RunsDueRange DEF RunsDue, VisualizerInv
<1>5. QueueInv'
  BY <1>1, <1>3, <1>4 DEF VisualizerInv, QueueInv
<1> QED BY <1>2, <1>3, <1>5 DEF VisualizerInv

\* It holds the lock, sets the next target and perhaps stops the play.
LEMMA UpdateProceeds ==
    ASSUME VisualizerInv, UpdateView \/ PauseOnMessages
    PROVE  VisualizerInv'
<1>1. UNCHANGED <<sim, locked, go, quit, idle, timer_id, sample_period, closed>>
  BY DEF UpdateView, PauseOnMessages, Simulation, playVars
<1>2. ThreadInv'
  BY <1>1 DEF VisualizerInv, ThreadInv, UpdateView, PauseOnMessages, playVars
<1>3. TimeInv'
  <2>1. CASE UpdateView
    BY <1>1, <2>1, VisualizerAssumption DEF UpdateView, NextTarget, VisualizerInv, TimeInv
  <2>2. CASE PauseOnMessages
    BY <1>1, <2>2 DEF PauseOnMessages, Simulation, VisualizerInv, TimeInv
  <2> QED BY <2>1, <2>2
<1>4. TimerInv' /\ IdleInv'
  BY <1>1 DEF VisualizerInv, TimerInv, IdleInv, UpdateView, PauseOnMessages, playVars
<1>5. /\ FramesInv' /\ frames # <<>> /\ frames[1].kind \in {"try", "pause"}
      /\ frames'[1].kind \in {"pause", "resume"}
  <2>1. CASE In("try") /\ Become("pause")
    BY <2>1, BecomeFrames DEF In, VisualizerInv
  <2>2. CASE In("try") /\ Become("resume")
    BY <2>2, BecomeFrames DEF In, VisualizerInv
  <2>3. CASE In("pause") /\ Become("resume")
    BY <2>3, BecomeFrames DEF In, VisualizerInv
  <2> QED BY <2>1, <2>2, <2>3 DEF UpdateView, PauseOnMessages
<1>6. RunsDue' = RunsDue
  BY <1>1 DEF RunsDue
<1>7. QueueInv'
  BY <1>1, <1>5, <1>6 DEF VisualizerInv, QueueInv
<1> QED BY <1>2, <1>3, <1>4, <1>5, <1>7 DEF VisualizerInv

\* It ends and says go, or the quitting view does: one run more.
LEMMA GoKeeps ==
    ASSUME VisualizerInv, ResumeSimulation \/ WakeOnQuit
    PROVE  VisualizerInv'
<1>1. UNCHANGED <<sim, locked, lead, target, quit, messages, idle, active, sample_period, closed>>
  BY DEF ResumeSimulation, WakeOnQuit, Simulation, playVars
<1>2. go' = TRUE \/ go' = go
  BY DEF ResumeSimulation, WakeOnQuit
<1>3. ThreadInv' /\ TimeInv' /\ IdleInv'
  BY <1>1, <1>2 DEF VisualizerInv, ThreadInv, TimeInv, IdleInv
<1>4. TimerInv'
  BY DEF VisualizerInv, TimerInv, ResumeSimulation, WakeOnQuit, playVars
<1>5. /\ FramesInv' /\ frames # <<>> /\ frames[1].kind \in {"resume", "wake"}
      /\ frames' # <<>> => frames'[1].kind \in {"spin", "join"}
  <2>1. CASE ResumeSimulation
    BY <2>1, EndFrames DEF ResumeSimulation, In, VisualizerInv
  <2>2. CASE WakeOnQuit
    BY <2>2, BecomeFrames DEF WakeOnQuit, In, VisualizerInv
  <2> QED BY <2>1, <2>2
<1>6. RunsDue \in Nat /\ (RunsDue' = RunsDue \/ RunsDue' = RunsDue + 1)
  <2>1. CASE go' = TRUE
    BY <1>1, <2>1, GoAddsOne, RunsDueRange DEF VisualizerInv
  <2>2. CASE go' = go
    BY <1>1, <2>2, RunsDueRange DEF RunsDue, VisualizerInv
  <2> QED BY <1>2, <2>1, <2>2
<1>7. QueueInv'
  <2>1. idle \in Nat /\ idle' = idle
    BY <1>1, VisualizerAssumption DEF VisualizerInv, IdleInv
  <2>2. idle + RunsDue <= 2
    BY <1>5 DEF VisualizerInv, QueueInv
  <2>3. idle' + RunsDue' <= 3
    BY <1>6, <2>1, <2>2
  <2> QED BY <1>5, <2>3 DEF QueueInv
<1> QED BY <1>3, <1>4, <1>5, <1>7 DEF VisualizerInv

\* The user: a new timer has an id of its own, whatever it replaces.
LEMMA StartUpdateTimerType ==
    ASSUME TimerInv, StartUpdateTimer
    PROVE  TimerInv'
<1> DEFINE free == Source \ (timers \cup {frames[i].source : i \in DOMAIN frames} \cup {timer_id})
<1>1. free # {} /\ timer_id' = CHOOSE s \in free : TRUE
  BY DEF StartUpdateTimer, AddTimer
<1>2. timer_id' \in Source
  BY <1>1
<1>3. timers' = (timers \ {timer_id}) \cup {timer_id'}
  BY DEF StartUpdateTimer, AddTimer
<1> QED BY <1>2, <1>3 DEF TimerInv

LEMMA UserKeeps ==
    ASSUME VisualizerInv, Toggle \/ SpeedChanged \/ Quit
    PROVE  VisualizerInv'
<1>1. UNCHANGED <<sim, locked, lead, go, target, messages, idle, closed>> /\ idle = 0
  BY DEF Toggle, SpeedChanged, Quit, Simulation, UserEvent
<1>2. ThreadInv' /\ IdleInv'
  BY <1>1 DEF VisualizerInv, ThreadInv, IdleInv, Toggle, SpeedChanged, Quit
<1>3. TimeInv'
  BY <1>1 DEF VisualizerInv, TimeInv, Toggle, SpeedChanged, Quit
<1>4. TimerInv'
  <2>1. TimerInv
    BY DEF VisualizerInv
  <2>2. CASE StartUpdateTimer
    BY <2>1, <2>2, StartUpdateTimerType
  <2>3. CASE timers' \subseteq timers /\ timer_id' \in {timer_id, None}
    BY <2>1, <2>3 DEF TimerInv
  <2> QED BY <2>2, <2>3 DEF Toggle, SpeedChanged, Quit
<1>5. FramesInv'
  <2>1. CASE Quit
    BY <2>1, BeginFrames DEF Quit, VisualizerInv
  <2>2. CASE UNCHANGED frames
    BY <2>2 DEF FramesInv, VisualizerInv
  <2> QED BY <2>1, <2>2 DEF Toggle, SpeedChanged
<1>6. RunsDue' = RunsDue /\ RunsDue \in 0 .. 2
  BY <1>1, RunsDueRange DEF RunsDue, VisualizerInv
<1>7. QueueInv'
  BY <1>1, <1>6 DEF QueueInv
<1> QED BY <1>2, <1>3, <1>4, <1>5, <1>7 DEF VisualizerInv

-----------------------------------------------------------------------------
LEMMA VisualizerInit == Init => VisualizerInv
<1> SUFFICES ASSUME Init PROVE VisualizerInv
  OBVIOUS
<1>1. ThreadInv /\ TimerInv
  <2>1. timer_id \in Source
    BY VisualizerAssumption DEF Init
  <2> QED BY <2>1 DEF Init, ThreadInv, TimerInv
<1>2. TimeInv /\ IdleInv
  BY VisualizerAssumption DEF Init, TimeInv, IdleInv
<1>3. FramesInv
  BY VisualizerAssumption DEF Init, FramesInv
<1>4. QueueInv
  BY DEF Init, QueueInv, RunsDue
<1> QED BY <1>1, <1>2, <1>3, <1>4 DEF VisualizerInv

LEMMA VisualizerStep == VisualizerInv /\ [Next]_vars => VisualizerInv'
<1> SUFFICES ASSUME VisualizerInv, [Next]_vars PROVE VisualizerInv'
  OBVIOUS
<1>1. CASE UNCHANGED vars
  BY <1>1 DEF vars, VisualizerInv, ThreadInv, TimeInv, TimerInv, IdleInv, FramesInv, QueueInv,
              RunsDue
<1> QED BY <1>1, SimStepKeeps, OtherHandlersKeep, UpdateTriesKeep, UpdateProceeds, GoKeeps, UserKeeps
        DEF Next, Handler

(* Type correctness: however handlers nest and whatever the user does with
   play, speed and the window, the lock is held exactly while the simulator
   runs, and every handler below the innermost one waits in a main loop. *)
THEOREM VisualizerTypes == Spec => []TypeOK
<1>1. VisualizerInv => TypeOK
  <2> SUFFICES ASSUME VisualizerInv PROVE TypeOK
    OBVIOUS
  <2>1. ASSUME NEW i \in DOMAIN frames PROVE frames[i] \in FrameType
    BY DEF VisualizerInv, FramesInv
  <2>2. Len(frames) <= MaxFrames + 1
    BY VisualizerAssumption DEF VisualizerInv, FramesInv
  <2> QED BY <2>1, <2>2
          DEF TypeOK, VisualizerInv, ThreadInv, TimeInv, TimerInv, IdleInv, FramesInv, FrameType
<1>2. QED BY <1>1, VisualizerInit, VisualizerStep, PTL DEF Spec

(* The simulator never runs away from the view: for every set of speeds, its
   time is at most one sample period past what the view shows. *)
THEOREM StaysNear == Spec => []NeverFarAhead
<1>1. VisualizerInv => NeverFarAhead
  BY DEF VisualizerInv, TimeInv, NeverFarAhead
<1>2. QED BY <1>1, VisualizerInit, VisualizerStep, PTL DEF Spec

(* Redraws do not pile up: at most three wait, however deep updates nest. *)
THEOREM AtMostThreeRedraws == Spec => []UpdatesDoNotPileUp
<1>1. VisualizerInv => UpdatesDoNotPileUp
  <2> SUFFICES ASSUME VisualizerInv PROVE UpdatesDoNotPileUp
    OBVIOUS
  <2>1. RunsDue \in 0 .. 2 /\ idle \in Nat
    BY RunsDueRange DEF VisualizerInv, IdleInv
  <2> QED BY <2>1 DEF VisualizerInv, QueueInv, UpdatesDoNotPileUp
<1>2. QED BY <1>1, VisualizerInit, VisualizerStep, PTL DEF Spec
=============================================================================
