----------------------------- MODULE Visualizer -----------------------------
(***************************************************************************)
(* visualizer/core.py: the simulation thread runs the simulator up to a    *)
(* target time whenever the view gives it the go signal; the view thread   *)
(* is a GLib main loop.  A timer refreshes the view, sets the next target  *)
(* one sample period ahead and says go; while it waits for the lock it     *)
(* runs the main loop again, so handlers nest.  Each run of the simulator  *)
(* queues an idle callback, update_model, which draws what the simulator   *)
(* collected in it.                                                        *)
(***************************************************************************)
EXTENDS Integers, FiniteSets, Sequences, SequencesExt

CONSTANTS
    Source,     \* bound: GLib timeout sources alive or remembered at a time
    Period,     \* sample periods the speed may be set to, in ticks
    MaxFrames,  \* bound: updates of the view nested in each other
    MaxIdle     \* bound: update_model callbacks queued

None == 0

ASSUME VisualizerAssumption ==
    /\ Source \subseteq Nat \ {None} /\ IsFiniteSet(Source) /\ Source # {}
    /\ Period \subseteq Nat \ {0} /\ Period # {}
    /\ MaxFrames \in Nat /\ MaxIdle \in Nat

VARIABLES
    sim,           \* where the simulation thread is
    go,            \* SimulationThread.go, an event
    quit,          \* SimulationThread.quit
    locked,        \* the simulation thread holds SimulationThread.lock
    lead,          \* Simulator::Now past the time the view last showed
    target,        \* target_time, likewise
    messages,      \* pause_messages is not empty
    idle,          \* update_model callbacks queued
    frames,        \* handlers of the view thread that have begun, innermost first
    timers,        \* timeout sources alive
    timer_id,      \* Visualizer._update_timeout_id
    active,        \* play_button.get_active()
    sample_period,
    closed         \* Gtk.main has returned

playVars == <<timers, timer_id, active, sample_period>>
vars == <<sim, go, quit, locked, lead, target, messages, idle, frames,
          timers, timer_id, active, sample_period, closed>>

\* create_gui sets the speed, and so starts the timer, before either thread runs.
Init ==
    /\ sim = "loop" /\ go = FALSE /\ quit = FALSE /\ locked = FALSE
    /\ lead = 0 /\ target = 0 /\ messages = FALSE /\ idle = 0
    /\ frames = <<>> /\ timer_id = (CHOOSE s \in Source : TRUE) /\ timers = {timer_id}
    /\ active = FALSE /\ sample_period \in Period /\ closed = FALSE

-----------------------------------------------------------------------------
(***************************************************************************)
(* The simulation thread.                                                  *)
(***************************************************************************)
At(from, to) == sim = from /\ sim' = to

View == <<frames, timers, timer_id, active, sample_period, closed>>

Loop ==
    /\ sim = "loop" /\ sim' = IF quit THEN "ended" ELSE "wait"
    /\ UNCHANGED <<go, quit, locked, lead, target, messages, idle, View>>

Wake ==
    /\ At("wait", "woken") /\ go
    /\ UNCHANGED <<go, quit, locked, lead, target, messages, idle, View>>

\* Mutant of Clear: the event stays set.
KeepGo ==
    /\ At("woken", "cleared")
    /\ UNCHANGED <<go, quit, locked, lead, target, messages, idle, View>>

Clear ==
    /\ At("woken", "cleared") /\ go' = FALSE
    /\ UNCHANGED <<quit, locked, lead, target, messages, idle, View>>

Check ==
    /\ sim = "cleared" /\ sim' = IF quit THEN "ended" ELSE "acquire"
    /\ UNCHANGED <<go, quit, locked, lead, target, messages, idle, View>>

\* Mutant of Acquire: the simulator runs without the lock.
RunUnlocked ==
    /\ At("acquire", "run")
    /\ UNCHANGED <<go, quit, locked, lead, target, messages, idle, View>>

\* The view holds the lock only within one step.
Acquire ==
    /\ At("acquire", "run") /\ ~locked /\ locked' = TRUE
    /\ UNCHANGED <<go, quit, lead, target, messages, idle, View>>

\* SimulatorRunUntil goes on to the target; a model that asks for a pause leaves
\* a message, and is not stopped.
Run ==
    /\ At("run", "ran")
    /\ lead' = IF lead < target THEN target ELSE lead
    /\ messages' \in IF lead < target THEN {messages, TRUE} ELSE {messages}
    /\ idle < MaxIdle /\ idle' = idle + 1
    /\ UNCHANGED <<go, quit, locked, target, View>>

Release ==
    /\ At("ran", "loop") /\ locked' = FALSE
    /\ UNCHANGED <<go, quit, lead, target, messages, idle, View>>

SimStep == Loop \/ Wake \/ Clear \/ Check \/ Acquire \/ Run \/ Release

-----------------------------------------------------------------------------
(***************************************************************************)
(* The view thread.  It dispatches a source in the outermost loop and in   *)
(* the loop of an update that waits for the lock; a handler that acquires  *)
(* the lock blocks the thread until the simulator is done.                 *)
(***************************************************************************)
Simulation == <<sim, locked, lead>>

Frame(kind, source) == [kind |-> kind, source |-> source]

In(kind) == frames # <<>> /\ Head(frames).kind = kind

Dispatching == IF frames = <<>> THEN ~closed ELSE In("spin")

\* What the user does comes after update_model, which has the highest priority.
UserEvent == Dispatching /\ idle = 0 /\ ~quit

Begin(kind, source) ==
    /\ Dispatching
    /\ frames' = <<Frame(kind, source)>> \o frames

Become(kind) == frames' = [frames EXCEPT ![1].kind = kind]

BeginUpdateModel ==
    /\ idle > 0 /\ idle' = idle - 1
    /\ Begin("draw", None)
    /\ UNCHANGED <<Simulation, go, quit, target, messages, playVars, closed>>

UpdateModel ==
    /\ In("draw") /\ ~locked
    /\ frames' = Tail(frames)
    /\ UNCHANGED <<sim, locked, lead, go, quit, target, messages, idle, playVars, closed>>

\* A timer comes last, and a source does not run within itself.
BeginUpdateView(s) ==
    /\ s \in timers /\ idle = 0 /\ Len(frames) < MaxFrames
    /\ \A i \in DOMAIN frames : frames[i].source # s
    /\ Begin("try", s)
    /\ UNCHANGED <<Simulation, go, quit, target, messages, idle, playVars, closed>>

\* The lock is taken: run the main loop until no event is left, try again.
Spin ==
    /\ \/ In("try") /\ locked /\ Become("spin")
       \/ In("spin") /\ idle = 0 /\ Become("try")
    /\ UNCHANGED <<Simulation, go, quit, target, messages, idle, playVars, closed>>

\* Mutant of NextTarget: one period on from the last target.
TargetFromTarget == (IF target > lead THEN target - lead ELSE 0) + sample_period

\* Simulator::Now () + sample_period, counted from what the view shows now.
NextTarget == sample_period

\* With the lock held: take the messages, show the model, set the target.
UpdateView ==
    /\ In("try") /\ ~locked
    /\ lead' = 0 /\ target' = NextTarget
    /\ messages' = FALSE
    /\ Become(IF messages THEN "pause" ELSE "resume")
    /\ UNCHANGED <<sim, locked, go, quit, idle, playVars, closed>>

\* Mutant of PauseOnMessages: the dialog is shown and play goes on.
ShowMessages ==
    /\ In("pause") /\ Become("resume")
    /\ UNCHANGED <<Simulation, go, quit, target, messages, idle, playVars, closed>>

\* set_active(FALSE) runs _on_play_button_toggled at once, if it changes anything.
PauseOnMessages ==
    /\ In("pause") /\ Become("resume")
    /\ active' = FALSE
    /\ timers' = IF active THEN timers \ {timer_id} ELSE timers
    /\ UNCHANGED <<Simulation, go, quit, target, messages, idle, timer_id, sample_period, closed>>

\* Paused: forget the timer and let it end.  Playing: go.
ResumeSimulation ==
    /\ In("resume") /\ frames' = Tail(frames)
    /\ IF active
       THEN go' = TRUE /\ UNCHANGED <<timers, timer_id>>
       ELSE timers' = timers \ {Head(frames).source} /\ timer_id' = None /\ UNCHANGED go
    /\ UNCHANGED <<Simulation, quit, target, messages, idle, active, sample_period, closed>>

\* timeout_add: an id that nothing remembers stands for a new one.
AddTimer(alive) ==
    LET held == {frames[i].source : i \in DOMAIN frames}
        free == Source \ (timers \cup held \cup {timer_id})
    IN  /\ free # {}
        /\ timer_id' = CHOOSE s \in free : TRUE
        /\ timers' = alive \cup {timer_id'}

\* Mutant of StartUpdateTimer: a timer that is remembered is taken to run.
StartFirstTimer ==
    IF timer_id = None THEN AddTimer(timers) ELSE UNCHANGED <<timers, timer_id>>

\* The remembered timer, if any, gives way to a new one.
StartUpdateTimer == AddTimer(timers \ {timer_id})

\* The user presses play or pause; the id of a removed timer stays.
Toggle ==
    /\ UserEvent
    /\ active' = ~active
    /\ IF active THEN timers' = timers \ {timer_id} /\ UNCHANGED timer_id ELSE StartUpdateTimer
    /\ UNCHANGED <<Simulation, go, quit, target, messages, idle, frames, sample_period, closed>>

\* The speed starts a timer whether the simulation plays or not.
SpeedChanged ==
    /\ UserEvent
    /\ sample_period' \in Period
    /\ StartUpdateTimer
    /\ UNCHANGED <<Simulation, go, quit, target, messages, idle, frames, active, closed>>

\* Any handler that takes the lock: a tooltip, a drag, a choice of nodes.
BeginUse ==
    /\ UserEvent /\ Begin("use", None)
    /\ UNCHANGED <<Simulation, go, quit, target, messages, idle, playVars, closed>>

Use ==
    /\ In("use") /\ ~locked /\ frames' = Tail(frames)
    /\ UNCHANGED <<Simulation, go, quit, target, messages, idle, playVars, closed>>

\* The window is closed: stop the timer, tell the thread, wake it, wait for it.
Quit ==
    /\ UserEvent /\ Begin("wake", None)
    /\ timers' = timers \ {timer_id} /\ timer_id' = None
    /\ quit' = TRUE
    /\ UNCHANGED <<Simulation, go, target, messages, idle, active, sample_period, closed>>

\* Mutant of WakeOnQuit: the thread is not woken.
JoinWithoutGo ==
    /\ In("wake") /\ Become("join")
    /\ UNCHANGED <<Simulation, go, quit, target, messages, idle, playVars, closed>>

WakeOnQuit ==
    /\ In("wake") /\ Become("join") /\ go' = TRUE
    /\ UNCHANGED <<Simulation, quit, target, messages, idle, playVars, closed>>

Join ==
    /\ In("join") /\ sim = "ended"
    /\ frames' = Tail(frames) /\ closed' = TRUE
    /\ UNCHANGED <<Simulation, go, quit, target, messages, idle, playVars>>

Handler ==
    \/ BeginUpdateModel \/ UpdateModel
    \/ Spin \/ UpdateView \/ PauseOnMessages \/ ResumeSimulation
    \/ Use \/ WakeOnQuit \/ Join

Over == closed /\ frames = <<>> /\ sim = "ended"

Next ==
    \/ SimStep
    \/ Handler
    \/ \E s \in Source : BeginUpdateView(s)
    \/ Toggle \/ SpeedChanged \/ BeginUse \/ Quit
    \/ Over /\ UNCHANGED vars

Spec == Init /\ [][Next]_vars

\* Both threads run.  The user leaves the view thread time again and again: an inner
\* main loop runs out of events, and a timer gets to fire before it is restarted.
FairSpec ==
    /\ Spec /\ WF_vars(SimStep) /\ WF_vars(Handler)
    /\ SF_vars(Spin) /\ SF_vars(\E s \in Source : BeginUpdateView(s))

-----------------------------------------------------------------------------
TypeOK ==
    /\ sim \in {"loop", "wait", "woken", "cleared", "acquire", "run", "ran", "ended"}
    /\ {go, quit, locked, messages, active, closed} \subseteq BOOLEAN
    /\ locked <=> sim \in {"run", "ran"}
    /\ lead \in Nat /\ target \in Nat /\ idle \in 0 .. MaxIdle
    /\ Len(frames) <= MaxFrames + 1
    /\ \A i \in DOMAIN frames :
        /\ frames[i].kind \in {"draw", "try", "spin", "pause", "resume", "use", "wake", "join"}
        /\ frames[i].source \in Source \cup {None}
        /\ i > 1 => frames[i].kind = "spin"
    /\ timers \subseteq Source /\ timer_id \in Source \cup {None}
    /\ sample_period \in Period

\* "skipping, model is ahead of view!": the model is never further ahead of what
\* the view shows than one sample period, whatever is pressed (core.py:672-675, 1465).
NeverFarAhead ==
    /\ lead <= target
    /\ \E p \in Period : target <= p

\* However updates of the view nest, at most three redraws wait: for the run that
\* ended before an update began, for one more on a stale go, and for its own go.
UpdatesDoNotPileUp == idle <= 3

\* Play plays: while the button is pressed the simulator goes on being run.
PlayRuns == active ~> (sim = "run" \/ ~active \/ quit)

\* A pause message of the model stops the play.
MessagesPause == messages ~> (~active \/ quit)

\* Closing the window ends the simulation thread and the main loop.
QuitEnds == quit ~> Over
=============================================================================
