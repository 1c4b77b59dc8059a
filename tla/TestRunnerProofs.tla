-------------------------- MODULE TestRunnerProofs --------------------------
(***************************************************************************)
(* What holds of TestRunner for every number of workers and jobs: its type *)
(* invariant, that no job is lost or handed in twice, and what a report of *)
(* success means.                                                          *)
(***************************************************************************)
EXTENDS TestRunner, FiniteSetTheorems, TLAPS

WorkerType == [at : {"get", "check", "run", "ended", "raised"}, job : Job \cup {Break}]

TypeInv ==
    /\ main \in {"dispatch", "collect", "done", "raised"}
    /\ dispatched \in 0 .. Jobs + Cardinality(Worker)
    /\ input_queue \in Seq(Job \cup {Break}) /\ output_queue \in Seq(Job)
    /\ worker \in [Worker -> WorkerType]
    /\ \A w \in Held : worker[w].job \in Job
    /\ thread_exit \in BOOLEAN /\ broken \subseteq Job
    /\ returncode \in [Job -> 0 .. 3] /\ outcome \in [Job -> Outcome \cup {NotRun}]
    /\ reported \subseteq Job /\ tally \in [Status -> Nat] /\ exit_code \in {0, 1}

Queued(q, j) == \E i \in DOMAIN q : q[i] = j

\* No job is twice in a queue; break jobs are all alike.
NoRepetition(q) == \A i, k \in DOMAIN q : q[i] = q[k] /\ q[i] # Break => i = k

Waiting(j) == j > dispatched
WithWorker(j) == \E w \in Held : worker[w].job = j

\* Every job is somewhere, and not in two places.
PlaceInv ==
    /\ NoRepetition(input_queue) /\ NoRepetition(output_queue)
    /\ \A w, x \in Held : worker[w].job = worker[x].job => w = x
    /\ \A j \in Job :
        /\ \/ Waiting(j) \/ Queued(input_queue, j) \/ WithWorker(j) \/ Queued(output_queue, j)
           \/ j \in reported
        /\ Waiting(j) => ~Queued(input_queue, j)
        /\ Waiting(j) \/ Queued(input_queue, j) => ~WithWorker(j)
        /\ Waiting(j) \/ Queued(input_queue, j) \/ WithWorker(j) => ~Queued(output_queue, j)
        /\ j \in reported =>
              ~Waiting(j) /\ ~Queued(input_queue, j) /\ ~WithWorker(j) /\ ~Queued(output_queue, j)

\* What a worker hands in it has run, unless it was skipped or given up.
HandedIn(j) == Queued(output_queue, j) \/ j \in reported

ResultInv ==
    \A j \in Job : HandedIn(j) =>
        \/ j \in broken \cup Skipped
        \/ outcome[j] \in Outcome /\ returncode[j] = Retval(outcome[j])

\* The counters count the jobs that were reported and not given up.
Counted(s) == {j \in reported \ broken : StatusOf(j) = s}

TallyInv == \A s \in Status : tally[s] = Cardinality(Counted(s))

DoneInv == main = "done" => exit_code = ExitCode /\ \A w \in Worker : Ended(w)

TestRunnerInv == TypeInv /\ PlaceInv /\ ResultInv /\ TallyInv /\ DoneInv

-----------------------------------------------------------------------------
(***************************************************************************)
(* Queues.                                                                 *)
(***************************************************************************)
LEMMA Appended ==
    ASSUME NEW S, NEW q \in Seq(S), NEW x \in S, NEW r, r = Append(q, x), NoRepetition(q),
           x = Break \/ ~Queued(q, x)
    PROVE  /\ r \in Seq(S) /\ NoRepetition(r)
           /\ \A j : Queued(r, j) <=> Queued(q, j) \/ j = x
<1>1. /\ r \in Seq(S) /\ Len(r) = Len(q) + 1 /\ Len(q) \in Nat /\ r[Len(q) + 1] = x
      /\ \A i \in 1 .. Len(q) : r[i] = q[i]
  OBVIOUS
<1>2. \A i \in DOMAIN r : i = Len(q) + 1 \/ (i \in DOMAIN q /\ r[i] = q[i])
  BY <1>1
<1>3. DOMAIN q \subseteq DOMAIN r /\ Len(q) + 1 \in DOMAIN r
  BY <1>1
<1>4. ASSUME NEW i \in DOMAIN r, NEW k \in DOMAIN r, r[i] = r[k], r[i] # Break
      PROVE  i = k
  BY <1>1, <1>2, <1>4 DEF NoRepetition, Queued
<1>5. ASSUME NEW j PROVE Queued(r, j) <=> Queued(q, j) \/ j = x
  BY <1>1, <1>2, <1>3 DEF Queued
<1> QED BY <1>1, <1>4, <1>5 DEF NoRepetition

LEMMA Taken1 ==
    ASSUME NEW S, NEW q \in Seq(S), q # <<>>, NEW r, r = Tail(q), NoRepetition(q)
    PROVE  /\ r \in Seq(S) /\ Head(q) \in S /\ NoRepetition(r) /\ Queued(q, Head(q))
           /\ \A j : j # Break => (Queued(r, j) <=> Queued(q, j) /\ j # Head(q))
<1>1. /\ r \in Seq(S) /\ Len(r) = Len(q) - 1 /\ Len(q) \in Nat \ {0}
      /\ Head(q) = q[1] /\ q[1] \in S /\ 1 \in DOMAIN q
      /\ \A i \in 1 .. Len(r) : r[i] = q[i + 1]
  OBVIOUS
<1>2. \A i \in DOMAIN r : i \in Nat /\ i + 1 \in DOMAIN q /\ i + 1 # 1 /\ r[i] = q[i + 1]
  BY <1>1
<1>3. \A i \in DOMAIN q : i = 1 \/ (i - 1 \in DOMAIN r /\ r[i - 1] = q[i])
  BY <1>1
<1>4. ASSUME NEW i \in DOMAIN r, NEW k \in DOMAIN r, r[i] = r[k], r[i] # Break
      PROVE  i = k
  <2>1. i + 1 = k + 1
    BY <1>2, <1>4 DEF NoRepetition
  <2> QED BY <1>2, <2>1
<1>5. ASSUME NEW j, j # Break PROVE Queued(r, j) <=> Queued(q, j) /\ j # Head(q)
  <2>1. Queued(r, j) => Queued(q, j) /\ j # Head(q)
    BY <1>1, <1>2, <1>5 DEF Queued, NoRepetition
  <2>2. Queued(q, j) /\ j # Head(q) => Queued(r, j)
    BY <1>1, <1>3 DEF Queued
  <2> QED BY <2>1, <2>2
<1>6. Queued(q, Head(q))
  BY <1>1 DEF Queued
<1> QED BY <1>1, <1>4, <1>5, <1>6 DEF NoRepetition

-----------------------------------------------------------------------------
(***************************************************************************)
(* Dispatching.                                                            *)
(***************************************************************************)
LEMMA ConstantTypes ==
    /\ Jobs \in Nat /\ Cardinality(Worker) \in Nat
    /\ IsFiniteSet(Job) /\ Cardinality(Job) = Jobs
    /\ Break \notin Job /\ Job \subseteq Nat
<1>1. Jobs \in Nat /\ Cardinality(Worker) \in Nat
  BY TestRunnerAssumption, FS_CardinalityType
<1>2. IsFiniteSet(Job) /\ Cardinality(Job) = Jobs
  <2>1. 1 \in Int /\ Jobs \in Int
    BY <1>1
  <2>2. IsFiniteSet(1 .. Jobs) /\ Cardinality(1 .. Jobs) = IF 1 > Jobs THEN 0 ELSE Jobs - 1 + 1
    BY <2>1, FS_Interval
  <2> QED BY <1>1, <2>2 DEF Job
<1> QED BY <1>1, <1>2 DEF Job, Break

\* Steps of the main thread that hand nobody anything.
LEMMA CountsKept ==
    ASSUME TestRunnerInv, UNCHANGED <<reported, broken, returncode, tally>>
    PROVE  TallyInv'
BY DEF TestRunnerInv, TallyInv, Counted, StatusOf

LEMMA DispatchKeeps ==
    ASSUME TestRunnerInv, Dispatch
    PROVE  TestRunnerInv'
<1>1. /\ UNCHANGED <<output_queue, worker, thread_exit, broken, returncode, outcome, reported,
                     tally, exit_code>>
      /\ main = "dispatch" /\ main' \in {"dispatch", "collect"}
  BY DEF Dispatch, jobVars
<1>2. TallyInv' /\ DoneInv' /\ ResultInv'
  BY <1>1, CountsKept DEF DoneInv, ResultInv, HandedIn, TestRunnerInv
<1>3. CASE dispatched = Jobs + BreakJobs
  <2>1. UNCHANGED <<dispatched, input_queue>>
    BY <1>3 DEF Dispatch
  <2>2. TypeInv' /\ PlaceInv'
    BY <1>1, <2>1 DEF TestRunnerInv, TypeInv, PlaceInv, Held, Waiting, WithWorker
  <2> QED BY <1>2, <2>2 DEF TestRunnerInv
<1>4. CASE dispatched # Jobs + BreakJobs
  <2> DEFINE x == IF dispatched < Jobs THEN dispatched + 1 ELSE Break
  <2>1. /\ dispatched' = dispatched + 1 /\ input_queue' = Append(input_queue, x)
        /\ dispatched \in Nat /\ dispatched < Jobs + Cardinality(Worker)
    BY <1>4, ConstantTypes DEF Dispatch, TestRunnerInv, TypeInv, BreakJobs
  <2>2. x \in Job \cup {Break} /\ \A j \in Job : Waiting(j) <=> j = x \/ j > dispatched + 1
    BY <2>1, ConstantTypes DEF Job, Break, Waiting
  <2>3. input_queue \in Seq(Job \cup {Break}) /\ NoRepetition(input_queue)
    BY DEF TestRunnerInv, TypeInv, PlaceInv
  <2>4. x = Break \/ ~Queued(input_queue, x)
    BY <2>2 DEF TestRunnerInv, PlaceInv
  <2> HIDE DEF x
  <2>5. /\ input_queue' \in Seq(Job \cup {Break}) /\ NoRepetition(input_queue')
        /\ \A j : Queued(input_queue', j) <=> Queued(input_queue, j) \/ j = x
    <3> DEFINE S == Job \cup {Break}
    <3>1. x \in S /\ input_queue \in Seq(S)
      BY <2>2, <2>3
    <3> HIDE DEF S
    <3>2. /\ Append(input_queue, x) \in Seq(S) /\ NoRepetition(Append(input_queue, x))
          /\ \A j : Queued(Append(input_queue, x), j) <=> Queued(input_queue, j) \/ j = x
      BY <2>3, <2>4, <3>1, Appended
    <3> QED BY <2>1, <3>2 DEF S
  <2>6. \A j \in Job : Waiting(j)' <=> Waiting(j) /\ j # x
    BY <2>1, <2>2, ConstantTypes DEF Waiting, x, Break
  <2>7. TypeInv'
    BY <1>1, <2>1, <2>5, ConstantTypes DEF TestRunnerInv, TypeInv, Held
  <2>8. PlaceInv'
    <3>1. /\ NoRepetition(input_queue)' /\ NoRepetition(output_queue)'
          /\ (\A w, v \in Held : worker[w].job = worker[v].job => w = v)'
      BY <1>1, <2>5 DEF TestRunnerInv, PlaceInv, Held, NoRepetition
    <3>2. \A j \in Job : WithWorker(j)' = WithWorker(j) /\ Queued(output_queue, j)' = Queued(output_queue, j)
      BY <1>1 DEF WithWorker, Held, Queued
    <3>3. \A j \in Job : Queued(input_queue, j)' = Queued(input_queue', j)
      BY DEF Queued
    <3> QED BY <1>1, <2>2, <2>5, <2>6, <3>1, <3>2, <3>3 DEF TestRunnerInv, PlaceInv
  <2> QED BY <1>2, <2>7, <2>8 DEF TestRunnerInv
<1> QED BY <1>3, <1>4

-----------------------------------------------------------------------------
(***************************************************************************)
(* Workers.                                                                *)
(***************************************************************************)

\* As long as a worker works the main thread is not done.
LEMMA WorkingIsNotDone ==
    ASSUME TestRunnerInv, NEW w \in Worker, worker[w].at \in {"get", "check", "run"},
           UNCHANGED main
    PROVE  DoneInv'
BY DEF TestRunnerInv, DoneInv, Ended

\* A job with a worker has not been handed in, reported or counted.
LEMMA HeldJob ==
    ASSUME TestRunnerInv, NEW w \in Held
    PROVE  /\ w \in Worker /\ worker[w] \in WorkerType /\ worker[w].job \in Job
           /\ worker[w].job # Break /\ worker[w].job \notin reported
           /\ ~HandedIn(worker[w].job)
<1>1. w \in Worker /\ worker[w] \in WorkerType /\ worker[w].job \in Job
  BY DEF Held, TestRunnerInv, TypeInv
<1>2. WithWorker(worker[w].job)
  BY DEF WithWorker
<1> QED BY <1>1, <1>2, ConstantTypes DEF TestRunnerInv, PlaceInv, HandedIn

\* A worker's job moves with it.
LEMMA SameJobPlaces ==
    ASSUME TestRunnerInv, NEW w \in Held, NEW at \in {"check", "run", "raised"},
           worker' = [worker EXCEPT ![w].at = at],
           UNCHANGED <<input_queue, output_queue, dispatched, reported>>
    PROVE  PlaceInv' /\ worker' \in [Worker -> WorkerType] /\ (\A v \in Held : worker[v].job \in Job)'
<1>1. w \in Worker /\ worker \in [Worker -> WorkerType] /\ worker[w].at \in {"check", "run", "raised"}
  BY DEF Held, TestRunnerInv, TypeInv
<1>2. worker' \in [Worker -> WorkerType] /\ \A v \in Worker : worker'[v].job = worker[v].job
  BY <1>1 DEF WorkerType
<1>3. worker'[w].at = at /\ \A v \in Worker : v # w => worker'[v] = worker[v]
  BY <1>1 DEF WorkerType
<1>4. Held' = Held
  BY <1>1, <1>3 DEF Held
<1>5. \A v \in Held : v \in Worker /\ worker[v].job \in Job
  BY DEF Held, TestRunnerInv, TypeInv
<1>6. \A j \in Job : WithWorker(j)' = WithWorker(j)
  BY <1>2, <1>4, <1>5 DEF WithWorker
<1>7. \A j \in Job : /\ Queued(input_queue, j)' = Queued(input_queue, j)
                     /\ Queued(output_queue, j)' = Queued(output_queue, j)
                     /\ Waiting(j)' = Waiting(j)
  BY DEF Queued, Waiting
<1>8. /\ NoRepetition(input_queue)' /\ NoRepetition(output_queue)'
      /\ (\A v, x \in Held : worker[v].job = worker[x].job => v = x)'
  BY <1>2, <1>4, <1>5 DEF NoRepetition, TestRunnerInv, PlaceInv
<1>9. PlaceInv'
  BY <1>6, <1>7, <1>8 DEF TestRunnerInv, PlaceInv
<1> QED BY <1>2, <1>4, <1>5, <1>9

\* A worker hands its job in: from its hands the job goes to the output queue.
LEMMA PutBackPlaces ==
    ASSUME TestRunnerInv, NEW w \in Held, PutBack(w),
           UNCHANGED <<input_queue, dispatched, reported>>
    PROVE  /\ PlaceInv'
           /\ worker' \in [Worker -> WorkerType] /\ (\A v \in Held : worker[v].job \in Job)'
           /\ output_queue' \in Seq(Job)
           /\ \A j \in Job : HandedIn(j)' => HandedIn(j) \/ j = worker[w].job
<1> DEFINE job == worker[w].job
<1>1. /\ w \in Worker /\ worker \in [Worker -> WorkerType]
      /\ job \in Job /\ job # Break /\ ~HandedIn(job)
  BY HeldJob DEF TestRunnerInv, TypeInv
<1> HIDE DEF job
<1>2. /\ output_queue' = Append(output_queue, job)
      /\ worker' = [worker EXCEPT ![w] = [at |-> "get", job |-> Break]]
  BY DEF PutBack, job
<1>3. /\ output_queue' \in Seq(Job) /\ NoRepetition(output_queue')
      /\ \A j : Queued(output_queue', j) <=> Queued(output_queue, j) \/ j = job
  <2>1. /\ job \in Job /\ output_queue \in Seq(Job)
        /\ NoRepetition(output_queue) /\ ~Queued(output_queue, job)
    BY <1>1 DEF TestRunnerInv, TypeInv, PlaceInv, HandedIn
  <2>2. /\ Append(output_queue, job) \in Seq(Job) /\ NoRepetition(Append(output_queue, job))
        /\ \A j : Queued(Append(output_queue, job), j) <=> Queued(output_queue, j) \/ j = job
    BY <2>1, Appended
  <2> QED BY <1>2, <2>2
<1>4. worker' \in [Worker -> WorkerType]
  BY <1>1, <1>2 DEF WorkerType
<1>5. worker'[w].at = "get" /\ \A v \in Worker : v # w => worker'[v] = worker[v]
  BY <1>1, <1>2
<1>6. Held' = Held \ {w} /\ \A v \in Held : v \in Worker /\ worker[v].job \in Job
  BY <1>1, <1>5 DEF Held, TestRunnerInv, TypeInv
<1>7. \A j \in Job : WithWorker(j)' <=> WithWorker(j) /\ j # job
  <2>1. \A v \in Held : worker[v].job = job => v = w
    BY DEF TestRunnerInv, PlaceInv, job
  <2> QED BY <1>5, <1>6, <2>1 DEF WithWorker, job
<1>8. WithWorker(job)
  BY DEF WithWorker, job
<1>9. \A j \in Job : /\ Queued(input_queue, j)' = Queued(input_queue, j)
                     /\ Queued(output_queue, j)' = Queued(output_queue', j)
                     /\ Waiting(j)' = Waiting(j)
  BY DEF Queued, Waiting
<1>10. /\ NoRepetition(input_queue)' /\ NoRepetition(output_queue)'
       /\ (\A v, x \in Held : worker[v].job = worker[x].job => v = x)'
  <2>1. NoRepetition(input_queue)' /\ NoRepetition(output_queue)'
    BY <1>3 DEF NoRepetition, TestRunnerInv, PlaceInv
  <2>2. (\A v, x \in Held : worker[v].job = worker[x].job => v = x)'
    BY <1>5, <1>6 DEF TestRunnerInv, PlaceInv
  <2> QED BY <2>1, <2>2
<1>11. PlaceInv'
  BY <1>1, <1>3, <1>7, <1>8, <1>9, <1>10 DEF TestRunnerInv, PlaceInv
<1>12. \A j \in Job : HandedIn(j)' => HandedIn(j) \/ j = job
  BY <1>3, <1>9 DEF HandedIn
<1>13. (\A v \in Held : worker[v].job \in Job)'
  BY <1>5, <1>6
<1> QED BY <1>3, <1>4, <1>11, <1>12, <1>13 DEF job

LEMMA GetKeeps ==
    ASSUME TestRunnerInv, NEW w \in Worker, Get(w)
    PROVE  TestRunnerInv'
<1> DEFINE job == Head(input_queue)
<1>1. /\ worker[w].at = "get" /\ input_queue # <<>>
      /\ input_queue' = Tail(input_queue)
      /\ worker' = [worker EXCEPT ![w] = [at |-> Taken(job), job |-> job]]
      /\ UNCHANGED <<main, dispatched, reported, tally, exit_code, broken, returncode, outcome,
                     output_queue, thread_exit>>
  BY DEF Get, mainVars, jobVars
<1>2. /\ input_queue' \in Seq(Job \cup {Break}) /\ job \in Job \cup {Break}
      /\ NoRepetition(input_queue') /\ Queued(input_queue, job)
      /\ \A j : j # Break => (Queued(input_queue', j) <=> Queued(input_queue, j) /\ j # job)
  <2> DEFINE S == Job \cup {Break}
  <2>1. input_queue \in Seq(S) /\ NoRepetition(input_queue)
    BY DEF TestRunnerInv, TypeInv, PlaceInv
  <2> HIDE DEF S
  <2>2. /\ Tail(input_queue) \in Seq(S) /\ Head(input_queue) \in S
        /\ NoRepetition(Tail(input_queue)) /\ Queued(input_queue, Head(input_queue))
        /\ \A j : j # Break =>
              (Queued(Tail(input_queue), j) <=> Queued(input_queue, j) /\ j # Head(input_queue))
    BY <1>1, <2>1, Taken1
  <2> QED BY <1>1, <2>2 DEF S
<1> HIDE DEF job
<1>3. worker \in [Worker -> WorkerType] /\ Taken(job) = IF job = Break THEN "ended" ELSE "check"
  BY DEF TestRunnerInv, TypeInv, Taken
<1>4. /\ worker' \in [Worker -> WorkerType]
      /\ worker'[w].at = Taken(job) /\ worker'[w].job = job
      /\ \A v \in Worker : v # w => worker'[v] = worker[v]
  BY <1>1, <1>2, <1>3 DEF WorkerType
<1>5. /\ w \notin Held /\ \A v \in Held : v \in Worker /\ worker[v].job \in Job
      /\ Held' = IF job = Break THEN Held ELSE Held \cup {w}
  BY <1>1, <1>3, <1>4 DEF Held, TestRunnerInv, TypeInv
<1>6. (\A v \in Held : worker[v].job \in Job)'
  BY <1>2, <1>4, <1>5
<1>7. \A j \in Job : WithWorker(j)' <=> WithWorker(j) \/ j = job
  <2>1. \A j \in Job : j # Break
    BY ConstantTypes
  <2>2. \A v \in Held : worker'[v] = worker[v]
    BY <1>4, <1>5
  <2> QED BY <1>4, <1>5, <2>1, <2>2 DEF WithWorker
<1>8. \A j \in Job : /\ Queued(input_queue, j)' = Queued(input_queue', j)
                     /\ Queued(output_queue, j)' = Queued(output_queue, j)
                     /\ Waiting(j)' = Waiting(j)
  BY <1>1 DEF Queued, Waiting
<1>9. job \in Job => ~WithWorker(job)
  BY <1>2 DEF TestRunnerInv, PlaceInv
<1>10. /\ NoRepetition(input_queue)' /\ NoRepetition(output_queue)'
       /\ (\A v, x \in Held : worker[v].job = worker[x].job => v = x)'
  <2>1. NoRepetition(input_queue)' /\ NoRepetition(output_queue)'
    BY <1>1, <1>2 DEF NoRepetition, TestRunnerInv, PlaceInv
  <2>2. (\A v, x \in Held : worker[v].job = worker[x].job => v = x)'
    <3>1. \A v \in Held : worker'[v] = worker[v] /\ (job # Break => worker[v].job # job)
      BY <1>2, <1>4, <1>5, <1>9 DEF WithWorker
    <3> QED BY <1>4, <1>5, <3>1 DEF TestRunnerInv, PlaceInv
  <2> QED BY <2>1, <2>2
<1>11. PlaceInv'
  <2>1. \A j \in Job : j # Break
    BY ConstantTypes
  <2> QED BY <1>1, <1>2, <1>7, <1>8, <1>10, <2>1 DEF TestRunnerInv, PlaceInv
<1>12. TypeInv'
  BY <1>1, <1>2, <1>4, <1>6 DEF TestRunnerInv, TypeInv
<1>13. ResultInv' /\ TallyInv' /\ DoneInv'
  <2>1. ResultInv'
    BY <1>1 DEF TestRunnerInv, ResultInv, HandedIn, Queued
  <2> QED BY <1>1, <2>1, CountsKept, WorkingIsNotDone
<1> QED BY <1>11, <1>12, <1>13 DEF TestRunnerInv

\* Launching a job, and dying of it.
LEMMA RunKeeps ==
    ASSUME TestRunnerInv, NEW w \in Worker, Launch(w) \/ Raise(w)
    PROVE  TestRunnerInv'
<1>1. /\ UNCHANGED <<main, dispatched, reported, tally, exit_code, broken, returncode, outcome,
                     input_queue, output_queue, thread_exit>>
      /\ worker[w].at \in {"check", "run"} /\ w \in Held
  BY DEF Launch, Raise, mainVars, jobVars, Held
<1>2. \E at \in {"check", "run", "raised"} : worker' = [worker EXCEPT ![w].at = at]
  BY DEF Launch, Raise
<1>3. PlaceInv' /\ worker' \in [Worker -> WorkerType] /\ (\A v \in Held : worker[v].job \in Job)'
  BY <1>1, <1>2, SameJobPlaces
<1>4. TypeInv'
  BY <1>1, <1>3 DEF TestRunnerInv, TypeInv
<1>5. ResultInv'
  BY <1>1 DEF TestRunnerInv, ResultInv, HandedIn, Queued
<1> QED BY <1>1, <1>3, <1>4, <1>5, CountsKept, WorkingIsNotDone DEF TestRunnerInv

\* A job is handed in given up, skipped, or with the result of its process.
LEMMA HandInKeeps ==
    ASSUME TestRunnerInv, NEW w \in Worker, GiveUp(w) \/ Skip(w) \/ Finish(w)
    PROVE  TestRunnerInv'
<1> DEFINE job == worker[w].job
<1>1. /\ UNCHANGED <<main, dispatched, reported, tally, exit_code, input_queue, thread_exit>>
      /\ worker[w].at \in {"check", "run"} /\ w \in Held /\ PutBack(w)
  BY DEF GiveUp, Skip, Finish, mainVars, jobVars, Held
<1>2. job \in Job /\ job \notin reported /\ ~HandedIn(job)
  BY <1>1, HeldJob
<1>3. /\ PlaceInv'
      /\ worker' \in [Worker -> WorkerType] /\ (\A v \in Held : worker[v].job \in Job)'
      /\ output_queue' \in Seq(Job)
      /\ \A j \in Job : HandedIn(j)' => HandedIn(j) \/ j = job
  BY <1>1, PutBackPlaces
<1> HIDE DEF job
<1>4. /\ broken \subseteq Job /\ returncode \in [Job -> 0 .. 3]
      /\ outcome \in [Job -> Outcome \cup {NotRun}]
  BY DEF TestRunnerInv, TypeInv
<1>5. /\ broken' \subseteq Job /\ returncode' \in [Job -> 0 .. 3]
      /\ outcome' \in [Job -> Outcome \cup {NotRun}]
      /\ \/ job \in broken' \cup Skipped
         \/ outcome'[job] \in Outcome /\ returncode'[job] = Retval(outcome'[job])
      /\ broken \subseteq broken' /\ broken' \subseteq broken \cup {job}
      /\ \A j \in Job : j # job => returncode'[j] = returncode[j] /\ outcome'[j] = outcome[j]
  <2>1. CASE GiveUp(w)
    BY <1>2, <1>4, <2>1 DEF GiveUp, job
  <2>2. CASE Skip(w)
    BY <1>2, <1>4, <2>2 DEF Skip, jobVars, job
  <2>3. CASE Finish(w)
    <3>1. PICK o \in Outcome : /\ outcome' = [outcome EXCEPT ![job] = o]
                               /\ returncode' = [returncode EXCEPT ![job] = Retval(o)]
      BY <2>3 DEF Finish, job
    <3>2. Retval(o) \in 0 .. 3
      BY TestRunnerAssumption DEF Retval
    <3>3. broken' = broken
      BY <2>3 DEF Finish
    <3> QED BY <1>2, <1>4, <3>1, <3>2, <3>3
  <2> QED BY <2>1, <2>2, <2>3
<1>6. TypeInv'
  BY <1>1, <1>3, <1>5 DEF TestRunnerInv, TypeInv
<1>7. ResultInv'
  <2> SUFFICES ASSUME NEW j \in Job, HandedIn(j)'
               PROVE  \/ j \in broken' \cup Skipped
                      \/ outcome'[j] \in Outcome /\ returncode'[j] = Retval(outcome'[j])
    BY DEF ResultInv, Retval
  <2>1. CASE j = job
    BY <1>5, <2>1
  <2>2. CASE j # job
    BY <1>3, <1>5, <2>2 DEF TestRunnerInv, ResultInv
  <2> QED BY <2>1, <2>2
<1>8. TallyInv'
  <2>1. \A j \in reported : j # job /\ j \in Job
    BY <1>2 DEF TestRunnerInv, TypeInv
  <2>2. ASSUME NEW s \in Status PROVE Counted(s)' = Counted(s)
    BY <1>1, <1>5, <2>1 DEF Counted, StatusOf
  <2> QED BY <1>1, <2>2 DEF TestRunnerInv, TallyInv
<1> QED BY <1>1, <1>3, <1>6, <1>7, <1>8, WorkingIsNotDone DEF TestRunnerInv

-----------------------------------------------------------------------------
(***************************************************************************)
(* Collecting the results.                                                 *)
(***************************************************************************)

\* The counter of a job's status goes up by one, the set it counts by the job.
LEMMA CollectCounts ==
    ASSUME TestRunnerInv, NEW j \in Job, j \notin reported,
           reported' = reported \cup {j}, UNCHANGED <<broken, returncode>>,
           IF j \in broken THEN UNCHANGED tally
           ELSE tally' = [tally EXCEPT ![StatusOf(j)] = @ + 1]
    PROVE  TallyInv' /\ tally' \in [Status -> Nat]
<1>1. tally \in [Status -> Nat] /\ StatusOf(j) \in Status
  BY DEF TestRunnerInv, TypeInv, StatusOf, Status
<1>2. \A s : Counted(s)' = IF j \notin broken /\ s = StatusOf(j) THEN Counted(s) \cup {j} ELSE Counted(s)
  BY DEF Counted, StatusOf
<1>3. \A s : IsFiniteSet(Counted(s)) /\ j \notin Counted(s)
  <2>1. \A s : Counted(s) \subseteq Job
    BY DEF Counted, TestRunnerInv, TypeInv
  <2>2. \A s : IsFiniteSet(Counted(s))
    BY <2>1, ConstantTypes, FS_Subset
  <2> QED BY <2>2 DEF Counted
<1>4. \A s : Cardinality(Counted(s) \cup {j}) = Cardinality(Counted(s)) + 1
  BY <1>3, FS_AddElement
<1>5. tally' \in [Status -> Nat]
  BY <1>1
<1>6. ASSUME NEW s \in Status PROVE tally'[s] = Cardinality(Counted(s)')
  <2>1. tally[s] = Cardinality(Counted(s))
    BY DEF TestRunnerInv, TallyInv
  <2>2. CASE j \notin broken /\ s = StatusOf(j)
    BY <1>1, <1>2, <1>4, <2>1, <2>2
  <2>3. CASE ~(j \notin broken /\ s = StatusOf(j))
    BY <1>1, <1>2, <2>1, <2>3
  <2> QED BY <2>2, <2>3
<1> QED BY <1>5, <1>6 DEF TallyInv

LEMMA CollectKeeps ==
    ASSUME TestRunnerInv, Collect
    PROVE  TestRunnerInv'
<1> DEFINE j == Head(output_queue)
<1>1. /\ UNCHANGED <<broken, returncode, outcome, dispatched, input_queue, worker, thread_exit,
                     exit_code>>
      /\ output_queue # <<>> /\ output_queue' = Tail(output_queue)
      /\ reported' = reported \cup {j}
      /\ main = "collect" /\ main' \in {"collect", "raised"}
      /\ IF j \in broken THEN UNCHANGED tally
         ELSE tally' = [tally EXCEPT ![StatusOf(j)] = @ + 1]
  BY DEF Collect, jobVars
<1>2. /\ output_queue' \in Seq(Job) /\ j \in Job /\ NoRepetition(output_queue')
      /\ Queued(output_queue, j)
      /\ \A k : k # Break => (Queued(output_queue', k) <=> Queued(output_queue, k) /\ k # j)
  <2>1. output_queue \in Seq(Job) /\ NoRepetition(output_queue) /\ output_queue # <<>>
    BY <1>1 DEF TestRunnerInv, TypeInv, PlaceInv
  <2>2. /\ Tail(output_queue) \in Seq(Job) /\ Head(output_queue) \in Job
        /\ NoRepetition(Tail(output_queue)) /\ Queued(output_queue, Head(output_queue))
        /\ \A k : k # Break =>
              (Queued(Tail(output_queue), k) <=> Queued(output_queue, k) /\ k # Head(output_queue))
    BY <2>1, Taken1
  <2> QED BY <1>1, <2>2
<1> HIDE DEF j
<1>3. j \notin reported
  BY <1>2 DEF TestRunnerInv, PlaceInv
<1>4. TallyInv' /\ tally' \in [Status -> Nat]
  BY <1>1, <1>2, <1>3, CollectCounts
<1>5. TypeInv'
  BY <1>1, <1>2, <1>4 DEF TestRunnerInv, TypeInv, Held
<1>6. \A k \in Job : /\ WithWorker(k)' = WithWorker(k) /\ Waiting(k)' = Waiting(k)
                     /\ Queued(input_queue, k)' = Queued(input_queue, k)
                     /\ Queued(output_queue, k)' = Queued(output_queue', k)
  BY <1>1 DEF WithWorker, Held, Waiting, Queued
<1>7. \A k \in Job : k # Break
  BY ConstantTypes
<1>8. PlaceInv'
  <2>1. /\ NoRepetition(input_queue)' /\ NoRepetition(output_queue)'
        /\ (\A v, x \in Held : worker[v].job = worker[x].job => v = x)'
    BY <1>1, <1>2 DEF TestRunnerInv, PlaceInv, NoRepetition, Held
  <2> QED BY <1>1, <1>2, <1>6, <1>7, <2>1 DEF TestRunnerInv, PlaceInv
<1>9. ResultInv'
  <2>1. \A k \in Job : HandedIn(k)' => HandedIn(k)
    BY <1>1, <1>2, <1>6, <1>7 DEF HandedIn
  <2> QED BY <1>1, <2>1 DEF TestRunnerInv, ResultInv, Retval
<1>10. DoneInv'
  BY <1>1 DEF DoneInv
<1> QED BY <1>4, <1>5, <1>8, <1>9, <1>10 DEF TestRunnerInv

LEMMA JoinKeeps ==
    ASSUME TestRunnerInv, Join
    PROVE  TestRunnerInv'
<1>1. /\ UNCHANGED <<broken, returncode, outcome, dispatched, input_queue, output_queue, worker,
                     thread_exit, reported, tally>>
      /\ main' = "done" /\ exit_code' = ExitCode /\ \A w \in Worker : Ended(w)
  BY DEF Join, jobVars
<1>2. TypeInv'
  BY <1>1 DEF TestRunnerInv, TypeInv, Held, ExitCode
<1>3. PlaceInv' /\ ResultInv'
  BY <1>1 DEF TestRunnerInv, PlaceInv, Held, Waiting, WithWorker, Queued, NoRepetition, ResultInv,
              HandedIn, Retval
<1>4. DoneInv'
  BY <1>1 DEF DoneInv, ExitCode, Ended
<1> QED BY <1>1, <1>2, <1>3, <1>4, CountsKept DEF TestRunnerInv

-----------------------------------------------------------------------------
LEMMA TestRunnerInit == Init => TestRunnerInv
<1> SUFFICES ASSUME Init PROVE TestRunnerInv
  OBVIOUS
<1>1. TypeInv
  <2>1. worker \in [Worker -> WorkerType] /\ Held = {}
    BY DEF Init, WorkerType, Held
  <2>2. /\ input_queue \in Seq(Job \cup {Break}) /\ output_queue \in Seq(Job)
        /\ dispatched \in 0 .. Jobs + Cardinality(Worker)
    BY ConstantTypes DEF Init
  <2>3. returncode \in [Job -> 0 .. 3] /\ outcome \in [Job -> Outcome \cup {NotRun}]
    BY DEF Init
  <2> QED BY <2>1, <2>2, <2>3 DEF Init, TypeInv
<1>2. PlaceInv
  <2>1. /\ NoRepetition(input_queue) /\ NoRepetition(output_queue) /\ Held = {}
        /\ \A j \in Job : ~Queued(input_queue, j) /\ ~Queued(output_queue, j)
    BY DEF Init, NoRepetition, Held, Queued
  <2>2. \A j \in Job : Waiting(j)
    BY ConstantTypes DEF Init, Waiting, Job
  <2> QED BY <2>1, <2>2 DEF Init, PlaceInv, WithWorker
<1>3. ResultInv /\ DoneInv
  BY DEF Init, ResultInv, HandedIn, Queued, DoneInv
<1>4. TallyInv
  <2>1. \A s : Counted(s) = {}
    BY DEF Init, Counted
  <2> QED BY <2>1, FS_EmptySet DEF Init, TallyInv
<1> QED BY <1>1, <1>2, <1>3, <1>4 DEF TestRunnerInv

LEMMA TestRunnerStep == TestRunnerInv /\ [Next]_vars => TestRunnerInv'
<1> SUFFICES ASSUME TestRunnerInv, [Next]_vars PROVE TestRunnerInv'
  OBVIOUS
<1>1. ASSUME UNCHANGED <<main, dispatched, input_queue, output_queue, worker, broken, returncode,
                         reported, tally, exit_code, outcome>>,
             thread_exit' \in BOOLEAN
      PROVE  TestRunnerInv'
  <2>1. TypeInv'
    BY <1>1 DEF TestRunnerInv, TypeInv, Held
  <2>2. PlaceInv' /\ ResultInv'
    BY <1>1 DEF TestRunnerInv, PlaceInv, Held, Waiting, WithWorker, Queued, NoRepetition, ResultInv,
                HandedIn, Retval
  <2>3. DoneInv'
    BY <1>1 DEF TestRunnerInv, DoneInv, ExitCode, Ended
  <2> QED BY <1>1, <2>1, <2>2, <2>3, CountsKept DEF TestRunnerInv
<1>2. CASE Interrupt
  BY <1>1, <1>2 DEF Interrupt, mainVars, jobVars
<1>3. CASE UNCHANGED vars
  BY <1>1, <1>3 DEF vars, TestRunnerInv, TypeInv
<1>4. CASE MainStep
  BY <1>4, DispatchKeeps, CollectKeeps, JoinKeeps DEF MainStep
<1>5. CASE \E w \in Worker : WorkerStep(w)
  BY <1>5, GetKeeps, RunKeeps, HandInKeeps DEF WorkerStep
<1> QED BY <1>2, <1>3, <1>4, <1>5 DEF Next

(* Type correctness: no job identifier but those dispatched ever reaches a
   worker or the output queue, and no counter exceeds the number of jobs. *)
THEOREM TestRunnerTypes == Spec => []TypeOK
<1>1. TestRunnerInv => TypeOK
  <2> SUFFICES ASSUME TestRunnerInv PROVE TypeOK
    OBVIOUS
  <2>1. ASSUME NEW s \in Status PROVE tally[s] \in 0 .. Jobs
    <3>1. Counted(s) \subseteq Job /\ tally[s] = Cardinality(Counted(s))
      BY DEF Counted, TestRunnerInv, TypeInv, TallyInv
    <3>2. Cardinality(Counted(s)) <= Jobs
      BY <3>1, ConstantTypes, FS_Subset
    <3> QED BY <3>1, <3>2, ConstantTypes DEF TestRunnerInv, TypeInv
  <2> QED BY <2>1 DEF TestRunnerInv, TypeInv, TypeOK, WorkerType
<1>2. QED BY <1>1, TestRunnerInit, TestRunnerStep, PTL DEF Spec

\* The places of one kind are one or none.
LEMMA OneInQueue ==
    ASSUME NEW q, NoRepetition(q), NEW j, j # Break
    PROVE  LET S == {i \in DOMAIN q : q[i] = j}
           IN  /\ Queued(q, j) => \E x : S = {x}
               /\ ~Queued(q, j) => S = {}
<1> DEFINE S == {i \in DOMAIN q : q[i] = j}
<1>1. ASSUME Queued(q, j) PROVE \E x : S = {x}
  <2>1. PICK x \in DOMAIN q : q[x] = j
    BY <1>1 DEF Queued
  <2>2. \A i \in S : i = x
    BY <2>1 DEF NoRepetition
  <2>3. S = {x}
    BY <2>1, <2>2
  <2> QED BY <2>3
<1>2. ~Queued(q, j) => S = {}
  BY DEF Queued
<1> QED BY <1>1, <1>2

LEMMA OneWorker ==
    ASSUME TestRunnerInv, NEW j \in Job
    PROVE  LET S == {w \in Held : worker[w].job = j}
           IN  /\ WithWorker(j) => \E x : S = {x}
               /\ ~WithWorker(j) => S = {}
<1> DEFINE S == {w \in Held : worker[w].job = j}
<1>1. ASSUME WithWorker(j) PROVE \E x : S = {x}
  <2>1. PICK x \in Held : worker[x].job = j
    BY <1>1 DEF WithWorker
  <2>2. \A w \in S : w = x
    BY <2>1 DEF TestRunnerInv, PlaceInv
  <2>3. S = {x}
    BY <2>1, <2>2
  <2> QED BY <2>3
<1>2. ~WithWorker(j) => S = {}
  BY DEF WithWorker
<1> QED BY <1>1, <1>2

(* No job is lost or handed in twice: for every number of workers and jobs,
   interrupted or not, each job is in exactly one place until it is reported. *)
THEOREM ResultsAreComing == Spec => []EveryResultIsComing
<1>1. TestRunnerInv => EveryResultIsComing
  <2> SUFFICES ASSUME TestRunnerInv, NEW j \in Job
               PROVE  \E p \in Places(j) : Places(j) = {p}
    BY DEF EveryResultIsComing
  <2> DEFINE waiting  == {j} \ (1 .. dispatched)
             input    == {i \in DOMAIN input_queue : input_queue[i] = j}
             with     == {w \in Held : worker[w].job = j}
             output   == {i \in DOMAIN output_queue : output_queue[i] = j}
             done     == {j} \cap reported
  <2>1. Places(j) = At("waiting", waiting) \cup At("input", input) \cup At("worker", with)
                    \cup At("output", output) \cup At("reported", done)
    BY DEF Places
  <2>2. waiting = IF Waiting(j) THEN {j} ELSE {}
    BY ConstantTypes DEF Waiting, Job, TestRunnerInv, TypeInv
  <2>3. done = IF j \in reported THEN {j} ELSE {}
    OBVIOUS
  <2>4. /\ Queued(input_queue, j) => \E x : input = {x}
        /\ ~Queued(input_queue, j) => input = {}
    BY OneInQueue, ConstantTypes DEF TestRunnerInv, PlaceInv
  <2>5. /\ Queued(output_queue, j) => \E x : output = {x}
        /\ ~Queued(output_queue, j) => output = {}
    BY OneInQueue, ConstantTypes DEF TestRunnerInv, PlaceInv
  <2>6. /\ WithWorker(j) => \E x : with = {x}
        /\ ~WithWorker(j) => with = {}
    BY OneWorker
  <2> HIDE DEF waiting, input, with, output, done
  <2>7. \E x :
           \/ waiting = {x} /\ input = {} /\ with = {} /\ output = {} /\ done = {}
           \/ waiting = {} /\ input = {x} /\ with = {} /\ output = {} /\ done = {}
           \/ waiting = {} /\ input = {} /\ with = {x} /\ output = {} /\ done = {}
           \/ waiting = {} /\ input = {} /\ with = {} /\ output = {x} /\ done = {}
           \/ waiting = {} /\ input = {} /\ with = {} /\ output = {} /\ done = {x}
    <3>1. CASE Waiting(j)
      BY <2>2, <2>3, <2>4, <2>5, <2>6, <3>1 DEF TestRunnerInv, PlaceInv
    <3>2. CASE Queued(input_queue, j)
      BY <2>2, <2>3, <2>4, <2>5, <2>6, <3>2 DEF TestRunnerInv, PlaceInv
    <3>3. CASE WithWorker(j)
      BY <2>2, <2>3, <2>4, <2>5, <2>6, <3>3 DEF TestRunnerInv, PlaceInv
    <3>4. CASE Queued(output_queue, j)
      BY <2>2, <2>3, <2>4, <2>5, <2>6, <3>4 DEF TestRunnerInv, PlaceInv
    <3>5. CASE j \in reported
      BY <2>2, <2>3, <2>4, <2>5, <2>6, <3>5 DEF TestRunnerInv, PlaceInv
    <3> QED BY <3>1, <3>2, <3>3, <3>4, <3>5 DEF TestRunnerInv, PlaceInv
  <2> PICK x : \/ waiting = {x} /\ input = {} /\ with = {} /\ output = {} /\ done = {}
               \/ waiting = {} /\ input = {x} /\ with = {} /\ output = {} /\ done = {}
               \/ waiting = {} /\ input = {} /\ with = {x} /\ output = {} /\ done = {}
               \/ waiting = {} /\ input = {} /\ with = {} /\ output = {x} /\ done = {}
               \/ waiting = {} /\ input = {} /\ with = {} /\ output = {} /\ done = {x}
    BY <2>7
  <2>8. \A place : At(place, {}) = {} /\ At(place, {x}) = {<<place, x>>}
    BY DEF At
  <2>9. CASE waiting = {x} /\ input = {} /\ with = {} /\ output = {} /\ done = {}
    <3>1. Places(j) = {<<"waiting", x>>}
      BY <2>1, <2>8, <2>9
    <3> QED BY <3>1
  <2>10. CASE waiting = {} /\ input = {x} /\ with = {} /\ output = {} /\ done = {}
    <3>1. Places(j) = {<<"input", x>>}
      BY <2>1, <2>8, <2>10
    <3> QED BY <3>1
  <2>11. CASE waiting = {} /\ input = {} /\ with = {x} /\ output = {} /\ done = {}
    <3>1. Places(j) = {<<"worker", x>>}
      BY <2>1, <2>8, <2>11
    <3> QED BY <3>1
  <2>12. CASE waiting = {} /\ input = {} /\ with = {} /\ output = {x} /\ done = {}
    <3>1. Places(j) = {<<"output", x>>}
      BY <2>1, <2>8, <2>12
    <3> QED BY <3>1
  <2>13. CASE waiting = {} /\ input = {} /\ with = {} /\ output = {} /\ done = {x}
    <3>1. Places(j) = {<<"reported", x>>}
      BY <2>1, <2>8, <2>13
    <3> QED BY <3>1
  <2> QED BY <2>9, <2>10, <2>11, <2>12, <2>13
<1>2. QED BY <1>1, TestRunnerInit, TestRunnerStep, PTL DEF Spec

(* Success is not reported for work that was not done: for every number of
   workers and jobs, exit code 0 means that each job was skipped on purpose or
   that its process ended with 0, and that an interrupt dropped none. *)
THEOREM SuccessIsReal == Spec => []SuccessMeansAllPassed
<1>1. TestRunnerInv => SuccessMeansAllPassed
  <2> SUFFICES ASSUME TestRunnerInv, main = "done", exit_code = 0
               PROVE  /\ reported = Job /\ broken = {}
                      /\ \A j \in Job \ Skipped : outcome[j] \in Outcome /\ outcome[j].code = 0
    BY DEF SuccessMeansAllPassed
  <2> DEFINE good == Counted("PASS") \cup Counted("SKIP")
  <2>1. tally["PASS"] + tally["SKIP"] = Jobs
    BY DEF TestRunnerInv, DoneInv, ExitCode
  <2>2. /\ tally["PASS"] = Cardinality(Counted("PASS"))
        /\ tally["SKIP"] = Cardinality(Counted("SKIP"))
    BY DEF TestRunnerInv, TallyInv, Status
  <2>3. /\ IsFiniteSet(Counted("PASS")) /\ IsFiniteSet(Counted("SKIP"))
        /\ Counted("PASS") \subseteq Job /\ Counted("SKIP") \subseteq Job
    <3>1. \A s : Counted(s) \subseteq Job
      BY DEF Counted, TestRunnerInv, TypeInv
    <3> QED BY <3>1, ConstantTypes, FS_Subset
  <2>4. Counted("PASS") \cap Counted("SKIP") = {}
    BY DEF Counted
  <2>5. Cardinality(good) = Cardinality(Counted("PASS")) + Cardinality(Counted("SKIP"))
    <3> DEFINE P == Counted("PASS")
               K == Counted("SKIP")
    <3>1. /\ IsFiniteSet(P) /\ IsFiniteSet(K)
          /\ Cardinality(P \cap K) = 0 /\ Cardinality(P) \in Nat /\ Cardinality(K) \in Nat
      BY <2>3, <2>4, FS_EmptySet, FS_CardinalityType
    <3> HIDE DEF P, K
    <3>2. Cardinality(P \cup K) = Cardinality(P) + Cardinality(K) - Cardinality(P \cap K)
      BY <3>1, FS_Union
    <3>3. Cardinality(P \cup K) = Cardinality(P) + Cardinality(K)
      BY <3>1, <3>2
    <3> QED BY <3>3 DEF P, K
  <2>6. good = Job
    <3>1. Cardinality(good) = Cardinality(Job) /\ good \subseteq Job
      BY <2>1, <2>2, <2>3, <2>5, ConstantTypes
    <3> QED BY <3>1, ConstantTypes, FS_Subset
  <2>7. ASSUME NEW j \in Job \ Skipped PROVE outcome[j] \in Outcome /\ outcome[j].code = 0
    <3>1. j \in reported /\ j \notin broken /\ StatusOf(j) \in {"PASS", "SKIP"}
      BY <2>6 DEF Counted
    <3>2. returncode[j] = 0
      BY <3>1 DEF StatusOf, TestRunnerInv, TypeInv
    <3>3. outcome[j] \in Outcome /\ returncode[j] = Retval(outcome[j])
      BY <3>1 DEF TestRunnerInv, ResultInv, HandedIn
    <3> QED BY <3>2, <3>3 DEF Retval
  <2>8. reported = Job /\ broken = {}
    BY <2>6 DEF Counted, TestRunnerInv, TypeInv
  <2> QED BY <2>7, <2>8
<1>2. QED BY <1>1, TestRunnerInit, TestRunnerStep, PTL DEF Spec
=============================================================================
