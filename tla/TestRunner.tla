----------------------------- MODULE TestRunner -----------------------------
(***************************************************************************)
(* test.py: the main thread puts one job per test suite and example into   *)
(* input_queue, then one break job per worker; each worker runs the jobs   *)
(* it takes as processes of their own and puts them into output_queue; the *)
(* main thread takes as many results as it dispatched jobs, counts them,   *)
(* appends their files to the results file and waits for the workers.      *)
(* Ctrl-C sets a flag the workers look at before they start a job.         *)
(***************************************************************************)
EXTENDS Integers, FiniteSets, Sequences

CONSTANTS
    Worker,      \* worker threads
    Jobs,        \* number of test jobs, dispatched in the order 1, 2, ...
    Skipped,     \* jobs with is_skip
    Example,     \* jobs with is_example or is_pyexample: they write no results file
    Outcome,     \* how a process may end: its code, its file, whether its output decodes
    PopenRaises  \* whether starting a process may raise an exception

Job == 1 .. Jobs
Break == 0       \* a job with is_break, made to end a worker

ASSUME TestRunnerAssumption ==
    /\ IsFiniteSet(Worker) /\ Worker # {} /\ Jobs \in Nat
    /\ Skipped \subseteq Job /\ Example \subseteq Job
    /\ Outcome \subseteq [code : 0 .. 3, file : BOOLEAN, decodes : BOOLEAN]
    /\ \A o \in Outcome : o.code \in 0 .. 2 => o.file
    /\ PopenRaises \in BOOLEAN

VARIABLES
    main,          \* what the main thread is doing
    dispatched,    \* jobs put into input_queue so far, break jobs included
    input_queue,
    output_queue,
    worker,        \* what a worker thread is doing: [at, job]
    thread_exit,   \* set by sigint_hook
    broken,        \* jobs a worker has set is_break on
    returncode,    \* job.returncode
    reported,      \* jobs the main thread has taken from output_queue
    tally,         \* the counters of run_tests
    exit_code,     \* what run_tests returns
    outcome        \* history: how the process of a job ended

vars == <<main, dispatched, input_queue, output_queue, worker, thread_exit, broken,
          returncode, reported, tally, exit_code, outcome>>

mainVars == <<main, dispatched, reported, tally, exit_code>>
jobVars == <<broken, returncode, outcome>>

NotRun == [code |-> 3, file |-> FALSE, decodes |-> TRUE]
Status == {"SKIP", "PASS", "FAIL", "VALGR", "CRASH"}

Init ==
    /\ main = "dispatch" /\ dispatched = 0
    /\ input_queue = <<>> /\ output_queue = <<>>
    /\ worker = [w \in Worker |-> [at |-> "get", job |-> Break]]
    /\ thread_exit = FALSE /\ broken = {}
    /\ returncode = [j \in Job |-> 0] /\ outcome = [j \in Job |-> NotRun]
    /\ reported = {} /\ tally = [s \in Status |-> 0] /\ exit_code = 1

-----------------------------------------------------------------------------
(***************************************************************************)
(* Worker threads.                                                         *)
(***************************************************************************)

\* Mutant of Taken: a break job is taken for a test.
TakenAsTest(job) == "check"

\* A break job ends the thread, any other is looked at.
Taken(job) == IF job = Break THEN "ended" ELSE "check"

Get(w) ==
    /\ worker[w].at = "get" /\ input_queue # <<>>
    /\ input_queue' = Tail(input_queue)
    /\ worker' = [worker EXCEPT ![w] = [at |-> Taken(Head(input_queue)), job |-> Head(input_queue)]]
    /\ UNCHANGED <<mainVars, jobVars, output_queue, thread_exit>>

\* Mutant of PutBack: a job that is not run is not handed back.
Forget(w) ==
    /\ worker' = [worker EXCEPT ![w] = [at |-> "get", job |-> Break]]
    /\ UNCHANGED output_queue

PutBack(w) ==
    /\ worker' = [worker EXCEPT ![w] = [at |-> "get", job |-> Break]]
    /\ output_queue' = Append(output_queue, worker[w].job)

\* After an interrupt the job goes back marked, without work done.
GiveUp(w) ==
    /\ worker[w].at = "check" /\ thread_exit
    /\ broken' = broken \cup {worker[w].job}
    /\ PutBack(w)
    /\ UNCHANGED <<mainVars, input_queue, thread_exit, returncode, outcome>>

\* A job to be skipped goes through the worker as well.
Skip(w) ==
    /\ worker[w].at = "check" /\ ~thread_exit /\ worker[w].job \in Skipped
    /\ PutBack(w)
    /\ UNCHANGED <<mainVars, jobVars, input_queue, thread_exit>>

Launch(w) ==
    /\ worker[w].at = "check" /\ ~thread_exit /\ worker[w].job \notin Skipped
    /\ worker' = [worker EXCEPT ![w].at = "run"]
    /\ UNCHANGED <<mainVars, jobVars, input_queue, output_queue, thread_exit>>

\* run_job_synchronously: output that does not decode replaces the code by 1.
Retval(o) == IF o.decodes THEN o.code ELSE 1

Finish(w) ==
    /\ worker[w].at = "run"
    /\ \E o \in Outcome :
        /\ outcome' = [outcome EXCEPT ![worker[w].job] = o]
        /\ returncode' = [returncode EXCEPT ![worker[w].job] = Retval(o)]
    /\ PutBack(w)
    /\ UNCHANGED <<mainVars, input_queue, thread_exit, broken>>

\* subprocess.Popen raises (no process, no descriptor left): the thread is gone.
Raise(w) ==
    /\ PopenRaises /\ worker[w].at = "run"
    /\ worker' = [worker EXCEPT ![w].at = "raised"]
    /\ UNCHANGED <<mainVars, jobVars, input_queue, output_queue, thread_exit>>

WorkerStep(w) == Get(w) \/ GiveUp(w) \/ Skip(w) \/ Launch(w) \/ Finish(w) \/ Raise(w)

-----------------------------------------------------------------------------
(***************************************************************************)
(* The main thread.                                                        *)
(***************************************************************************)
Interrupt ==
    /\ ~thread_exit /\ thread_exit' = TRUE
    /\ UNCHANGED <<mainVars, jobVars, input_queue, output_queue, worker>>

\* Mutant of BreakJobs: the last worker is forgotten.
BreakJobsButOne == Cardinality(Worker) - 1

BreakJobs == Cardinality(Worker)

\* All test jobs first, then a break job for every worker.
Dispatch ==
    /\ main = "dispatch"
    /\ IF dispatched = Jobs + BreakJobs
       THEN main' = "collect" /\ UNCHANGED <<dispatched, input_queue>>
       ELSE /\ dispatched' = dispatched + 1
            /\ input_queue' = Append(input_queue, IF dispatched < Jobs THEN dispatched + 1 ELSE Break)
            /\ UNCHANGED main
    /\ UNCHANGED <<jobVars, output_queue, worker, thread_exit, reported, tally, exit_code>>

StatusOf(j) ==
    IF j \in Skipped THEN "SKIP"
    ELSE CASE returncode[j] = 0 -> "PASS"
           [] returncode[j] = 1 -> "FAIL"
           [] returncode[j] = 2 -> "VALGR"
           [] OTHER             -> "CRASH"

\* The results of a suite whose code is 0, 1 or 2 are read from its file.
HasResultsFile(j) == j \notin Skipped \cup Example /\ returncode[j] \in 0 .. 2

\* Without the file, opening it raises an exception that ends the main thread.
Collect ==
    /\ main = "collect" /\ Cardinality(reported) < Jobs /\ output_queue # <<>>
    /\ output_queue' = Tail(output_queue)
    /\ LET j == Head(output_queue) IN
        /\ reported' = reported \cup {j}
        /\ IF j \in broken
           THEN UNCHANGED <<main, tally>>
           ELSE /\ tally' = [tally EXCEPT ![StatusOf(j)] = @ + 1]
                /\ main' = IF HasResultsFile(j) /\ ~outcome[j].file THEN "raised" ELSE main
    /\ UNCHANGED <<jobVars, dispatched, input_queue, worker, thread_exit, exit_code>>

\* Mutant of ExitCode: success unless something failed.
ExitCodeOfFailures == IF tally["FAIL"] + tally["CRASH"] + tally["VALGR"] = 0 THEN 0 ELSE 1

ExitCode == IF tally["PASS"] + tally["SKIP"] = Jobs THEN 0 ELSE 1

Ended(w) == worker[w].at \in {"ended", "raised"}

Join ==
    /\ main = "collect" /\ Cardinality(reported) = Jobs
    /\ \A w \in Worker : Ended(w)
    /\ main' = "done" /\ exit_code' = ExitCode
    /\ UNCHANGED <<jobVars, dispatched, input_queue, output_queue, worker, thread_exit,
                   reported, tally>>

MainStep == Dispatch \/ Collect \/ Join

Over == main \in {"done", "raised"} /\ \A w \in Worker : Ended(w)

Next ==
    \/ MainStep
    \/ \E w \in Worker : WorkerStep(w)
    \/ Interrupt
    \/ Over /\ UNCHANGED vars

Spec == Init /\ [][Next]_vars

\* Threads run, and processes end.
FairSpec == Spec /\ WF_vars(MainStep) /\ \A w \in Worker : WF_vars(WorkerStep(w))

-----------------------------------------------------------------------------
Held == {w \in Worker : worker[w].at \in {"check", "run", "raised"}}

TypeOK ==
    /\ main \in {"dispatch", "collect", "done", "raised"}
    /\ dispatched \in 0 .. Jobs + Cardinality(Worker)
    /\ input_queue \in Seq(Job \cup {Break}) /\ output_queue \in Seq(Job)
    /\ worker \in [Worker -> [at : {"get", "check", "run", "ended", "raised"}, job : Job \cup {Break}]]
    /\ \A w \in Held : worker[w].job \in Job
    /\ thread_exit \in BOOLEAN /\ broken \subseteq Job
    /\ returncode \in [Job -> 0 .. 3] /\ outcome \in [Job -> Outcome \cup {NotRun}]
    /\ reported \subseteq Job /\ tally \in [Status -> 0 .. Jobs] /\ exit_code \in {0, 1}

At(place, S) == {<<place, x>> : x \in S}

\* Where a job is: still to be dispatched, in a queue, with a worker, reported.
Places(j) ==
    At("waiting", {j} \ (1 .. dispatched))
    \cup At("input", {i \in DOMAIN input_queue : input_queue[i] = j})
    \cup At("worker", {w \in Held : worker[w].job = j})
    \cup At("output", {i \in DOMAIN output_queue : output_queue[i] = j})
    \cup At("reported", {j} \cap reported)

\* Every job is in exactly one place, so each result the main thread waits for is
\* on its way once, unless the worker that holds the job has raised (test.py:1707-1724).
EveryResultIsComing == \A j \in Job : \E p \in Places(j) : Places(j) = {p}

\* A run that reports success ran every test: each was skipped on purpose, or
\* its process ended with 0, and none was dropped by an interrupt (test.py:1946-1949).
SuccessMeansAllPassed ==
    main = "done" /\ exit_code = 0 =>
        /\ reported = Job /\ broken = {}
        /\ \A j \in Job \ Skipped : outcome[j] \in Outcome /\ outcome[j].code = 0

\* The run ends, interrupted or not, with every worker told to stop; only a
\* worker that has died of an exception keeps the main thread waiting for the
\* job it took along (test.py:1701-1724, 1862-1863).
Terminates == <>(Over \/ \E w \in Worker : worker[w].at = "raised")
=============================================================================
