----------------------------- MODULE WorkerPool -----------------------------
(***************************************************************************)
(* PersistentWorkerPool: a fixed set of std::jthread workers, a bounded    *)
(* queue of tasks, and one std::future per task.  The module has the state *)
(* of the pool, the steps of its workers and, as operators for the module  *)
(* that uses the pool, what a call of submit() or cancel() does to it.     *)
(*                                                                         *)
(* work_available_ is a condition_variable_any waited on with the worker's *)
(* stop token: requesting a stop wakes the worker as well.                 *)
(*                                                                         *)
(* Definitions marked Faulty are not part of the specification: each is    *)
(* the definition after it with one plausible mistake.                     *)
(***************************************************************************)
EXTENDS Integers, Sequences

CONSTANTS
  Workers,         \* the worker threads
  QueueCapacity,   \* queue_capacity_
  Tasks            \* the tasks ever submitted

ASSUME QueueCapacityAssumption == QueueCapacity \in Nat \ {0}

VARIABLES
  accepting,       \* accepting_
  tasks,           \* tasks_, the queue
  worker,          \* where each worker is
  running,         \* the task each worker holds
  stop,            \* a stop was requested of the worker
  future,          \* the state of each task's future
  tasks_started,   \* telemetry_
  tasks_completed,
  tasks_cancelled

poolCounters == <<tasks_started, tasks_completed, tasks_cancelled>>
poolVars == <<accepting, tasks, worker, running, stop, future, poolCounters>>

FutureStates == {"none", "pending", "ready", "failed", "broken", "consumed"}

PoolInit ==
  /\ accepting = TRUE
  /\ tasks = << >>
  /\ worker = [w \in Workers |-> "none"]
  /\ running = [w \in Workers |-> << >>]
  /\ stop = [w \in Workers |-> FALSE]
  /\ future = [t \in Tasks |-> "none"]
  /\ tasks_started = 0
  /\ tasks_completed = 0
  /\ tasks_cancelled = 0

\* Workers notified on work_available_.
Notified == [w \in Workers |-> IF worker[w] = "sleep" THEN "loop" ELSE worker[w]]

\* The threads that exist.
Alive == {w \in Workers : worker[w] \notin {"none", "exited"}}

-----------------------------------------------------------------------------
(* The calls.                                                              *)

\* The constructor created the workers in `started'.
StartWorkers(started) ==
  /\ worker' = [w \in Workers |-> IF w \in started THEN "loop" ELSE "none"]
  /\ UNCHANGED <<accepting, tasks, running, stop, future, poolCounters>>

HasSpace == Len(tasks) < QueueCapacity

\* submit() past its wait: the task is queued and one sleeper notified.
PushTask(t) ==
  /\ accepting /\ HasSpace
  /\ tasks' = Append(tasks, t)
  /\ future' = [future EXCEPT ![t] = "pending"]
  /\ \/ \E w \in Workers : /\ worker[w] = "sleep"
                           /\ worker' = [worker EXCEPT ![w] = "loop"]
     \/ /\ \A w \in Workers : worker[w] # "sleep"
        /\ UNCHANGED worker
  /\ UNCHANGED <<accepting, running, stop, poolCounters>>

\* cancel() under the lock: queued tasks are destroyed, which breaks the
\* promises behind their futures.
CancelTasks ==
  /\ accepting' = FALSE
  /\ tasks_cancelled' = tasks_cancelled + Len(tasks)
  /\ future' = [t \in Tasks |->
                  IF \E i \in 1..Len(tasks) : tasks[i] = t THEN "broken"
                  ELSE future[t]]
  /\ tasks' = << >>
  /\ UNCHANGED <<worker, running, stop, tasks_started, tasks_completed>>

\* Faulty: only the sleepers are told to stop.
RequestStopsOfSleepers ==
  /\ stop' = [w \in Workers |-> worker[w] = "sleep"]
  /\ worker' = Notified
  /\ UNCHANGED <<accepting, tasks, running, future, poolCounters>>

\* request_stop() of every worker and notify_all().
RequestStops ==
  /\ stop' = [w \in Workers |-> TRUE]
  /\ worker' = Notified
  /\ UNCHANGED <<accepting, tasks, running, future, poolCounters>>

-----------------------------------------------------------------------------
(* run(), the loop of a worker.                                            *)

\* The wait on work_available_, and what follows it under the lock.
WorkerSleeps(w) ==
  /\ worker[w] = "loop"
  /\ ~stop[w] /\ accepting /\ tasks = << >>
  /\ worker' = [worker EXCEPT ![w] = "sleep"]
  /\ UNCHANGED <<accepting, tasks, running, stop, future, poolCounters>>

WorkerExits(w) ==
  /\ worker[w] = "loop"
  /\ stop[w] \/ (~accepting /\ tasks = << >>)
  /\ worker' = [worker EXCEPT ![w] = "exited"]
  /\ UNCHANGED <<accepting, tasks, running, stop, future, poolCounters>>

WorkerTakes(w) ==
  /\ worker[w] = "loop"
  /\ ~stop[w] /\ tasks # << >>
  /\ running' = [running EXCEPT ![w] = <<Head(tasks)>>]
  /\ tasks' = Tail(tasks)
  /\ tasks_started' = tasks_started + 1
  /\ worker' = [worker EXCEPT ![w] = "run"]
  /\ UNCHANGED <<accepting, stop, future, tasks_completed, tasks_cancelled>>

\* The packaged task has run: its value, "ready", or its exception, "failed",
\* goes to the future.  What the task does is up to the module that uses the
\* pool, which takes this step.
WorkerRuns(w, outcome) ==
  /\ worker[w] = "run"
  /\ future' = [future EXCEPT ![running[w][1]] = outcome]
  /\ worker' = [worker EXCEPT ![w] = "account"]
  /\ UNCHANGED <<accepting, tasks, running, stop, poolCounters>>

WorkerAccounts(w) ==
  /\ worker[w] = "account"
  /\ tasks_completed' = tasks_completed + 1
  /\ running' = [running EXCEPT ![w] = << >>]
  /\ worker' = [worker EXCEPT ![w] = "loop"]
  /\ UNCHANGED <<accepting, tasks, stop, future, tasks_started, tasks_cancelled>>

\* The loop without the run of the task.
PoolWorker(w) ==
  \/ WorkerSleeps(w) \/ WorkerExits(w) \/ WorkerTakes(w) \/ WorkerAccounts(w)

=============================================================================
