-------------------------- MODULE MultiprocWorkers --------------------------
(***************************************************************************)
(* Local worker processes (src/vllm/executor/multiproc_worker_utils.py):   *)
(* the threads that submit tasks, the worker processes with a task queue   *)
(* each, the result queue they share, the thread that hands results out,   *)
(* and the thread that watches the processes.                              *)
(*                                                                         *)
(* An action is one step of one thread or process: what it does up to its  *)
(* next access to state that another one may change.  A worker may die at  *)
(* any moment, with what it was doing and what waits in its queue.         *)
(***************************************************************************)
EXTENDS Naturals, SequencesExt, FiniteSets

CONSTANTS
    NumWorkers,     \* the list of workers is 1 .. NumWorkers
    Tasks,
    WorkerOf,       \* [Tasks -> Workers]
    Terminate,      \* the sentinel
    Endless         \* tasks of loops: when one ends, their caller's module says

Workers == 1 .. NumWorkers

\* What a worker puts into the result queue.
Results == [task : Tasks, value : {"value", "error"}]

ASSUME WorkersAssumption ==
    /\ NumWorkers \in Nat \ {0}
    /\ WorkerOf \in [Tasks -> Workers]
    /\ Endless \subseteq Tasks
    /\ Terminate \notin Tasks \cup Results

VARIABLES
    future,     \* of each task; its thread is between the two steps of
                \* _enqueue_task when "registered", and waits when "pending"
    tasks,      \* ResultHandler.tasks
    taskQueue,  \* of each worker
    shut,       \* workers whose task queue is closed on this side
    process,    \* "up", "exited", "died" or "killed"
    current,    \* what each worker executes: a sequence of at most one task
    results,    \* the result queue
    handler,    \* the result handler: at, and what its loop has told
    monitor,    \* where the worker monitor is
    left,       \* the worker it kills next
    close,      \* _close
    closer,     \* where a call of WorkerMonitor.close is
    toEnd       \* the worker it terminates next

workerVars == <<future, tasks, taskQueue, shut, process, current, results,
                handler, monitor, left, close, closer, toEnd>>

WorkersInit ==
    /\ future = [t \in Tasks |-> "none"]
    /\ tasks = {}
    /\ taskQueue = [w \in Workers |-> <<>>]
    /\ shut = {}
    /\ process = [w \in Workers |-> "up"]
    /\ current = [w \in Workers |-> <<>>]
    /\ results = <<>>
    /\ handler = [at |-> "serving", told |-> {}, size |-> 0]
    /\ monitor = "watching"
    /\ left = 1
    /\ close = FALSE
    /\ closer = "none"
    /\ toEnd = 1

SetFuture(t, value) == future' = [future EXCEPT ![t] = value]

Up(w) == process[w] = "up"

-----------------------------------------------------------------------------
(* Submitting threads: _enqueue_task. *)

RegisterTask(t) ==
    /\ future[t] = "none"
    /\ SetFuture(t, "registered")
    /\ tasks' = tasks \cup {t}
    /\ UNCHANGED <<taskQueue, shut, process, current, results, handler,
                   monitor, left, close, closer, toEnd>>

\* A closed queue refuses the task, and the caller gets a ChildProcessError.
PutTask(t) ==
    LET w == WorkerOf[t]
    IN  /\ future[t] = "registered"
        /\ IF w \in shut
           THEN /\ SetFuture(t, "refused")
                /\ tasks' = tasks \ {t}
                /\ UNCHANGED taskQueue
           ELSE /\ SetFuture(t, "pending")
                /\ taskQueue' = [taskQueue EXCEPT ![w] = Append(@, t)]
                /\ UNCHANGED tasks
        /\ UNCHANGED <<shut, process, current, results, handler, monitor,
                       left, close, closer, toEnd>>

-----------------------------------------------------------------------------
(* Worker processes: _run_worker_process. *)

TakeTask(w) ==
    /\ Up(w)
    /\ current[w] = <<>>
    /\ taskQueue[w] # <<>>
    /\ taskQueue' = [taskQueue EXCEPT ![w] = Tail(@)]
    /\ IF Head(taskQueue[w]) = Terminate
       THEN process' = [process EXCEPT ![w] = "exited"] /\ UNCHANGED current
       ELSE current' = [current EXCEPT ![w] = <<Head(taskQueue[w])>>] /\ UNCHANGED process
    /\ UNCHANGED <<future, tasks, shut, results, handler, monitor, left, close,
                   closer, toEnd>>

\* The method returns or raises; either way a result is sent.
FinishTask(w, outcome) ==
    /\ Up(w)
    /\ current[w] # <<>>
    /\ results' = Append(results, [task |-> Head(current[w]), value |-> outcome])
    /\ current' = [current EXCEPT ![w] = <<>>]
    /\ UNCHANGED <<future, tasks, taskQueue, shut, process, handler, monitor,
                   left, close, closer, toEnd>>

WorkerDies(w) ==
    /\ Up(w)
    /\ process' = [process EXCEPT ![w] = "died"]
    /\ current' = [current EXCEPT ![w] = <<>>]
    /\ UNCHANGED <<future, tasks, taskQueue, shut, results, handler, monitor,
                   left, close, closer, toEnd>>

-----------------------------------------------------------------------------
(* The result handler's thread. *)

BugHandleResult ==
    /\ handler.at = "serving"
    /\ results # <<>>
    /\ results' = Tail(results)
    /\ IF Head(results) = Terminate
       THEN /\ handler' = [at |-> "done", told |-> {}, size |-> Cardinality(tasks)]
            /\ UNCHANGED <<future, tasks>>
       ELSE /\ SetFuture(Head(results).task, Head(results).value)
            /\ tasks' = tasks \ {Head(results).task}
            /\ UNCHANGED handler
    /\ UNCHANGED <<taskQueue, shut, process, current, monitor, left, close,
                   closer, toEnd>>

HandleResult ==
    /\ handler.at = "serving"
    /\ results # <<>>
    /\ results' = Tail(results)
    /\ IF Head(results) = Terminate
       THEN /\ handler' = [at |-> "draining", told |-> {}, size |-> Cardinality(tasks)]
            /\ UNCHANGED <<future, tasks>>
       ELSE /\ SetFuture(Head(results).task, Head(results).value)
            /\ tasks' = tasks \ {Head(results).task}
            /\ UNCHANGED handler
    /\ UNCHANGED <<taskQueue, shut, process, current, monitor, left, close,
                   closer, toEnd>>

\* One turn of the loop over the tasks that are left.  Iterating a dictionary
\* raises RuntimeError if its size has changed.  A future that is set while
\* its task is being put is set all the same.
DrainTask ==
    /\ handler.at = "draining"
    /\ IF Cardinality(tasks) # handler.size
       THEN handler' = [handler EXCEPT !.at = "crashed"] /\ UNCHANGED future
       ELSE IF tasks \subseteq handler.told
       THEN handler' = [handler EXCEPT !.at = "done"] /\ UNCHANGED future
       ELSE \E t \in tasks \ handler.told :
              /\ handler' = [handler EXCEPT !.told = @ \cup {t}]
              /\ IF future[t] = "registered" THEN UNCHANGED future
                                            ELSE SetFuture(t, "died")
    /\ UNCHANGED <<tasks, taskQueue, shut, process, current, results,
                   monitor, left, close, closer, toEnd>>

-----------------------------------------------------------------------------
(* The worker monitor's thread, and close() called by another one. *)

BugNoticeExit ==
    /\ monitor = "watching"
    /\ \A w \in Workers : ~Up(w)
    /\ monitor' = IF close THEN "joining" ELSE "noticed"
    /\ UNCHANGED <<future, tasks, taskQueue, shut, process, current, results,
                   handler, left, close, closer, toEnd>>

\* wait() returns as soon as one process is gone.
NoticeExit ==
    /\ monitor = "watching"
    /\ \E w \in Workers : ~Up(w)
    /\ monitor' = IF close THEN "joining" ELSE "noticed"
    /\ UNCHANGED <<future, tasks, taskQueue, shut, process, current, results,
                   handler, left, close, closer, toEnd>>

BeginKilling ==
    /\ monitor = "noticed"
    /\ monitor' = "killing"
    /\ close' = TRUE
    /\ UNCHANGED <<future, tasks, taskQueue, shut, process, current, results,
                   handler, left, closer, toEnd>>

Gone(w, how) ==
    /\ process' = [process EXCEPT ![w] = IF Up(w) THEN how ELSE @]
    /\ current' = [current EXCEPT ![w] = <<>>]

BugKillWorker(w) ==
    /\ monitor = "killing"
    /\ w = left
    /\ left' = left + 1
    /\ Gone(w, "killed")
    /\ UNCHANGED <<future, tasks, taskQueue, shut, results, handler, monitor,
                   close, closer, toEnd>>

\* kill_worker
KillWorker(w) ==
    /\ monitor = "killing"
    /\ w = left
    /\ left' = left + 1
    /\ shut' = shut \cup {w}
    /\ Gone(w, "killed")
    /\ UNCHANGED <<future, tasks, taskQueue, results, handler, monitor, close,
                   closer, toEnd>>

\* The result handler is closed once all are killed.
EndKilling ==
    /\ monitor = "killing"
    /\ left > NumWorkers
    /\ monitor' = "joining"
    /\ results' = Append(results, Terminate)
    /\ UNCHANGED <<future, tasks, taskQueue, shut, process, current, handler,
                   left, close, closer, toEnd>>

\* Each process is joined for a limited time, gone or not.
EndMonitor ==
    /\ monitor = "joining"
    /\ monitor' = "gone"
    /\ UNCHANGED <<future, tasks, taskQueue, shut, process, current, results,
                   handler, left, close, closer, toEnd>>

CallClose ==
    /\ closer = "none"
    /\ closer' = IF close THEN "done" ELSE "closing"
    /\ UNCHANGED <<future, tasks, taskQueue, shut, process, current, results,
                   handler, monitor, left, close, toEnd>>

BeginClose ==
    /\ closer = "closing"
    /\ closer' = "terminating"
    /\ close' = TRUE
    /\ UNCHANGED <<future, tasks, taskQueue, shut, process, current, results,
                   handler, monitor, left, toEnd>>

\* terminate_worker: a worker whose queue is closed already is killed.
TerminateWorker(w) ==
    /\ closer = "terminating"
    /\ w = toEnd
    /\ toEnd' = toEnd + 1
    /\ shut' = shut \cup {w}
    /\ IF w \in shut
       THEN Gone(w, "killed") /\ UNCHANGED taskQueue
       ELSE /\ taskQueue' = [taskQueue EXCEPT ![w] = Append(@, Terminate)]
            /\ UNCHANGED <<process, current>>
    /\ UNCHANGED <<future, tasks, results, handler, monitor, left, close, closer>>

EndClose ==
    /\ closer = "terminating"
    /\ toEnd > NumWorkers
    /\ closer' = "done"
    /\ results' = Append(results, Terminate)
    /\ UNCHANGED <<future, tasks, taskQueue, shut, process, current, handler,
                   monitor, left, close, toEnd>>

-----------------------------------------------------------------------------

\* A step of the machinery: anything but submitting, closing and dying, and
\* ending a task of Endless, which has actions of its own.
WorkStep ==
    \/ \E w \in Workers : TakeTask(w)
    \/ \E w \in Workers, outcome \in {"value", "error"} :
         ToSet(current[w]) \cap Endless = {} /\ FinishTask(w, outcome)
    \/ HandleResult
    \/ DrainTask
    \/ NoticeExit
    \/ BeginKilling
    \/ \E w \in Workers : KillWorker(w)
    \/ EndKilling
    \/ EndMonitor
    \/ BeginClose
    \/ \E w \in Workers : TerminateWorker(w)
    \/ EndClose

\* Someone waits for the answer.
Waiting(t) == future[t] = "pending"

=============================================================================
