------------------------ MODULE DistributedExecutor ------------------------
(***************************************************************************)
(* The multiprocessing executor (src/vllm/executor/distributed_gpu_        *)
(* executor.py and multiproc_gpu_executor.py, not async) over the local    *)
(* workers.  The engine's thread calls it: a call of a method sends a task *)
(* to each worker in order and waits for them in order; the model executes *)
(* in a loop on the remote workers, which the driver feeds by broadcasts.  *)
(*                                                                         *)
(* External: a broadcast, like the collective operations of the model, is  *)
(* a meeting of the driver with all remote workers.  It fails when one of  *)
(* them is gone, and waits while one that lives does not come: whether and *)
(* when the library gives up such a wait is not modelled.                  *)
(***************************************************************************)
EXTENDS MultiprocWorkers

CONSTANTS
    KindOf,         \* of each call: a sequence of "loop" and "control"
    ControlAnytime, \* control calls may come while the loop runs
    SwapOnlySteps   \* a step may have no groups, only blocks to swap

Calls == DOMAIN KindOf

ASSUME ExecutorAssumption ==
    /\ KindOf \in Seq({"loop", "control"})
    /\ Tasks = Calls \X Workers
    /\ \A t \in Tasks : WorkerOf[t] = t[2]
    /\ Endless = {t \in Tasks : KindOf[t[1]] = "loop"}
    /\ {ControlAnytime, SwapOnlySteps} \subseteq BOOLEAN

VARIABLES
    at,         \* what the engine's thread does in the executor
    call,       \* the call under way
    next,       \* the worker that it has come to
    looping,    \* parallel_worker_tasks: the call of the loop, or 0
    leaving     \* workers told to leave the loop

vars == <<workerVars, at, call, next, looping, leaving>>

Init ==
    /\ WorkersInit
    /\ at = "free"
    /\ call = 0
    /\ next = 1
    /\ looping = 0
    /\ leaving = {}

\* The engine's thread may begin something: close() is a call of its own.
Free == at = "free" /\ closer \in {"none", "done"}

\* The worker is in the loop and takes part in the next meeting.
InLoop(w) == Up(w) /\ current[w] = <<<<looping, w>>>> /\ w \notin leaving

\* execute_model: start_worker_execution_loop is sent unless it runs.
ExecuteModel ==
    /\ Free
    /\ looping # 0
    /\ at' = "driving"
    /\ UNCHANGED <<workerVars, call, next, looping, leaving>>

BeginCall(k) ==
    /\ Free
    /\ \A w \in Workers : future[<<k, w>>] = "none"
    /\ looping = 0 \/ (KindOf[k] = "control" /\ ControlAnytime)
    /\ at' = "sending"
    /\ call' = k
    /\ next' = 1
    /\ UNCHANGED <<workerVars, looping, leaving>>

\* _run_workers: execute_method for one worker after the other.
SendTask ==
    /\ at = "sending"
    /\ RegisterTask(<<call, next>>)
    /\ at' = "putting"
    /\ UNCHANGED <<call, next, looping, leaving>>

\* A task that is refused ends the call with an exception.  After the last, the
\* driver executes the model, or the call waits for its futures.
SendPut ==
    LET done == next = NumWorkers
        loop == KindOf[call] = "loop"
    IN  /\ at = "putting"
        /\ PutTask(<<call, next>>)
        /\ at' = IF next \in shut THEN "free"
                 ELSE IF ~done THEN "sending"
                 ELSE IF loop THEN "driving" ELSE "waiting"
        /\ next' = IF done THEN 1 ELSE next + 1
        /\ looping' = IF next \notin shut /\ done /\ loop THEN call ELSE looping
        /\ UNCHANGED <<call, leaving>>

\* _driver_execute_model: a step of the model, with everyone in the loop.  The
\* workers leave the loop after a step without groups.
Drive ==
    /\ at = "driving"
    /\ \A w \in Workers : InLoop(w)
    /\ at' = "free"
    /\ leaving' \in IF SwapOnlySteps THEN {{}, Workers} ELSE {{}}
    /\ UNCHANGED <<workerVars, call, next, looping>>

\* stop_remote_worker_execution_loop: an empty broadcast, and the futures of
\* the loop are waited for.
StopLoop ==
    /\ Free
    /\ looping # 0
    /\ at' = "stopping"
    /\ UNCHANGED <<workerVars, call, next, looping, leaving>>

BugBroadcastStop ==
    /\ at = "stopping"
    /\ \A w \in Workers : InLoop(w)
    /\ at' = "waiting"
    /\ call' = looping
    /\ next' = 1
    /\ leaving' = Workers
    /\ UNCHANGED <<workerVars, looping>>

BroadcastStop ==
    /\ at = "stopping"
    /\ \A w \in Workers : InLoop(w)
    /\ at' = "waiting"
    /\ call' = looping
    /\ next' = 1
    /\ looping' = 0
    /\ leaving' = Workers
    /\ UNCHANGED workerVars

\* A meeting with a worker that is gone fails.
MeetingFails ==
    /\ at \in {"driving", "stopping"}
    /\ \E w \in Workers : ~Up(w)
    /\ at' = "free"
    /\ UNCHANGED <<workerVars, call, next, looping, leaving>>

\* The driver fails before it meets anyone.
DriverRaises ==
    /\ at = "driving"
    /\ at' = "free"
    /\ UNCHANGED <<workerVars, call, next, looping, leaving>>

\* The loop's method returns on a worker that was told to leave.
LeaveLoop(w) ==
    /\ w \in leaving
    /\ FinishTask(w, "value")
    /\ leaving' = leaving \ {w}
    /\ UNCHANGED <<at, call, next, looping>>

\* It may raise at any time, in a step or in the wait for the next one.  The
\* exception is sent like a result; the worker goes on, outside the loop.
LoopRaises(w) ==
    /\ ToSet(current[w]) \cap Endless # {}
    /\ FinishTask(w, "error")
    /\ leaving' = leaving \ {w}
    /\ UNCHANGED <<at, call, next, looping>>

BugGetResult ==
    LET value == future[<<call, next>>]
    IN  /\ at = "waiting"
        /\ value \in {"value", "error", "died"}
        /\ at' = IF value = "value" /\ next < NumWorkers THEN "waiting" ELSE "free"
        /\ next' = next + 1
        /\ UNCHANGED <<workerVars, call, looping, leaving>>

\* ResultFuture.get() for one worker after the other; an exception is raised.
GetResult ==
    LET value == future[<<call, next>>]
    IN  /\ at = "waiting"
        /\ value \in {"value", "error", "died"}
        /\ at' = IF value = "value" /\ next < NumWorkers THEN "waiting" ELSE "free"
        /\ next' = IF value = "value" /\ next < NumWorkers THEN next + 1 ELSE 1
        /\ UNCHANGED <<workerVars, call, looping, leaving>>

Shutdown ==
    /\ Free
    /\ CallClose
    /\ UNCHANGED <<at, call, next, looping, leaving>>

EngineStep ==
    \/ SendTask
    \/ SendPut
    \/ Drive
    \/ BroadcastStop
    \/ MeetingFails
    \/ GetResult

executorVars == <<at, call, next, looping, leaving>>

Next ==
    \/ ExecuteModel
    \/ \E k \in Calls : BeginCall(k)
    \/ EngineStep
    \/ StopLoop
    \/ DriverRaises
    \/ \E w \in Workers : LeaveLoop(w)
    \/ \E w \in Workers : LoopRaises(w)
    \/ Shutdown
    \/ (\E w \in Workers : WorkerDies(w)) /\ UNCHANGED executorVars
    \/ WorkStep /\ UNCHANGED executorVars

Spec == Init /\ [][Next]_vars

\* Threads and processes go on; nothing has to raise, die or be called.
FairSpec ==
    /\ Spec
    /\ WF_vars(EngineStep)
    /\ \A w \in Workers : WF_vars(LeaveLoop(w))
    /\ WF_vars(WorkStep /\ UNCHANGED executorVars)

-----------------------------------------------------------------------------
(* Properties. *)

\* Type of the state.
TypeOK ==
    /\ future \in [Tasks -> {"none", "registered", "pending", "refused",
                             "value", "error", "died"}]
    /\ tasks \subseteq Tasks
    /\ \A w \in Workers : ToSet(current[w]) \subseteq Tasks /\ Len(current[w]) <= 1
    /\ process \in [Workers -> {"up", "exited", "died", "killed"}]
    /\ handler.at \in {"serving", "draining", "done", "crashed"}
    /\ at \in {"free", "sending", "putting", "driving", "stopping", "waiting"}
    /\ next \in Workers /\ call \in 0 .. Len(KindOf) /\ looping \in 0 .. Len(KindOf)

\* A task that is submitted and not answered is in the hands of someone who
\* will answer it: once the handler has told everyone that was left, no other
\* task gets past the closed queues.
NoneForgotten ==
    handler.at = "done" => \A t \in Tasks : ~Waiting(t)

\* The result of a task is delivered, or on its way.
Ended(t, outcome) ==
    future[t] = outcome \/ [task |-> t, value |-> outcome] \in ToSet(results)

\* The loop of call k has ended on worker w by itself: its method raised, or
\* returned after a step without groups.
LeftLoop(k, w) ==
    \/ Ended(<<k, w>>, "error")
    \/ SwapOnlySteps /\ Ended(<<k, w>>, "value")

\* When the driver broadcasts, each worker that lives is in the loop or will
\* come to it, nothing else standing before the loop's task in its queue
\* (_start_worker_execution_loop: "It guarantees all workers run the loop or
\* None of them is running the loop") -- or the loop has ended on it by an
\* exception or a step without groups.  No worker is out of it for any other
\* reason, such as having been told to stop or never having been told to start.
LoopReached ==
    at \in {"driving", "stopping"} =>
      \A w \in Workers :
        LET ahead == current[w] \o taskQueue[w]
        IN  Up(w) /\ w \notin shut =>
              \/ LeftLoop(looping, w)
              \/ \E i \in DOMAIN ahead :
                   /\ ahead[i] = <<looping, w>>
                   /\ \A j \in 1 .. i - 1 :
                        KindOf[ahead[j][1]] = "control" \/ w \in leaving

\* A call of the engine's thread returns: the worker whose answer it waits for
\* answers, or it gets the exception of one that died.  The one wait without end
\* is a broadcast to a worker that lives and on which the loop has ended while
\* parallel_worker_tasks says that it runs.
Deserted ==
    at \in {"driving", "stopping"} /\ \E w \in Workers : Up(w) /\ LeftLoop(looping, w)

EngineReturns == at # "free" ~> at = "free" \/ Deserted

\* When one worker is gone the others go as well and the health check fails.
\* (Unless they are in the loop when close() ends them in good order.)
EveryoneLeaves ==
    (\E w \in Workers : ~Up(w)) ~>
      /\ monitor = "gone"
      /\ \A w \in Workers : Up(w) => closer = "done" /\ ToSet(current[w]) \cap Endless # {}

-----------------------------------------------------------------------------
(* What a comment of the code says and some execution of it contradicts. *)

\* distributed_gpu_executor.py, on parallel_worker_tasks: "This is non-None when
\* the execute model loop is running in the parallel workers."  When it is, no
\* worker has returned from the loop.
TasksMeanLoop ==
    looping # 0 => \A w \in Workers : future[<<looping, w>>] # "value"
=============================================================================
