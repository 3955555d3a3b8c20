--------------------- MODULE DistributedExecutor_proofs ---------------------
(***************************************************************************)
(* Nobody waits for ever once the result handler has ended: for every      *)
(* number of workers and calls, wherever workers die.                      *)
(***************************************************************************)
EXTENDS DistributedExecutor, TLAPS

Futures == {"none", "registered", "pending", "refused", "value", "error", "died"}

\* Types of what the argument looks at.
WorkersType ==
    /\ future \in [Tasks -> Futures]
    /\ taskQueue \in [Workers -> Seq(Tasks \cup {Terminate})]
    /\ current \in [Workers -> Seq(Tasks)]
    /\ results \in Seq(Results \cup {Terminate})
    /\ handler = [at |-> handler.at, told |-> handler.told, size |-> handler.size]
    /\ left \in Nat /\ toEnd \in Nat

AllShut == Workers \subseteq shut

\* kill_worker and terminate_worker close the queues one after the other.
ShutInOrder ==
    \A w \in Workers : w < left \/ w < toEnd => w \in shut

\* The sentinel is sent once all queues are closed, and ends the handler's loop.
SentinelIsLast ==
    /\ Terminate \in Range(results) => AllShut
    /\ handler.at # "serving" => AllShut

\* Whoever waits, or will, is in the handler's table, and the loop over it, once it has
\* told a task, leaves it told.
WaitersKnown ==
    /\ \A t \in Tasks : future[t] = "registered" \/ Waiting(t) => t \in tasks
    /\ handler.at = "serving" => handler.told = {}
    /\ \A t \in handler.told \cap Tasks : ~Waiting(t)

CallKnown == at \in {"sending", "putting"} => call \in Calls /\ next \in Workers

\* NoneForgotten needs that no task gets past a closed queue after the loop has
\* passed it, and so that the queues are closed before the sentinel is sent.
IInv ==
    /\ WorkersType
    /\ ShutInOrder
    /\ SentinelIsLast
    /\ WaitersKnown
    /\ CallKnown
    /\ NoneForgotten

\* What the properties of the workers depend on.
handVars == <<future, tasks, taskQueue, shut, current, results, handler, left, toEnd>>

WInv == WorkersType /\ ShutInOrder /\ SentinelIsLast /\ WaitersKnown /\ NoneForgotten

\* Elements of a sequence after Append and Tail.
LEMMA SequenceRanges ==
    ASSUME NEW S, NEW s \in Seq(S), NEW e \in S
    PROVE  /\ Append(s, e) \in Seq(S)
           /\ \A x \in Range(Append(s, e)) : x \in Range(s) \/ x = e
           /\ <<e>> \in Seq(S)
           /\ s # <<>> => /\ Tail(s) \in Seq(S) /\ Head(s) \in S
                          /\ Head(s) \in Range(s)
                          /\ Range(Tail(s)) \subseteq Range(s)
<1>1. \A x \in Range(Append(s, e)) : x \in Range(s) \/ x = e
  BY DEF Range
<1>2. s # <<>> => Head(s) \in Range(s) /\ Range(Tail(s)) \subseteq Range(s)
  BY DEF Range
<1> QED BY <1>1, <1>2

\* The invariant holds at the start.
LEMMA InitInv == Init => IInv
  BY WorkersAssumption DEF Init, WorkersInit, IInv, WorkersType, ShutInOrder, SentinelIsLast,
     WaitersKnown, CallKnown, NoneForgotten, Waiting, AllShut, Workers, Range, Futures

\* Steps outside the machinery keep its invariant.
LEMMA Unchanged ==
    ASSUME WInv, UNCHANGED handVars
    PROVE  WInv'
  BY DEF WInv, handVars, WorkersType, ShutInOrder, SentinelIsLast, AllShut, WaitersKnown,
     NoneForgotten, Waiting

\* Making a future for a task keeps the invariant.
LEMMA RegisterTaskInv ==
    ASSUME WInv, NEW t \in Tasks, RegisterTask(t)
    PROVE  WInv'
  BY DEF WInv, RegisterTask, SetFuture, WorkersType, Futures, ShutInOrder, SentinelIsLast,
     AllShut, WaitersKnown, NoneForgotten, Waiting

\* A task that the handler has told, or that it will not tell, is refused.
LEMMA PutTaskInv ==
    ASSUME WInv, NEW t \in Tasks, PutTask(t)
    PROVE  WInv'
<1> DEFINE w == WorkerOf[t]
<1>1. w \in Workers
  BY WorkersAssumption
<1>2. handler.at # "serving" => w \in shut
  BY <1>1 DEF WInv, SentinelIsLast, AllShut
<1>3. CASE w \in shut
  BY <1>3 DEF WInv, PutTask, SetFuture, WorkersType, Futures, ShutInOrder, SentinelIsLast,
     AllShut, WaitersKnown, NoneForgotten, Waiting
<1>4. CASE w \notin shut
  <2>1. handler.at = "serving"
    BY <1>2, <1>4
  <2>2. WorkersType'
    <3>1. future' \in [Tasks -> Futures]
      BY <1>4 DEF WInv, PutTask, SetFuture, WorkersType, Futures
    <3>2. taskQueue' \in [Workers -> Seq(Tasks \cup {Terminate})]
      <4>1. taskQueue' = [taskQueue EXCEPT ![w] = Append(taskQueue[w], t)]
        BY <1>4 DEF PutTask
      <4>2. taskQueue \in [Workers -> Seq(Tasks \cup {Terminate})]
        BY DEF WInv, WorkersType
      <4>3. Append(taskQueue[w], t) \in Seq(Tasks \cup {Terminate})
        BY <1>1, <4>2, SequenceRanges
      <4> QED BY <4>1, <4>2, <4>3
    <3> QED BY <3>1, <3>2 DEF WInv, PutTask, WorkersType
  <2>3. WaitersKnown'
    <3>1. /\ future[t] = "registered"
          /\ future' = [future EXCEPT ![t] = "pending"]
          /\ UNCHANGED <<tasks, handler>>
      BY <1>4 DEF PutTask, SetFuture
    <3> QED BY <2>1, <3>1 DEF WInv, WorkersType, WaitersKnown, Waiting
  <2> QED BY <1>4, <2>1, <2>2, <2>3
          DEF WInv, PutTask, ShutInOrder, SentinelIsLast, AllShut, NoneForgotten
<1> QED BY <1>3, <1>4

\* A worker that takes a task keeps the invariant.
LEMMA TakeTaskInv ==
    ASSUME WInv, NEW w \in Workers, TakeTask(w)
    PROVE  WInv'
<1>1. /\ Tail(taskQueue[w]) \in Seq(Tasks \cup {Terminate})
      /\ Head(taskQueue[w]) \in Tasks \cup {Terminate}
  BY SequenceRanges DEF WInv, TakeTask, WorkersType
<1>2. taskQueue' \in [Workers -> Seq(Tasks \cup {Terminate})]
  BY <1>1 DEF WInv, TakeTask, WorkersType
<1>3. current' \in [Workers -> Seq(Tasks)]
  <2>1. current \in [Workers -> Seq(Tasks)]
    BY DEF WInv, WorkersType
  <2>2. CASE Head(taskQueue[w]) = Terminate
    BY <2>1, <2>2 DEF TakeTask
  <2>3. CASE Head(taskQueue[w]) # Terminate
    <3>1. <<Head(taskQueue[w])>> \in Seq(Tasks)
      BY <1>1, <2>3
    <3>2. current' = [current EXCEPT ![w] = <<Head(taskQueue[w])>>]
      BY <2>3 DEF TakeTask
    <3> QED BY <2>1, <3>1, <3>2
  <2> QED BY <2>2, <2>3
<1>4. WorkersType'
  BY <1>2, <1>3 DEF WInv, TakeTask, WorkersType
<1> QED BY <1>4 DEF WInv, TakeTask, ShutInOrder, SentinelIsLast, AllShut, WaitersKnown,
                NoneForgotten, Waiting

\* A result is not the sentinel.
LEMMA FinishTaskInv ==
    ASSUME WInv, NEW w \in Workers, NEW outcome \in {"value", "error"}, FinishTask(w, outcome)
    PROVE  WInv'
<1> DEFINE r == [task |-> Head(current[w]), value |-> outcome]
<1>1. Head(current[w]) \in Tasks
  BY SequenceRanges DEF WInv, FinishTask, WorkersType
<1>2. r \in Results /\ r # Terminate
  BY <1>1, WorkersAssumption DEF Results
<1>3. results' = Append(results, r)
  BY DEF FinishTask
<1>4. /\ results' \in Seq(Results \cup {Terminate})
      /\ Terminate \in Range(results') => Terminate \in Range(results)
  <2>1. results \in Seq(Results \cup {Terminate})
    BY DEF WInv, WorkersType
  <2>2. r \in Results \cup {Terminate}
    BY <1>2
  <2> HIDE DEF r
  <2> QED BY <1>2, <1>3, <2>1, <2>2, SequenceRanges
<1>5. current' \in [Workers -> Seq(Tasks)]
  BY DEF WInv, FinishTask, WorkersType
<1>6. WorkersType'
  BY <1>4, <1>5 DEF WInv, FinishTask, WorkersType
<1> QED BY <1>4, <1>6 DEF WInv, FinishTask, ShutInOrder, SentinelIsLast, AllShut,
                WaitersKnown, NoneForgotten, Waiting

\* The result handler keeps the invariant.
LEMMA HandleResultInv ==
    ASSUME WInv, HandleResult
    PROVE  WInv'
<1> DEFINE r == Head(results)
<1>1. /\ results' \in Seq(Results \cup {Terminate})
      /\ r \in Results \cup {Terminate}
      /\ r \in Range(results)
      /\ Range(results') \subseteq Range(results)
  BY SequenceRanges DEF WInv, HandleResult, WorkersType
<1>2. CASE r = Terminate
  <2>1. AllShut
    BY <1>1, <1>2 DEF WInv, SentinelIsLast
  <2>2. /\ handler' = [at |-> "draining", told |-> {}, size |-> Cardinality(tasks)]
        /\ UNCHANGED <<future, tasks>>
    BY <1>2 DEF HandleResult
  <2>3. WorkersType'
    BY <1>1, <2>2 DEF WInv, HandleResult, WorkersType
  <2> QED BY <1>1, <2>1, <2>2, <2>3
          DEF WInv, HandleResult, ShutInOrder, SentinelIsLast, AllShut, WaitersKnown,
              NoneForgotten, Waiting
<1>3. CASE r # Terminate
  <2>1. r.task \in Tasks /\ r.value \in {"value", "error"}
    BY <1>1, <1>3 DEF Results
  <2>2. /\ SetFuture(r.task, r.value)
        /\ tasks' = tasks \ {r.task}
        /\ UNCHANGED handler
    BY <1>3 DEF HandleResult
  <2>3. WorkersType'
    BY <1>1, <2>1, <2>2 DEF WInv, HandleResult, WorkersType, SetFuture, Futures
  <2>4. WaitersKnown'
    BY <2>1, <2>2 DEF WInv, WorkersType, SetFuture, WaitersKnown, Waiting
  <2> QED BY <1>1, <2>2, <2>3, <2>4
          DEF WInv, HandleResult, ShutInOrder, SentinelIsLast, AllShut, NoneForgotten
<1> QED BY <1>2, <1>3

\* The loop ends when it has told all, and who waits is in its table.
LEMMA DrainTaskInv ==
    ASSUME WInv, DrainTask
    PROVE  WInv'
<1>1. handler.at = "draining" /\ AllShut
  BY DEF WInv, DrainTask, SentinelIsLast
<1>2. CASE Cardinality(tasks) # handler.size
  BY <1>1, <1>2 DEF WInv, DrainTask, WorkersType, ShutInOrder, SentinelIsLast, AllShut,
     WaitersKnown, NoneForgotten, Waiting
<1>3. CASE Cardinality(tasks) = handler.size /\ tasks \subseteq handler.told
  BY <1>1, <1>3 DEF WInv, DrainTask, WorkersType, ShutInOrder, SentinelIsLast, AllShut,
     WaitersKnown, NoneForgotten, Waiting
<1>4. CASE Cardinality(tasks) = handler.size /\ ~(tasks \subseteq handler.told)
  <2>1. PICK t \in tasks \ handler.told :
          /\ handler' = [handler EXCEPT !.told = @ \cup {t}]
          /\ IF future[t] = "registered" THEN UNCHANGED future ELSE SetFuture(t, "died")
    BY <1>4 DEF DrainTask
  <2>2. WorkersType' /\ handler'.at = "draining"
    BY <1>1, <2>1 DEF WInv, DrainTask, WorkersType, SetFuture, Futures
  <2>3. WaitersKnown'
    BY <1>1, <2>1 DEF WInv, DrainTask, WorkersType, SetFuture, WaitersKnown, Waiting
  <2> QED BY <1>1, <2>2, <2>3
          DEF WInv, DrainTask, ShutInOrder, SentinelIsLast, AllShut, NoneForgotten
<1> QED BY <1>2, <1>3, <1>4

\* Killing a worker keeps the invariant.
LEMMA KillWorkerInv ==
    ASSUME WInv, NEW w \in Workers, KillWorker(w)
    PROVE  WInv'
<1>1. current' \in [Workers -> Seq(Tasks)]
  BY DEF WInv, KillWorker, Gone, WorkersType
<1>2. WorkersType'
  BY <1>1 DEF WInv, KillWorker, WorkersType
<1>3. ShutInOrder'
  BY WorkersAssumption DEF WInv, KillWorker, WorkersType, ShutInOrder, Workers
<1> QED BY <1>2, <1>3 DEF WInv, KillWorker, SentinelIsLast, AllShut, WaitersKnown,
                NoneForgotten, Waiting

\* Asking a worker to end keeps the invariant.
LEMMA TerminateWorkerInv ==
    ASSUME WInv, NEW w \in Workers, TerminateWorker(w)
    PROVE  WInv'
<1> DEFINE Q == Seq(Tasks \cup {Terminate})
<1>1. /\ taskQueue \in [Workers -> Q]
      /\ current \in [Workers -> Seq(Tasks)]
  BY DEF WInv, WorkersType
<1>2. /\ current' \in [Workers -> Seq(Tasks)]
      /\ taskQueue' \in [Workers -> Q]
  <2>1. CASE w \in shut
    <3>1. current' = [current EXCEPT ![w] = <<>>] /\ UNCHANGED taskQueue
      BY <2>1 DEF TerminateWorker, Gone
    <3>2. <<>> \in Seq(Tasks)
      OBVIOUS
    <3> QED BY <1>1, <3>1, <3>2
  <2>2. CASE w \notin shut
    <3>1. Append(taskQueue[w], Terminate) \in Q
      BY <1>1, SequenceRanges
    <3>2. /\ taskQueue' = [taskQueue EXCEPT ![w] = Append(taskQueue[w], Terminate)]
          /\ UNCHANGED current
      BY <2>2 DEF TerminateWorker
    <3> QED BY <1>1, <3>1, <3>2
  <2> QED BY <2>1, <2>2
<1>3. WorkersType'
  BY <1>2 DEF WInv, TerminateWorker, WorkersType
<1>4. ShutInOrder'
  <2>1. w = toEnd /\ toEnd' = toEnd + 1 /\ shut' = shut \cup {w} /\ left' = left
    BY DEF TerminateWorker
  <2>2. left \in Nat /\ toEnd \in Nat /\ ShutInOrder
    BY DEF WInv, WorkersType
  <2> QED BY <2>1, <2>2, WorkersAssumption DEF ShutInOrder, Workers
<1> QED BY <1>3, <1>4 DEF WInv, TerminateWorker, SentinelIsLast, AllShut, WaitersKnown,
                NoneForgotten, Waiting

\* The sentinel is put into the result queue.
LEMMA SentinelInv ==
    ASSUME WInv, AllShut, results' = Append(results, Terminate),
           UNCHANGED <<future, tasks, taskQueue, shut, current, handler, left, toEnd>>
    PROVE  WInv'
<1>1. results' \in Seq(Results \cup {Terminate})
  BY SequenceRanges DEF WInv, WorkersType
<1> QED BY <1>1 DEF WInv, WorkersType, ShutInOrder, SentinelIsLast, AllShut,
                WaitersKnown, NoneForgotten, Waiting

\* The end of the monitor's kills keeps the invariant.
LEMMA EndKillingInv ==
    ASSUME WInv, EndKilling
    PROVE  WInv'
<1>1. AllShut
  BY WorkersAssumption DEF WInv, EndKilling, AllShut, ShutInOrder, Workers, WorkersType
<1> QED BY <1>1, SentinelInv DEF EndKilling

\* The end of close() keeps the invariant.
LEMMA EndCloseInv ==
    ASSUME WInv, EndClose
    PROVE  WInv'
<1>1. AllShut
  BY WorkersAssumption DEF WInv, EndClose, AllShut, ShutInOrder, Workers, WorkersType
<1> QED BY <1>1, SentinelInv DEF EndClose

\* The death of a worker keeps the invariant.
LEMMA WorkerDiesInv ==
    ASSUME WInv, NEW w \in Workers, WorkerDies(w)
    PROVE  WInv'
<1>1. current' \in [Workers -> Seq(Tasks)]
  BY DEF WInv, WorkerDies, WorkersType
<1> QED BY <1>1 DEF WInv, WorkerDies, WorkersType, ShutInOrder, SentinelIsLast, AllShut,
                WaitersKnown, NoneForgotten, Waiting

\* Every step of the machinery keeps the invariant.
LEMMA WorkStepInv ==
    ASSUME WInv, WorkStep
    PROVE  WInv'
<1>1. CASE NoticeExit \/ BeginKilling \/ EndMonitor \/ BeginClose
  BY <1>1, Unchanged DEF NoticeExit, BeginKilling, EndMonitor, BeginClose, handVars
<1>2. CASE \E w \in Workers : KillWorker(w) \/ TerminateWorker(w)
  BY <1>2, KillWorkerInv, TerminateWorkerInv
<1>3. CASE \E w \in Workers : TakeTask(w)
  BY <1>3, TakeTaskInv
<1>4. CASE \E w \in Workers, outcome \in {"value", "error"} : FinishTask(w, outcome)
  BY <1>4, FinishTaskInv
<1> QED BY <1>1, <1>2, <1>3, <1>4, HandleResultInv, DrainTaskInv, EndKillingInv, EndCloseInv
        DEF WorkStep

\* Every step keeps the invariant.
LEMMA StepInv ==
    ASSUME IInv, [Next]_vars
    PROVE  IInv'
<1> USE DEF CallKnown
<1>1. WInv /\ CallKnown
  BY DEF IInv, WInv
<1>2. SUFFICES WInv' /\ CallKnown'
  BY DEF IInv, WInv
<1>3. ASSUME UNCHANGED workerVars
      PROVE  WInv'
  BY <1>1, <1>3, Unchanged DEF workerVars, handVars
<1>4. ASSUME at \in {"sending", "putting"}
      PROVE  /\ <<call, next>> \in Tasks
             /\ WorkerOf[<<call, next>>] = next
  BY <1>1, <1>4, ExecutorAssumption
<1>5. CASE ExecuteModel
  BY <1>1, <1>3, <1>5 DEF ExecuteModel
<1>6. ASSUME NEW k \in Calls, BeginCall(k)
      PROVE  WInv' /\ CallKnown'
  BY <1>3, <1>6, WorkersAssumption DEF BeginCall, Workers
<1>7. CASE SendTask
  <2>1. WInv'
    BY <1>1, <1>4, <1>7, RegisterTaskInv DEF SendTask
  <2> QED BY <1>1, <1>7, <2>1 DEF SendTask
<1>8. CASE SendPut
  <2>1. WInv'
    BY <1>1, <1>4, <1>8, PutTaskInv DEF SendPut
  <2>2. CallKnown'
    BY <1>1, <1>8, WorkersAssumption DEF SendPut, Workers
  <2> QED BY <2>1, <2>2
<1>9. CASE Drive
  BY <1>3, <1>9 DEF Drive
<1>10. CASE BroadcastStop
  BY <1>3, <1>10 DEF BroadcastStop
<1>11. CASE MeetingFails
  BY <1>3, <1>11 DEF MeetingFails
<1>12. CASE GetResult
  BY <1>3, <1>12 DEF GetResult
<1>13. CASE StopLoop
  BY <1>3, <1>13 DEF StopLoop
<1>14. ASSUME NEW w \in Workers, LeaveLoop(w)
       PROVE  WInv' /\ CallKnown'
  BY <1>1, <1>14, FinishTaskInv DEF LeaveLoop
<1>19. ASSUME NEW w \in Workers, LoopRaises(w)
       PROVE  WInv' /\ CallKnown'
  BY <1>1, <1>19, FinishTaskInv DEF LoopRaises
<1>20. CASE DriverRaises
  BY <1>3, <1>20 DEF DriverRaises
<1>15. CASE Shutdown
  <2>1. WInv'
    BY <1>1, <1>15, Unchanged DEF Shutdown, CallClose, handVars
  <2> QED BY <1>1, <1>15, <2>1 DEF Shutdown
<1>16. CASE (\E w \in Workers : WorkerDies(w)) /\ UNCHANGED executorVars
  BY <1>1, <1>16, WorkerDiesInv DEF executorVars
<1>17. CASE WorkStep /\ UNCHANGED executorVars
  BY <1>1, <1>17, WorkStepInv DEF executorVars
<1>18. CASE UNCHANGED vars
  BY <1>1, <1>3, <1>18 DEF vars
<1> QED BY <1>5, <1>6, <1>7, <1>8, <1>9, <1>10, <1>11, <1>12, <1>13, <1>14, <1>15, <1>16,
           <1>17, <1>18, <1>19, <1>20 DEF Next, EngineStep

\* No task that was submitted is left without an answer once the result handler
\* has told everyone it knew of, for any number of workers and calls.
THEOREM NobodyForgotten == Spec => []NoneForgotten
<1>1. IInv /\ [Next]_vars => IInv'
  BY StepInv
<1>2. IInv => NoneForgotten
  BY DEF IInv
<1> QED BY InitInv, <1>1, <1>2, PTL DEF Spec

-----------------------------------------------------------------------------
(* Types, and the model's loop: when the driver meets the remote workers,  *)
(* each one that lives is in the loop or comes to it.                      *)

Processes == {"up", "exited", "died", "killed"}
Handlings == {"serving", "draining", "done", "crashed"}
Places == {"free", "sending", "putting", "driving", "stopping", "waiting"}

\* What TypeOK says of the workers beyond WorkersType.
HandTypes ==
    /\ tasks \subseteq Tasks
    /\ \A w \in Workers : Len(current[w]) <= 1
    /\ process \in [Workers -> Processes]
    /\ handler.at \in Handlings

CallTypes ==
    /\ at \in Places
    /\ next \in Workers
    /\ call \in 0 .. Len(KindOf)
    /\ looping \in 0 .. Len(KindOf)

\* The types, in the parts that the proofs take one by one.
LEMMA TypeParts ==
    ASSUME WorkersType
    PROVE  TypeOK <=> HandTypes /\ CallTypes
<1>1. \A w \in Workers : current[w] \in Seq(Tasks)
  BY DEF WorkersType
<1>2. \A w \in Workers : ToSet(current[w]) \subseteq Tasks
  BY <1>1 DEF ToSet
<1> QED BY <1>2 DEF TypeOK, HandTypes, CallTypes, WorkersType, Futures, Processes, Handlings,
           Places

\* The types hold at the start.
LEMMA InitTypes == Init => HandTypes /\ CallTypes
  BY WorkersAssumption, ExecutorAssumption
     DEF Init, WorkersInit, HandTypes, CallTypes, Workers, Processes, Handlings, Places

\* One step of a worker or of a thread of the machinery.
LEMMA WorkTypes ==
    ASSUME WorkersType, HandTypes, WorkStep \/ \E w \in Workers : WorkerDies(w)
    PROVE  HandTypes'
<1>1. ASSUME NEW w \in Workers, TakeTask(w)
      PROVE  HandTypes'
  <2>1. CASE Head(taskQueue[w]) = Terminate
    BY <1>1, <2>1 DEF TakeTask, HandTypes, Processes
  <2>2. CASE Head(taskQueue[w]) # Terminate
    <3>1. current' = [current EXCEPT ![w] = <<Head(taskQueue[w])>>]
      BY <1>1, <2>2 DEF TakeTask
    <3>2. Len(<<Head(taskQueue[w])>>) = 1
      OBVIOUS
    <3>3. \A v \in Workers : Len(current'[v]) <= 1
      BY <3>1, <3>2 DEF HandTypes, WorkersType
    <3> QED BY <1>1, <2>2, <3>3 DEF TakeTask, HandTypes
  <2> QED BY <2>1, <2>2
<1>2. ASSUME NEW w \in Workers, NEW outcome \in {"value", "error"}, FinishTask(w, outcome)
      PROVE  HandTypes'
  BY <1>2 DEF FinishTask, HandTypes, WorkersType
<1>3. CASE HandleResult
  BY <1>3 DEF HandleResult, HandTypes, Handlings
<1>4. CASE DrainTask
  <2>1. handler'.at \in Handlings
    BY <1>4 DEF DrainTask, HandTypes, WorkersType, Handlings
  <2> QED BY <1>4, <2>1 DEF DrainTask, HandTypes
<1>5. ASSUME NEW w \in Workers, KillWorker(w)
      PROVE  HandTypes'
  BY <1>5 DEF KillWorker, Gone, HandTypes, WorkersType, Processes
<1>6. ASSUME NEW w \in Workers, TerminateWorker(w)
      PROVE  HandTypes'
  <2>1. CASE w \in shut
    <3>1. Gone(w, "killed") /\ UNCHANGED <<tasks, handler>>
      BY <1>6, <2>1 DEF TerminateWorker
    <3> QED BY <3>1 DEF Gone, HandTypes, WorkersType, Processes
  <2>2. CASE w \notin shut
    BY <1>6, <2>2 DEF TerminateWorker, HandTypes
  <2> QED BY <2>1, <2>2
<1>7. ASSUME NEW w \in Workers, WorkerDies(w)
      PROVE  HandTypes'
  BY <1>7 DEF WorkerDies, HandTypes, WorkersType, Processes
<1>8. CASE NoticeExit \/ BeginKilling \/ EndKilling \/ EndMonitor \/ BeginClose \/ EndClose
  BY <1>8 DEF NoticeExit, BeginKilling, EndKilling, EndMonitor, BeginClose, EndClose, HandTypes
<1> QED BY <1>1, <1>2, <1>3, <1>4, <1>5, <1>6, <1>7, <1>8 DEF WorkStep

\* Every step keeps the types.
LEMMA StepTypes ==
    ASSUME IInv, HandTypes, CallTypes, [Next]_vars
    PROVE  HandTypes' /\ CallTypes'
<1>1. WorkersType /\ (at \in {"sending", "putting"} => <<call, next>> \in Tasks)
  BY ExecutorAssumption DEF IInv, CallKnown
<1>2. ASSUME UNCHANGED workerVars
      PROVE  HandTypes'
  BY <1>2 DEF workerVars, HandTypes
<1>3. CASE ExecuteModel \/ StopLoop \/ Drive \/ MeetingFails \/ DriverRaises
  BY <1>2, <1>3
     DEF ExecuteModel, StopLoop, Drive, MeetingFails, DriverRaises, CallTypes, Places
<1>4. ASSUME NEW k \in Calls, BeginCall(k)
      PROVE  HandTypes' /\ CallTypes'
  BY <1>2, <1>4, WorkersAssumption, ExecutorAssumption
     DEF BeginCall, Calls, CallTypes, Places, Workers
<1>5. CASE SendTask
  BY <1>1, <1>5 DEF SendTask, RegisterTask, HandTypes, CallTypes, Places
<1>6. CASE SendPut
  <2>1. next' \in Workers
    BY <1>6, WorkersAssumption DEF SendPut, CallTypes, Workers
  <2>2. looping' \in 0 .. Len(KindOf) /\ at' \in Places /\ call' = call
    BY <1>6 DEF SendPut, CallTypes, Places
  <2> QED BY <1>6, <2>1, <2>2 DEF SendPut, PutTask, HandTypes, CallTypes
<1>7. CASE BroadcastStop
  BY <1>2, <1>7, WorkersAssumption, ExecutorAssumption
     DEF BroadcastStop, CallTypes, Places, Workers
<1>8. CASE GetResult
  BY <1>2, <1>8, WorkersAssumption DEF GetResult, CallTypes, Places, Workers
<1>9. ASSUME NEW w \in Workers, LeaveLoop(w) \/ LoopRaises(w)
      PROVE  HandTypes' /\ CallTypes'
  <2>1. UNCHANGED <<tasks, process, handler, at, call, next, looping>>
    BY <1>9 DEF LeaveLoop, LoopRaises, FinishTask
  <2>2. current' = [current EXCEPT ![w] = <<>>]
    BY <1>9 DEF LeaveLoop, LoopRaises, FinishTask
  <2>3. \A v \in Workers : Len(current'[v]) <= 1
    BY <1>1, <2>2 DEF HandTypes, WorkersType
  <2> QED BY <2>1, <2>3 DEF HandTypes, CallTypes
<1>10. CASE Shutdown
  BY <1>10 DEF Shutdown, CallClose, HandTypes, CallTypes
<1>11. CASE ((\E w \in Workers : WorkerDies(w)) \/ WorkStep) /\ UNCHANGED executorVars
  BY <1>1, <1>11, WorkTypes DEF executorVars, CallTypes
<1>12. CASE UNCHANGED vars
  BY <1>2, <1>12 DEF vars, CallTypes
<1> QED BY <1>3, <1>4, <1>5, <1>6, <1>7, <1>8, <1>9, <1>10, <1>11, <1>12 DEF Next, EngineStep

\* The executor's state keeps its types, whatever dies and in whatever order.
THEOREM TypesKept == Spec => []TypeOK
<1> DEFINE T == IInv /\ HandTypes /\ CallTypes
<1>1. Init => T
  BY InitInv, InitTypes
<1>2. T /\ [Next]_vars => T'
  BY StepInv, StepTypes
<1>3. T => TypeOK
  BY TypeParts DEF IInv
<1> QED BY <1>1, <1>2, <1>3, PTL DEF Spec

-----------------------------------------------------------------------------
(* What waits in a queue. *)

IsControl(t) == t \in Tasks /\ KindOf[t[1]] = "control"
IsLoop(t) == t \in Tasks /\ KindOf[t[1]] = "loop"

ControlOnly(s) == \A i \in DOMAIN s : IsControl(s[i])

\* One task t, all else are control tasks.
OneLoopIn(s, t) ==
    \E i \in DOMAIN s : s[i] = t /\ \A j \in DOMAIN s \ {i} : IsControl(s[j])

\* A task leads to the model's loop or to a control call, and to one of them only.
LEMMA Kinds ==
    ASSUME NEW t \in Tasks
    PROVE  /\ t = <<t[1], t[2]>> /\ t[1] \in Calls /\ t[2] \in Workers
           /\ IsLoop(t) \/ IsControl(t)
           /\ ~(IsLoop(t) /\ IsControl(t))
           /\ IsLoop(t) <=> t \in Endless
  BY ExecutorAssumption DEF Calls, IsLoop, IsControl

\* What a worker's queue holds after its head is taken.
LEMMA TakenFromQueue ==
    ASSUME NEW S, NEW s \in Seq(S), s # <<>>
    PROVE  /\ ControlOnly(s) => IsControl(Head(s)) /\ ControlOnly(Tail(s))
           /\ \A t : OneLoopIn(s, t) =>
                \/ Head(s) = t /\ ControlOnly(Tail(s))
                \/ IsControl(Head(s)) /\ OneLoopIn(Tail(s), t)
<1> DEFINE r == Tail(s)
<1>1. /\ r \in Seq(S) /\ Len(r) = Len(s) - 1
      /\ Head(s) = s[1] /\ 1 \in DOMAIN s
      /\ \A i \in DOMAIN r : i + 1 \in DOMAIN s /\ i + 1 # 1 /\ r[i] = s[i + 1]
      /\ \A i \in DOMAIN s : i # 1 => i - 1 \in DOMAIN r /\ r[i - 1] = s[i]
  OBVIOUS
<1> HIDE DEF r
<1>2. ControlOnly(s) => IsControl(Head(s)) /\ ControlOnly(r)
  BY <1>1 DEF ControlOnly
<1>3. ASSUME NEW t, OneLoopIn(s, t)
      PROVE  \/ Head(s) = t /\ ControlOnly(r)
             \/ IsControl(Head(s)) /\ OneLoopIn(r, t)
  <2>1. PICK i \in DOMAIN s : s[i] = t /\ \A j \in DOMAIN s \ {i} : IsControl(s[j])
    BY <1>3 DEF OneLoopIn
  <2>2. CASE i = 1
    <3>1. \A j \in DOMAIN r : IsControl(r[j])
      BY <1>1, <2>1, <2>2
    <3> QED BY <1>1, <2>1, <2>2, <3>1 DEF ControlOnly
  <2>3. CASE i # 1
    <3>1. i - 1 \in DOMAIN r /\ r[i - 1] = t
      BY <1>1, <2>1, <2>3
    <3>2. \A j \in DOMAIN r \ {i - 1} : j + 1 \in DOMAIN s \ {i} /\ r[j] = s[j + 1]
      BY <1>1
    <3>3. \A j \in DOMAIN r \ {i - 1} : IsControl(r[j])
      BY <2>1, <3>2
    <3>4. IsControl(Head(s))
      BY <1>1, <2>1, <2>3
    <3> QED BY <3>1, <3>3, <3>4 DEF OneLoopIn
  <2> QED BY <2>2, <2>3
<1> QED BY <1>2, <1>3 DEF r

\* What a worker's queue holds after a task is put at its end.
LEMMA PutIntoQueue ==
    ASSUME NEW S, NEW s \in Seq(S), NEW e \in S
    PROVE  /\ ControlOnly(s) /\ IsControl(e) => ControlOnly(Append(s, e))
           /\ ControlOnly(s) => OneLoopIn(Append(s, e), e)
           /\ \A t : OneLoopIn(s, t) /\ IsControl(e) => OneLoopIn(Append(s, e), t)
<1> DEFINE r == Append(s, e)
           n == Len(s) + 1
<1>1. /\ DOMAIN r = DOMAIN s \cup {n} /\ n \notin DOMAIN s
      /\ r[n] = e /\ \A i \in DOMAIN s : r[i] = s[i]
  OBVIOUS
<1> HIDE DEF r, n
<1>2. ControlOnly(s) /\ IsControl(e) => ControlOnly(r)
  BY <1>1 DEF ControlOnly
<1>3. ControlOnly(s) => OneLoopIn(r, e)
  BY <1>1 DEF ControlOnly, OneLoopIn
<1>4. ASSUME NEW t, OneLoopIn(s, t), IsControl(e)
      PROVE  OneLoopIn(r, t)
  <2>1. PICK i \in DOMAIN s : s[i] = t /\ \A j \in DOMAIN s \ {i} : IsControl(s[j])
    BY <1>4 DEF OneLoopIn
  <2>2. i \in DOMAIN r /\ r[i] = t /\ \A j \in DOMAIN r \ {i} : IsControl(r[j])
    BY <1>1, <1>4, <2>1
  <2> QED BY <2>2 DEF OneLoopIn
<1> QED BY <1>2, <1>3, <1>4 DEF r

-----------------------------------------------------------------------------
(* The loop's invariant. *)

\* A worker whose queue is closed comes after others whose queues are: when a
\* call is refused, none of its tasks waits in an open queue.
ShutPrefix == \A w \in shut : \A v \in Workers : v < w => v \in shut

Phases ==
    /\ looping # 0 => looping \in Calls /\ KindOf[looping] = "loop"
    /\ at \in {"driving", "stopping"} => looping # 0
    /\ at \in {"sending", "putting"} => looping = 0 \/ KindOf[call] = "control"

\* What a worker holds was submitted, and so was what it has answered.
Put(t) == future[t] \notin {"none", "registered"}
Sent(t) == \E v \in {"value", "error"} : [task |-> t, value |-> v] \in Range(results)
Held(w, t) == t \in Tasks /\ (t \in Range(current[w]) \/ t \in Range(taskQueue[w]) \/ Sent(t))
Submitted == \A w \in Workers : \A t \in Tasks : Held(w, t) => Put(t)

\* A worker that was told to leave is still in that loop.  It is not the loop that runs
\* now, unless a step without groups told it so, nor the one that is being started.
LeaversLoop ==
    \A w \in leaving : Up(w) =>
      \E t \in Tasks :
        /\ current[w] = <<t>> /\ IsLoop(t) /\ t[2] = w
        /\ SwapOnlySteps \/ t # <<looping, w>>
        /\ at \in {"sending", "putting"} => t # <<call, w>>

\* The call whose loop the worker w is in or has to come to.
Owed(w) ==
    IF looping # 0 THEN looping
    ELSE IF at \in {"sending", "putting"} /\ KindOf[call] = "loop" /\ w < next THEN call ELSE 0

OneLoop(w, k) ==
    \/ current[w] = <<<<k, w>>>> /\ ControlOnly(taskQueue[w])
    \/ (w \in leaving \/ ControlOnly(current[w])) /\ OneLoopIn(taskQueue[w], <<k, w>>)

NoLoop(w) == (w \in leaving \/ ControlOnly(current[w])) /\ ControlOnly(taskQueue[w])

\* Nobody has told the loop of call k to end on worker w.
Untold(k, w) == SwapOnlySteps \/ ~Ended(<<k, w>>, "value")

\* The worker is in the loop or comes to it once, or has left it by itself.
LoopOrLeft(w, k) == Untold(k, w) /\ (OneLoop(w, k) \/ (NoLoop(w) /\ LeftLoop(k, w)))

\* A worker that lives and whose queue is open owes the loop that runs, or that is
\* being started, once, and no other.
LoopKept(w) ==
    Up(w) /\ w \notin shut => IF Owed(w) # 0 THEN LoopOrLeft(w, Owed(w)) ELSE NoLoop(w)

LoopInv ==
    /\ ShutPrefix
    /\ Phases
    /\ Submitted
    /\ leaving \subseteq Workers
    /\ LeaversLoop
    /\ \A w \in Workers : LoopKept(w)

\* Whom the handler's table still lists has no result.
Unanswered == \A t \in tasks : future[t] \notin {"value", "error"}

TInv == IInv /\ HandTypes /\ CallTypes /\ Unanswered

\* A step sends no value for task t, and a result that was sent stays.
EndsKept(t) ==
    /\ Ended(t, "value")' => Ended(t, "value")
    /\ Ended(t, "error") \/ Ended(t, "value") => Ended(t, "error")' \/ Ended(t, "value")'

\* That much of the loop that worker w owes.
OwedEndsKept(w) == \A k : k = Owed(w) /\ k # 0 => EndsKept(<<k, w>>)

\* Nobody is in the loop at the start.
LEMMA InitLoop == Init => LoopInv
<1> SUFFICES ASSUME Init
             PROVE  LoopInv
  OBVIOUS
<1>1. \A w \in Workers : NoLoop(w) /\ Owed(w) = 0
  BY DEF Init, WorkersInit, NoLoop, Owed, ControlOnly
<1>2. Submitted
  BY DEF Init, WorkersInit, Submitted, Held, Sent, Range
<1> QED BY <1>1, <1>2 DEF Init, LoopInv, ShutPrefix, Phases, LeaversLoop, LoopKept, WorkersInit

\* The table loses a task when its result comes.
LEMMA StepUnanswered ==
    ASSUME IInv, HandTypes, Unanswered, [Next]_vars
    PROVE  Unanswered'
<1>1. CASE UNCHANGED <<future, tasks>>
  BY <1>1 DEF Unanswered
<1>2. ASSUME NEW t \in Tasks, RegisterTask(t) \/ PutTask(t)
      PROVE  Unanswered'
  BY <1>2 DEF RegisterTask, PutTask, SetFuture, Unanswered, HandTypes, IInv, WorkersType
<1>3. CASE HandleResult
  BY <1>3 DEF HandleResult, SetFuture, Unanswered, HandTypes, IInv, WorkersType
<1>4. CASE DrainTask
  BY <1>4 DEF DrainTask, SetFuture, Unanswered, HandTypes, IInv, WorkersType
<1>5. SendTask \/ SendPut => \E t \in Tasks : RegisterTask(t) \/ PutTask(t)
  BY ExecutorAssumption DEF SendTask, SendPut, IInv, CallKnown
<1>6. WorkStep => UNCHANGED <<future, tasks>> \/ HandleResult \/ DrainTask
  BY DEF WorkStep, TakeTask, FinishTask, NoticeExit, BeginKilling, KillWorker, EndKilling,
         EndMonitor, BeginClose, TerminateWorker, EndClose
<1> QED BY <1>1, <1>2, <1>3, <1>4, <1>5, <1>6
        DEF Next, EngineStep, vars, workerVars, ExecuteModel, BeginCall, Drive, BroadcastStop,
            MeetingFails, GetResult, StopLoop, DriverRaises, LeaveLoop, LoopRaises, FinishTask,
            Shutdown, CallClose, WorkerDies

\* What ended stays so where nothing of it changes.
LEMMA SameEnds ==
    ASSUME UNCHANGED <<future, results>>
    PROVE  \A w : OwedEndsKept(w)
  BY DEF OwedEndsKept, EndsKept, Ended

\* The call whose loop a worker owes has a task for it.
LEMMA OwedTask ==
    ASSUME TInv, LoopInv, NEW w \in Workers, NEW k, k = Owed(w), k # 0
    PROVE  k \in Calls /\ KindOf[k] = "loop" /\ <<k, w>> \in Tasks /\ IsLoop(<<k, w>>)
<1>1. k \in Calls /\ KindOf[k] = "loop"
  BY DEF Owed, LoopInv, Phases, TInv, IInv, CallKnown
<1> QED BY <1>1, ExecutorAssumption DEF IsLoop

\* A worker whose queue and task stay.
LEMMA SameHands ==
    ASSUME NEW w \in Workers, LoopKept(w), Up(w)' => Up(w), shut \subseteq shut',
           Up(w)' => current'[w] = current[w] /\ taskQueue'[w] = taskQueue[w],
           Owed(w)' = Owed(w), w \in leaving' <=> w \in leaving,
           OwedEndsKept(w)
    PROVE  LoopKept(w)'
<1> SUFFICES ASSUME Up(w)', w \notin shut'
             PROVE  LoopKept(w)'
  BY DEF LoopKept
<1>1. Up(w) /\ w \notin shut /\ current'[w] = current[w] /\ taskQueue'[w] = taskQueue[w]
  OBVIOUS
<1>2. NoLoop(w)' <=> NoLoop(w)
  BY <1>1 DEF NoLoop, ControlOnly, IsControl
<1>3. Owed(w) # 0 /\ LoopOrLeft(w, Owed(w)) => LoopOrLeft(w, Owed(w))'
  <2> SUFFICES ASSUME NEW k, k = Owed(w), k # 0, LoopOrLeft(w, k)
               PROVE  LoopOrLeft(w, k)'
    OBVIOUS
  <2>1. EndsKept(<<k, w>>)
    BY DEF OwedEndsKept
  <2>2. OneLoop(w, k)' <=> OneLoop(w, k)
    BY <1>1 DEF OneLoop, ControlOnly, OneLoopIn, IsControl
  <2>3. /\ Untold(k, w) => Untold(k, w)'
        /\ Untold(k, w) /\ LeftLoop(k, w) => LeftLoop(k, w)'
    BY <2>1 DEF Untold, LeftLoop, EndsKept
  <2> QED BY <1>2, <2>2, <2>3 DEF LoopOrLeft
<1> QED BY <1>1, <1>2, <1>3 DEF LoopKept

\* A step of the worker w, or about it.
LEMMA OneWorker ==
    ASSUME LoopInv, NEW w \in Workers, UNCHANGED executorVars,
           \A v \in Workers \ {w} : /\ Up(v)' => Up(v)
                                    /\ current'[v] = current[v]
                                    /\ taskQueue'[v] = taskQueue[v],
           \A t \in Tasks : Put(t) => Put(t)',
           \A v \in Workers \ {w} : OwedEndsKept(v),
           shut \subseteq shut', ShutPrefix',
           \A t \in Tasks : Held(w, t)' => Held(w, t),
           w \in leaving /\ Up(w)' => Up(w) /\ current'[w] = current[w],
           LoopKept(w)'
    PROVE  LoopInv'
<1> USE DEF executorVars
<1>1. Phases'
  BY DEF LoopInv, Phases
<1>2. Submitted'
  <2> SUFFICES ASSUME NEW v \in Workers, NEW t \in Tasks, Held(v, t)'
               PROVE  Put(t)'
    BY DEF Submitted
  <2>1. Held(v, t) \/ Held(w, t)'
    BY DEF Held, Range
  <2> QED BY <2>1 DEF LoopInv, Submitted
<1>3. LeaversLoop'
  <2> SUFFICES ASSUME NEW v \in leaving, Up(v)'
               PROVE  \E t \in Tasks :
                        /\ current'[v] = <<t>> /\ IsLoop(t) /\ t[2] = v
                        /\ SwapOnlySteps \/ t # <<looping, v>>
                        /\ at \in {"sending", "putting"} => t # <<call, v>>
    BY DEF LeaversLoop, IsLoop
  <2>1. Up(v) /\ current'[v] = current[v]
    BY DEF LoopInv
  <2> QED BY <2>1 DEF LoopInv, LeaversLoop
<1>4. ASSUME NEW v \in Workers \ {w}
      PROVE  LoopKept(v)'
  <2>1. Owed(v)' = Owed(v)
    BY DEF Owed
  <2> QED BY <1>4, <2>1, SameHands DEF LoopInv
<1> QED BY <1>1, <1>2, <1>3, <1>4 DEF LoopInv

\* A worker that left the loop, ended a task or never had one holds nothing then.
LEMMA TakeTaskLoop ==
    ASSUME TInv, LoopInv, NEW w \in Workers, TakeTask(w), UNCHANGED executorVars
    PROVE  LoopInv'
<1> DEFINE Q == Tasks \cup {Terminate}
           h == Head(taskQueue[w])
<1>1. /\ taskQueue[w] \in Seq(Q) /\ taskQueue[w] # <<>>
      /\ Up(w) /\ current[w] = <<>>
      /\ taskQueue'[w] = Tail(taskQueue[w])
      /\ h # Terminate => current'[w] = <<h>>
      /\ h = Terminate => ~Up(w)'
      /\ UNCHANGED <<future, results, shut>>
      /\ \A v \in Workers \ {w} : /\ current'[v] = current[v]
                                  /\ taskQueue'[v] = taskQueue[v]
                                  /\ Up(v)' = Up(v)
  <2>1. /\ taskQueue \in [Workers -> Seq(Q)]
        /\ current \in [Workers -> Seq(Tasks)]
        /\ process \in [Workers -> Processes]
    BY DEF TInv, IInv, WorkersType, HandTypes
  <2>2. CASE h = Terminate
    <3>1. /\ process' = [process EXCEPT ![w] = "exited"] /\ UNCHANGED current
          /\ taskQueue' = [taskQueue EXCEPT ![w] = Tail(taskQueue[w])]
      BY <2>2 DEF TakeTask
    <3> QED BY <2>1, <2>2, <3>1 DEF TakeTask, Up
  <2>3. CASE h # Terminate
    <3>1. /\ current' = [current EXCEPT ![w] = <<h>>] /\ UNCHANGED process
          /\ taskQueue' = [taskQueue EXCEPT ![w] = Tail(taskQueue[w])]
      BY <2>3 DEF TakeTask
    <3> HIDE DEF h
    <3> QED BY <2>1, <2>3, <3>1 DEF TakeTask, Up
  <2> QED BY <2>2, <2>3
<1>2. w \notin leaving
  <2>1. \A t \in Tasks : current[w] # <<t>>
    BY <1>1
  <2>2. LeaversLoop /\ Up(w)
    BY <1>1 DEF LoopInv
  <2> QED BY <2>1, <2>2 DEF LeaversLoop
<1>3. \A t \in Tasks : Held(w, t)' => Held(w, t)
  <2>1. h \in Range(taskQueue[w]) /\ Range(Tail(taskQueue[w])) \subseteq Range(taskQueue[w])
    BY <1>1 DEF Range
  <2>2. current' = [current EXCEPT ![w] = <<h>>] \/ current' = current
    BY DEF TakeTask
  <2>3. Range(current'[w]) \subseteq {h} \cup Range(current[w])
    BY <2>2 DEF Range, TInv, IInv, WorkersType
  <2>4. ASSUME NEW t \in Tasks, Held(w, t)'
        PROVE  Held(w, t)
    <3>1. t \in Range(current'[w]) \/ t \in Range(Tail(taskQueue[w])) \/ Sent(t)
      BY <1>1, <2>4 DEF Held, Sent
    <3>2. t \in Range(taskQueue[w]) \/ t \in Range(current[w]) \/ Sent(t)
      BY <2>1, <2>3, <3>1
    <3> QED BY <3>2 DEF Held
  <2> QED BY <2>4
<1>4. LoopKept(w)'
  <2> SUFFICES ASSUME h # Terminate, w \notin shut
               PROVE  LoopKept(w)'
    BY <1>1 DEF LoopKept
  <2>1. Owed(w)' = Owed(w) /\ leaving' = leaving /\ LoopKept(w)
    BY DEF Owed, executorVars, LoopInv
  <2>2. IsControl(h) => ControlOnly(<<h>>)
    BY DEF ControlOnly
  <2>3. CASE Owed(w) = 0
    <3>1. ControlOnly(taskQueue[w])
      BY <1>1, <2>1, <2>3 DEF LoopKept, NoLoop
    <3>2. ControlOnly(<<h>>) /\ ControlOnly(Tail(taskQueue[w]))
      BY <1>1, <2>2, <3>1, TakenFromQueue
    <3>3. NoLoop(w)'
      BY <1>1, <3>2 DEF NoLoop, ControlOnly, IsControl
    <3> QED BY <2>1, <2>3, <3>3 DEF LoopKept
  <2>4. CASE Owed(w) # 0
    <3> PICK o : o = Owed(w)
      OBVIOUS
    <3>0. o = Owed(w)' /\ o # 0
      BY <2>1, <2>4
    <3>1. LoopOrLeft(w, o)
      BY <1>1, <2>1, <2>4 DEF LoopKept
    <3>2. (Untold(o, w) => Untold(o, w)') /\ (LeftLoop(o, w) => LeftLoop(o, w)')
      BY <1>1 DEF Untold, LeftLoop, Ended
    <3>3. CASE NoLoop(w) /\ LeftLoop(o, w)
      <4>1. ControlOnly(<<h>>) /\ ControlOnly(Tail(taskQueue[w]))
        BY <1>1, <2>2, <3>3, TakenFromQueue DEF NoLoop
      <4>2. NoLoop(w)'
        BY <1>1, <4>1 DEF NoLoop, ControlOnly, IsControl
      <4>3. LoopOrLeft(w, o)'
        BY <3>1, <3>2, <3>3, <4>2 DEF LoopOrLeft
      <4> QED BY <3>0, <4>3 DEF LoopKept
    <3>4. CASE OneLoop(w, o)
      <4>1. OneLoopIn(taskQueue[w], <<o, w>>)
        BY <1>1, <3>4 DEF OneLoop
      <4>2. \/ h = <<o, w>> /\ ControlOnly(Tail(taskQueue[w]))
            \/ IsControl(h) /\ OneLoopIn(Tail(taskQueue[w]), <<o, w>>)
        BY <1>1, <4>1, TakenFromQueue
      <4>3. ASSUME h = <<o, w>>, ControlOnly(Tail(taskQueue[w]))
            PROVE  OneLoop(w, o)'
        <5>1. ControlOnly(taskQueue[w])'
          BY <1>1, <4>3 DEF ControlOnly, IsControl
        <5>2. current'[w] = <<<<o, w>>>>
          BY <1>1, <4>3
        <5> QED BY <5>1, <5>2 DEF OneLoop
      <4>4. ASSUME IsControl(h), OneLoopIn(Tail(taskQueue[w]), <<o, w>>)
            PROVE  OneLoop(w, o)'
        <5>1. OneLoopIn(taskQueue[w], <<o, w>>)' /\ ControlOnly(current[w])'
          BY <1>1, <2>2, <4>4 DEF ControlOnly, OneLoopIn, IsControl
        <5> QED BY <5>1 DEF OneLoop
      <4>5. LoopOrLeft(w, o)'
        BY <3>1, <3>2, <4>2, <4>3, <4>4 DEF LoopOrLeft
      <4> QED BY <3>0, <4>5 DEF LoopKept
    <3> QED BY <3>1, <3>3, <3>4 DEF LoopOrLeft
  <2> QED BY <2>3, <2>4
<1>5. ShutPrefix'
  BY <1>1 DEF LoopInv, ShutPrefix
<1>6. /\ \A t \in Tasks : Put(t) => Put(t)'
      /\ \A v \in Workers \ {w} : OwedEndsKept(v)
  BY <1>1, SameEnds DEF Put
<1> QED BY <1>1, <1>2, <1>3, <1>4, <1>5, <1>6, OneWorker

\* A result is sent, and nothing else changes of what has ended.
LEMMA FinishedIsSent ==
    ASSUME WorkersType, NEW w \in Workers, NEW outcome \in {"value", "error"},
           FinishTask(w, outcome), NEW u, u = Head(current[w])
    PROVE  /\ u \in Tasks /\ u \in Range(current[w])
           /\ \A t, v : Ended(t, v)' <=> Ended(t, v) \/ (t = u /\ v = outcome)
           /\ \A t : Sent(t)' <=> Sent(t) \/ t = u
<1>1. current[w] \in Seq(Tasks) /\ current[w] # <<>>
  BY DEF WorkersType, FinishTask
<1>2. u \in Tasks /\ u \in Range(current[w])
  BY <1>1, SequenceRanges
<1> DEFINE r == [task |-> u, value |-> outcome]
<1>3. results' = Append(results, r) /\ UNCHANGED future /\ results \in Seq(Results \cup {Terminate})
  BY DEF FinishTask, WorkersType
<1>4. r \in Results \cup {Terminate}
  BY <1>2 DEF Results
<1>5. Range(results') = Range(results) \cup {r}
  <2> HIDE DEF r
  <2> QED BY <1>3, <1>4 DEF Range
<1>6. \A t, v : [task |-> t, value |-> v] = r <=> t = u /\ v = outcome
  OBVIOUS
<1>7. Range(results) = ToSet(results) /\ Range(results') = ToSet(results')
  BY DEF Range, ToSet
<1> HIDE DEF r
<1>8. ASSUME NEW t, NEW v
      PROVE  Ended(t, v)' <=> Ended(t, v) \/ (t = u /\ v = outcome)
  <2> DEFINE e == [task |-> t, value |-> v]
  <2>1. e \in ToSet(results') <=> e \in ToSet(results) \/ e = r
    BY <1>5, <1>7
  <2>2. e = r <=> t = u /\ v = outcome
    BY <1>6
  <2>3. future'[t] = v <=> future[t] = v
    BY <1>3
  <2>4. Ended(t, v) <=> future[t] = v \/ e \in ToSet(results)
    BY DEF Ended
  <2>5. Ended(t, v)' <=> future'[t] = v \/ e \in ToSet(results')
    BY DEF Ended
  <2> HIDE DEF e
  <2> QED BY <2>1, <2>2, <2>3, <2>4, <2>5
<1>9. \A t : Sent(t)' <=> Sent(t) \/ t = u
  BY <1>5, <1>6 DEF Sent
<1> QED BY <1>2, <1>8, <1>9

\* A worker that is in a loop does not end it like another task.
LEMMA FinishTaskLoop ==
    ASSUME TInv, LoopInv, NEW w \in Workers, NEW outcome \in {"value", "error"},
           FinishTask(w, outcome), UNCHANGED executorVars,
           ToSet(current[w]) \cap Endless = {}
    PROVE  LoopInv'
<1>1. /\ current \in [Workers -> Seq(Tasks)] /\ current[w] # <<>> /\ Up(w)
      /\ current' = [current EXCEPT ![w] = <<>>]
      /\ UNCHANGED <<future, taskQueue, shut, process>>
      /\ WorkersType
  BY DEF FinishTask, TInv, IInv, WorkersType
<1>2. current'[w] = <<>> /\ \A v \in Workers \ {w} : current'[v] = current[v]
  BY <1>1
<1>3. \A t \in Tasks : current[w] = <<t>> => ~IsLoop(t)
  <2> SUFFICES ASSUME NEW t \in Tasks, current[w] = <<t>>
               PROVE  ~IsLoop(t)
    OBVIOUS
  <2>1. t \in ToSet(current[w])
    BY DEF ToSet
  <2> QED BY <2>1, Kinds
<1>4. w \notin leaving
  BY <1>1, <1>3 DEF LoopInv, LeaversLoop
<1> PICK u : u = Head(current[w])
  OBVIOUS
<1>5. /\ u \in Tasks /\ u \in Range(current[w])
      /\ \A t, v : Ended(t, v)' <=> Ended(t, v) \/ (t = u /\ v = outcome)
      /\ \A t : Sent(t)' <=> Sent(t) \/ t = u
  BY <1>1, FinishedIsSent
<1>6. \A t \in Tasks : Held(w, t)' => Held(w, t)
  BY <1>1, <1>2, <1>5 DEF Held, Range
<1>7. ~IsLoop(u)
  <2>1. Range(current[w]) = ToSet(current[w])
    BY DEF Range, ToSet
  <2> QED BY <1>5, <2>1, Kinds
<1>8. ASSUME NEW v \in Workers, NEW k, k = Owed(v), k # 0
      PROVE  /\ \A x : Ended(<<k, v>>, x)' <=> Ended(<<k, v>>, x)
             /\ IsLoop(<<k, v>>) /\ <<k, v>> \in Tasks
  <2>1. IsLoop(<<k, v>>) /\ <<k, v>> \in Tasks
    BY <1>8, OwedTask
  <2> QED BY <1>5, <1>7, <2>1
<1>9. \A v \in Workers : OwedEndsKept(v)
  BY <1>8 DEF OwedEndsKept, EndsKept
<1>10. LoopKept(w)'
  <2> SUFFICES ASSUME w \notin shut
               PROVE  LoopKept(w)'
    BY <1>1 DEF LoopKept
  <2>1. Owed(w)' = Owed(w) /\ leaving' = leaving /\ LoopKept(w)
    BY DEF Owed, executorVars, LoopInv
  <2>2. ControlOnly(current[w])'
    BY <1>2 DEF ControlOnly
  <2>3. NoLoop(w) => NoLoop(w)'
    BY <1>1, <2>2 DEF NoLoop, ControlOnly, IsControl
  <2>4. CASE Owed(w) = 0
    BY <1>1, <2>1, <2>3, <2>4 DEF LoopKept
  <2>5. CASE Owed(w) # 0
    <3> PICK o : o = Owed(w)
      OBVIOUS
    <3>0. o = Owed(w)' /\ o # 0
      BY <2>1, <2>5
    <3>1. LoopOrLeft(w, o)
      BY <1>1, <2>1, <2>5 DEF LoopKept
    <3>2. (Untold(o, w) => Untold(o, w)') /\ (LeftLoop(o, w) => LeftLoop(o, w)')
      BY <1>8, <3>0 DEF Untold, LeftLoop
    <3>3. ASSUME OneLoop(w, o)
          PROVE  OneLoop(w, o)'
      <4>1. current[w] # <<<<o, w>>>>
        BY <1>3, <1>8, <3>0
      <4>2. OneLoopIn(taskQueue[w], <<o, w>>)
        BY <3>3, <4>1 DEF OneLoop
      <4>3. OneLoopIn(taskQueue[w], <<o, w>>)'
        BY <1>1, <4>2 DEF OneLoopIn, IsControl
      <4> QED BY <2>2, <4>3 DEF OneLoop
    <3>4. LoopOrLeft(w, o)'
      BY <2>3, <3>1, <3>2, <3>3 DEF LoopOrLeft
    <3> QED BY <3>0, <3>4 DEF LoopKept
  <2> QED BY <2>4, <2>5
<1>11. /\ ShutPrefix' /\ \A v \in Workers \ {w} : Up(v)' = Up(v)
       /\ \A t \in Tasks : Put(t) => Put(t)'
  BY <1>1 DEF LoopInv, ShutPrefix, Up, Put
<1> QED BY <1>1, <1>2, <1>4, <1>6, <1>9, <1>10, <1>11, OneWorker

\* A worker that is gone owes nothing.
LEMMA GoneLoop ==
    ASSUME TInv, LoopInv, NEW w \in Workers, NEW how \in Processes \ {"up"}, Gone(w, how),
           shut \subseteq shut', ShutPrefix', UNCHANGED <<future, results, taskQueue, executorVars>>
    PROVE  LoopInv'
<1>1. /\ current \in [Workers -> Seq(Tasks)] /\ process \in [Workers -> Processes]
      /\ current' = [current EXCEPT ![w] = <<>>]
      /\ process' = [process EXCEPT ![w] = IF Up(w) THEN how ELSE process[w]]
  BY DEF Gone, TInv, IInv, WorkersType, HandTypes
<1>2. ~Up(w)' /\ \A v \in Workers \ {w} : current'[v] = current[v] /\ Up(v)' = Up(v)
  BY <1>1 DEF Up
<1>3. \A t \in Tasks : Held(w, t)' => Held(w, t)
  BY <1>1 DEF Held, Range, Sent
<1>4. LoopKept(w)'
  BY <1>2 DEF LoopKept
<1>5. /\ \A t \in Tasks : Put(t) => Put(t)'
      /\ \A v \in Workers \ {w} : OwedEndsKept(v)
  BY SameEnds DEF Put
<1> QED BY <1>1, <1>2, <1>3, <1>4, <1>5, OneWorker

\* The death of a worker asks nothing of the others.
LEMMA WorkerDiesLoop ==
    ASSUME TInv, LoopInv, NEW w \in Workers, WorkerDies(w), UNCHANGED executorVars
    PROVE  LoopInv'
<1>1. ShutPrefix' /\ Gone(w, "died")
  BY DEF WorkerDies, Gone, LoopInv, ShutPrefix
<1> QED BY <1>1, GoneLoop DEF WorkerDies, Processes

\* Neither does killing it.
LEMMA KillWorkerLoop ==
    ASSUME TInv, LoopInv, NEW w \in Workers, KillWorker(w), UNCHANGED executorVars
    PROVE  LoopInv'
<1>1. ShutPrefix'
  BY WorkersAssumption
     DEF KillWorker, LoopInv, ShutPrefix, TInv, IInv, ShutInOrder, WorkersType, Workers
<1> QED BY <1>1, GoneLoop DEF KillWorker, Processes

\* The sentinel gets only into a queue that is closed with it.
LEMMA TerminateWorkerLoop ==
    ASSUME TInv, LoopInv, NEW w \in Workers, TerminateWorker(w), UNCHANGED executorVars
    PROVE  LoopInv'
<1>1. ShutPrefix'
  BY WorkersAssumption
     DEF TerminateWorker, LoopInv, ShutPrefix, TInv, IInv, ShutInOrder, WorkersType, Workers
<1>2. CASE w \in shut
  BY <1>1, <1>2, GoneLoop DEF TerminateWorker, Processes
<1>3. CASE w \notin shut
  <2>1. /\ taskQueue \in [Workers -> Seq(Tasks \cup {Terminate})]
        /\ taskQueue' = [taskQueue EXCEPT ![w] = Append(taskQueue[w], Terminate)]
        /\ shut' = shut \cup {w}
        /\ UNCHANGED <<future, results, process, current>>
    BY <1>3 DEF TerminateWorker, TInv, IInv, WorkersType
  <2>2. \A v \in Workers \ {w} : taskQueue'[v] = taskQueue[v]
    BY <2>1
  <2>3. \A t \in Tasks : Held(w, t)' => Held(w, t)
    <3>1. \A x \in Range(Append(taskQueue[w], Terminate)) :
            x \in Range(taskQueue[w]) \/ x = Terminate
      BY <2>1, SequenceRanges
    <3>2. taskQueue'[w] = Append(taskQueue[w], Terminate)
      BY <2>1
    <3> QED BY <2>1, <3>1, <3>2, WorkersAssumption DEF Held, Sent
  <2>4. LoopKept(w)'
    BY <2>1 DEF LoopKept
  <2>5. /\ \A t \in Tasks : Put(t) => Put(t)'
        /\ \A v \in Workers \ {w} : OwedEndsKept(v)
    BY <2>1, SameEnds DEF Put
  <2> QED BY <1>1, <2>1, <2>2, <2>3, <2>4, <2>5, OneWorker DEF Up
<1> QED BY <1>2, <1>3

\* What the handler delivers stays delivered, and who is told of a death had no result.
LEMMA HandlerKeepsEnds ==
    ASSUME TInv, HandleResult \/ DrainTask, NEW t \in Tasks
    PROVE  EndsKept(t) /\ (Sent(t)' => Sent(t))
<1>1. CASE HandleResult
  <2> DEFINE r == Head(results)
             Rec(v) == [task |-> t, value |-> v]
  <2>1. /\ results' = Tail(results) /\ r \in Results \cup {Terminate}
        /\ r \in Range(results) /\ Range(results') \subseteq Range(results)
        /\ \A x \in Range(results) : x = r \/ x \in Range(results')
    <3>1. results \in Seq(Results \cup {Terminate}) /\ results # <<>> /\ results' = Tail(results)
      BY <1>1 DEF HandleResult, TInv, IInv, WorkersType
    <3>2. \A x \in Range(results) : x = Head(results) \/ x \in Range(Tail(results))
      <4> SUFFICES ASSUME NEW i \in DOMAIN results
                   PROVE  results[i] = Head(results) \/ results[i] \in Range(Tail(results))
        BY DEF Range
      <4>1. i # 1 => /\ i - 1 \in DOMAIN Tail(results)
                     /\ Tail(results)[i - 1] = results[i]
        BY <3>1
      <4> QED BY <3>1, <4>1 DEF Range
    <3> QED BY <3>1, <3>2, SequenceRanges
  <2>2. Range(results) = ToSet(results) /\ Range(results') = ToSet(results')
    BY DEF Range, ToSet
  <2>3. \A v \in {"value", "error"} : Rec(v) \in Results
    BY DEF Results
  <2>4. /\ r = Terminate => future' = future
        /\ r # Terminate => /\ future' = [future EXCEPT ![r.task] = r.value]
                            /\ r \in Results
    BY <1>1, <2>1 DEF HandleResult, SetFuture
  <2>5. future \in [Tasks -> Futures]
    BY DEF TInv, IInv, WorkersType
  <2>6. ASSUME NEW v \in {"value", "error"}, future'[t] = v
        PROVE  future[t] = v \/ Rec(v) \in Range(results)
    <3>1. CASE r # Terminate /\ r.task = t
      <4>1. r.value = v /\ r \in [task : Tasks, value : {"value", "error"}]
        BY <2>4, <2>5, <2>6, <3>1 DEF Results
      <4>2. r = Rec(v)
        BY <3>1, <4>1
      <4> QED BY <2>1, <4>2
    <3>2. CASE ~(r # Terminate /\ r.task = t)
      BY <2>4, <2>5, <2>6, <3>2
    <3> QED BY <3>1, <3>2
  <2>7. ASSUME NEW v \in {"value", "error"}, future[t] = v \/ Rec(v) \in Range(results)
        PROVE  \E x \in {"value", "error"} : future'[t] = x \/ Rec(x) \in Range(results')
    <3>1. CASE r # Terminate /\ r.task = t
      <4>1. r.value \in {"value", "error"} /\ future'[t] = r.value
        BY <2>4, <2>5, <3>1 DEF Results
      <4> QED BY <4>1
    <3>2. CASE ~(r # Terminate /\ r.task = t)
      <4>1. future'[t] = future[t]
        BY <2>4, <2>5, <3>2
      <4>2. Rec(v) # r
        BY <2>3, <3>2, WorkersAssumption
      <4>3. Rec(v) \in Range(results) => Rec(v) \in Range(results')
        BY <2>1, <4>2
      <4> QED BY <2>7, <4>1, <4>3
    <3> QED BY <3>1, <3>2
  <2>8. \A v : Ended(t, v) <=> future[t] = v \/ Rec(v) \in Range(results)
    BY <2>2 DEF Ended
  <2>9. \A v : Ended(t, v)' <=> future'[t] = v \/ Rec(v) \in Range(results')
    BY <2>2 DEF Ended
  <2>10. Sent(t)' => Sent(t)
    BY <2>1 DEF Sent
  <2> HIDE DEF r, Rec
  <2>11. \A v \in {"value", "error"} : Ended(t, v)' => Ended(t, v)
    BY <2>1, <2>6, <2>8, <2>9
  <2>12. Ended(t, "error") \/ Ended(t, "value") => Ended(t, "error")' \/ Ended(t, "value")'
    BY <2>7, <2>8, <2>9
  <2> QED BY <2>10, <2>11, <2>12 DEF EndsKept
<1>2. CASE DrainTask
  <2>1. UNCHANGED results
    BY <1>2 DEF DrainTask
  <2>2. \A v \in {"value", "error"} : future'[t] = v <=> future[t] = v
    BY <1>2 DEF DrainTask, SetFuture, TInv, IInv, WorkersType, Unanswered
  <2>3. \A v \in {"value", "error"} : Ended(t, v)' <=> Ended(t, v)
    BY <2>1, <2>2 DEF Ended
  <2> QED BY <2>1, <2>3 DEF EndsKept, Sent
<1> QED BY <1>1, <1>2

\* The handler does not touch the workers' queues.
LEMMA HandResultLoop ==
    ASSUME TInv, LoopInv, HandleResult \/ DrainTask, UNCHANGED executorVars
    PROVE  LoopInv'
<1>1. UNCHANGED <<taskQueue, shut, process, current>>
  BY DEF HandleResult, DrainTask
<1>2. \A t \in Tasks : Put(t) => Put(t)'
  <2>1. CASE HandleResult
    <3>1. Head(results) # Terminate => Head(results).value \in {"value", "error"}
      BY <2>1, SequenceRanges DEF HandleResult, TInv, IInv, WorkersType, Results
    <3> QED BY <2>1, <3>1 DEF HandleResult, SetFuture, TInv, IInv, WorkersType, Put
  <2>2. CASE DrainTask
    BY <2>2 DEF DrainTask, SetFuture, TInv, IInv, WorkersType, Put
  <2> QED BY <2>1, <2>2
<1>3. ShutPrefix' /\ \A w \in Workers : Up(w)' = Up(w) /\ LoopKept(w)
  BY <1>1 DEF LoopInv, ShutPrefix, Up
<1>4. PICK w \in Workers : TRUE
  BY WorkersAssumption DEF Workers
<1>5. \A v \in Workers : OwedEndsKept(v)
  BY OwedTask, HandlerKeepsEnds DEF OwedEndsKept
<1>6. LoopKept(w)'
  BY <1>1, <1>3, <1>5, SameHands DEF Owed, executorVars
<1>7. \A t \in Tasks : Held(w, t)' => Held(w, t)
  BY <1>1, HandlerKeepsEnds DEF Held
<1> QED BY <1>1, <1>2, <1>3, <1>5, <1>6, <1>7, OneWorker

\* The sentinel is no result.
LEMMA SentinelKeepsEnds ==
    ASSUME TInv, LoopInv, UNCHANGED future,
           UNCHANGED results \/ results' = Append(results, Terminate)
    PROVE  /\ \A w \in Workers : OwedEndsKept(w)
           /\ \A t \in Tasks : Sent(t)' => Sent(t)
<1>1. CASE UNCHANGED results
  BY <1>1, SameEnds DEF Sent
<1>2. CASE results' = Append(results, Terminate)
  <2>1. results \in Seq(Results \cup {Terminate})
    BY DEF TInv, IInv, WorkersType
  <2>2. ToSet(results') = ToSet(results) \cup {Terminate} /\ Range(results) = ToSet(results)
        /\ Range(results') = ToSet(results')
    BY <1>2, <2>1 DEF ToSet, Range
  <2>3. ASSUME NEW t \in Tasks
        PROVE  /\ \A v \in {"value", "error"} : Ended(t, v)' <=> Ended(t, v)
               /\ Sent(t)' => Sent(t)
    <3>1. \A v \in {"value", "error"} : [task |-> t, value |-> v] # Terminate
      BY WorkersAssumption DEF Results
    <3> QED BY <2>2, <3>1 DEF Ended, Sent
  <2>4. \A t \in Tasks : EndsKept(t) /\ (Sent(t)' => Sent(t))
    BY <2>3 DEF EndsKept
  <2> QED BY <2>4, OwedTask DEF OwedEndsKept
<1> QED BY <1>1, <1>2

\* Every step of the machinery keeps the order of loop and control calls.
LEMMA WorkLoop ==
    ASSUME TInv, LoopInv, WorkStep \/ \E w \in Workers : WorkerDies(w), UNCHANGED executorVars
    PROVE  LoopInv'
<1>1. CASE NoticeExit \/ BeginKilling \/ EndKilling \/ EndMonitor \/ BeginClose \/ EndClose
  <2>1. /\ UNCHANGED <<future, taskQueue, shut, process, current>>
        /\ UNCHANGED results \/ results' = Append(results, Terminate)
    BY <1>1 DEF NoticeExit, BeginKilling, EndKilling, EndMonitor, BeginClose, EndClose
  <2>2. PICK w \in Workers : TRUE
    BY WorkersAssumption DEF Workers
  <2>3. ShutPrefix' /\ \A v \in Workers : Up(v)' = Up(v) /\ LoopKept(v)
    BY <2>1 DEF LoopInv, ShutPrefix, Up
  <2>4. /\ \A v \in Workers : OwedEndsKept(v)
        /\ \A t \in Tasks : Sent(t)' => Sent(t)
    BY <2>1, SentinelKeepsEnds
  <2>5. LoopKept(w)'
    BY <2>1, <2>3, <2>4, SameHands DEF Owed, executorVars
  <2>6. /\ \A t \in Tasks : Held(w, t)' => Held(w, t)
        /\ \A t \in Tasks : Put(t) => Put(t)'
    BY <2>1, <2>4 DEF Held, Put
  <2> QED BY <2>1, <2>3, <2>4, <2>5, <2>6, OneWorker
<1> QED BY <1>1, TakeTaskLoop, FinishTaskLoop, KillWorkerLoop, TerminateWorkerLoop,
           HandResultLoop, WorkerDiesLoop DEF WorkStep

-----------------------------------------------------------------------------
(* The steps of the engine's thread. *)

\* The thread moves on and the workers are left alone.
LEMMA ThreadAlone ==
    ASSUME LoopInv, UNCHANGED <<taskQueue, shut, process, current, results, leaving>>,
           \A t \in Tasks : Put(t) => Put(t)',
           \A w \in Workers : Owed(w)' = Owed(w) /\ OwedEndsKept(w), Phases', LeaversLoop'
    PROVE  LoopInv'
<1>1. ShutPrefix'
  BY DEF LoopInv, ShutPrefix
<1>2. Submitted'
  BY DEF LoopInv, Submitted, Held, Sent
<1>3. ASSUME NEW w \in Workers
      PROVE  LoopKept(w)'
  BY SameHands DEF LoopInv, Up
<1> QED BY <1>1, <1>2, <1>3 DEF LoopInv

\* Whoever is leaving the loop still is when nothing of it changes.
LEMMA SameLeavers ==
    ASSUME LeaversLoop, UNCHANGED <<process, current, leaving, looping>>,
           at' \in {"sending", "putting"} => at \in {"sending", "putting"} /\ call' = call
    PROVE  LeaversLoop'
<1> SUFFICES ASSUME NEW w \in leaving, Up(w)
             PROVE  \E t \in Tasks :
                      /\ current[w] = <<t>> /\ IsLoop(t) /\ t[2] = w
                      /\ SwapOnlySteps \/ t # <<looping, w>>
                      /\ at' \in {"sending", "putting"} => t # <<call', w>>
  BY DEF LeaversLoop, Up, IsLoop
<1> QED BY DEF LeaversLoop

\* Whom the driver meets is in the loop that runs, with nothing but control tasks behind.
LEMMA InTheLoop ==
    ASSUME TInv, LoopInv, looping # 0, NEW w \in Workers, InLoop(w)
    PROVE  /\ looping \in Calls /\ <<looping, w>> \in Tasks /\ IsLoop(<<looping, w>>)
           /\ current[w] = <<<<looping, w>>>> /\ Owed(w) = looping
           /\ w \notin shut => ControlOnly(taskQueue[w]) /\ Untold(looping, w)
<1>1. Owed(w) = looping /\ current[w] = <<<<looping, w>>>> /\ w \notin leaving /\ Up(w)
  BY DEF Owed, InLoop
<1>2. looping \in Calls /\ <<looping, w>> \in Tasks /\ IsLoop(<<looping, w>>)
  BY <1>1, OwedTask
<1>3. ~ControlOnly(current[w])
  <2>1. 1 \in DOMAIN current[w] /\ current[w][1] = <<looping, w>>
    BY <1>1
  <2> QED BY <1>2, <2>1, Kinds DEF ControlOnly
<1>4. w \notin shut => LoopOrLeft(w, looping)
  BY <1>1 DEF LoopInv, LoopKept
<1> QED BY <1>1, <1>2, <1>3, <1>4 DEF LoopOrLeft, OneLoop, NoLoop

\* After a step without groups all leave the loop that still counts as running.
LEMMA DriveLoop ==
    ASSUME TInv, LoopInv, Drive
    PROVE  LoopInv'
<1>1. /\ UNCHANGED <<workerVars, call, next, looping>>
      /\ at = "driving" /\ at' = "free" /\ \A w \in Workers : InLoop(w)
      /\ leaving' = {} \/ (SwapOnlySteps /\ leaving' = Workers)
  BY DEF Drive
<1> USE DEF workerVars
<1>2. looping # 0 /\ leaving = {}
  BY <1>1 DEF LoopInv, Phases, InLoop
<1>3. LeaversLoop'
  <2> SUFFICES ASSUME NEW w \in Workers, SwapOnlySteps
               PROVE  \E t \in Tasks : current[w] = <<t>> /\ IsLoop(t) /\ t[2] = w
    BY <1>1 DEF LeaversLoop, IsLoop
  <2> QED BY <1>1, <1>2, InTheLoop
<1>4. ASSUME NEW w \in Workers
      PROVE  LoopKept(w)'
  <2> SUFFICES ASSUME w \notin shut
               PROVE  LoopKept(w)'
    BY <1>1 DEF LoopKept
  <2>1. /\ current[w] = <<<<looping, w>>>> /\ ControlOnly(taskQueue[w])
        /\ Untold(looping, w) /\ Owed(w) = looping
    BY <1>1, <1>2, InTheLoop
  <2>2. Owed(w)' = looping'
    BY <1>1, <1>2 DEF Owed
  <2> PICK k : k = looping
    OBVIOUS
  <2>3. OneLoop(w, k)' /\ Untold(k, w)'
    BY <1>1, <2>1 DEF OneLoop, ControlOnly, IsControl, Untold, Ended
  <2>4. Owed(w)' = k /\ LoopOrLeft(w, k)'
    BY <1>1, <2>2, <2>3 DEF LoopOrLeft
  <2> QED BY <1>2, <2>4 DEF LoopKept
<1>5. ShutPrefix' /\ Phases' /\ leaving' \subseteq Workers /\ Submitted'
  BY <1>1 DEF LoopInv, ShutPrefix, Phases, Submitted, Held, Sent, Put
<1> QED BY <1>3, <1>4, <1>5 DEF LoopInv

\* Steps of the executor's thread that send nothing keep that order.
LEMMA ThreadLoop ==
    ASSUME TInv, LoopInv,
           \/ ExecuteModel \/ StopLoop \/ MeetingFails \/ GetResult
           \/ DriverRaises \/ Shutdown \/ SendTask \/ UNCHANGED vars
    PROVE  LoopInv'
<1> USE DEF workerVars
<1>1. CASE ExecuteModel \/ StopLoop \/ MeetingFails \/ GetResult \/ DriverRaises
  <2>1. UNCHANGED <<workerVars, looping, leaving>> /\ at' \notin {"sending", "putting"}
    BY <1>1 DEF ExecuteModel, StopLoop, MeetingFails, GetResult, DriverRaises
  <2>2. looping # 0 \/ at \notin {"sending", "putting"}
    BY <1>1 DEF ExecuteModel, StopLoop, MeetingFails, GetResult, DriverRaises
  <2>3. at' \in {"driving", "stopping"} => looping # 0
    BY <1>1 DEF ExecuteModel, StopLoop, MeetingFails, GetResult, DriverRaises
  <2>4. Phases' /\ LeaversLoop' /\ \A w \in Workers : Owed(w)' = Owed(w)
    BY <2>1, <2>2, <2>3, SameLeavers DEF LoopInv, Phases, Owed
  <2>5. /\ \A w \in Workers : OwedEndsKept(w)
        /\ \A t \in Tasks : Put(t) => Put(t)'
    BY <2>1, SameEnds DEF Put
  <2> QED BY <2>1, <2>4, <2>5, ThreadAlone
<1>2. CASE Shutdown \/ UNCHANGED vars
  <2>1. /\ UNCHANGED <<future, taskQueue, shut, process, current, results>>
        /\ UNCHANGED <<at, call, next, looping, leaving>>
    BY <1>2 DEF Shutdown, CallClose, vars
  <2>2. Phases' /\ LeaversLoop' /\ \A w \in Workers : Owed(w)' = Owed(w)
    BY <2>1, SameLeavers DEF LoopInv, Phases, Owed
  <2>3. /\ \A w \in Workers : OwedEndsKept(w)
        /\ \A t \in Tasks : Put(t) => Put(t)'
    BY <2>1, SameEnds DEF Put
  <2> QED BY <2>1, <2>2, <2>3, ThreadAlone
<1>3. CASE SendTask
  <2>1. /\ UNCHANGED <<taskQueue, shut, process, current, results>>
        /\ UNCHANGED <<call, next, looping, leaving>>
        /\ at = "sending" /\ at' = "putting"
        /\ SetFuture(<<call, next>>, "registered")
        /\ future[<<call, next>>] = "none"
    BY <1>3 DEF SendTask, RegisterTask
  <2>2. Phases' /\ LeaversLoop' /\ \A w \in Workers : Owed(w)' = Owed(w)
    BY <2>1, SameLeavers DEF LoopInv, Phases, Owed
  <2>3. \A t \in Tasks : /\ Put(t) => Put(t)'
                         /\ \A v \in {"value", "error"} : future'[t] = v <=> future[t] = v
    BY <2>1 DEF SetFuture, TInv, IInv, WorkersType, Put
  <2>4. \A t \in Tasks : EndsKept(t)
    BY <2>1, <2>3 DEF EndsKept, Ended
  <2>5. \A w \in Workers : OwedEndsKept(w)
    BY <2>4, OwedTask DEF OwedEndsKept
  <2> QED BY <2>1, <2>2, <2>3, <2>5, ThreadAlone
<1> QED BY <1>1, <1>2, <1>3

\* A call is new: what the workers hold belongs to others.
LEMMA BeginCallLoop ==
    ASSUME TInv, LoopInv, NEW k \in Calls, BeginCall(k)
    PROVE  LoopInv'
<1>1. /\ UNCHANGED <<workerVars, looping, leaving>>
      /\ at = "free" /\ at' = "sending" /\ call' = k /\ next' = 1
      /\ looping = 0 \/ KindOf[k] = "control"
      /\ \A w \in Workers : future[<<k, w>>] = "none"
  BY DEF BeginCall, Free
<1> USE DEF workerVars
<1>2. Phases' /\ \A w \in Workers : Owed(w)' = Owed(w)
  BY <1>1, WorkersAssumption DEF LoopInv, Phases, Owed, Workers
<1>3. LeaversLoop'
  <2> SUFFICES ASSUME NEW w \in leaving, Up(w)
               PROVE  \E t \in Tasks :
                        /\ current[w] = <<t>> /\ IsLoop(t) /\ t[2] = w
                        /\ SwapOnlySteps \/ t # <<looping, w>>
                        /\ t # <<k, w>>
    BY <1>1 DEF LeaversLoop, Up, IsLoop
  <2>1. PICK t \in Tasks : /\ current[w] = <<t>> /\ IsLoop(t) /\ t[2] = w
                           /\ SwapOnlySteps \/ t # <<looping, w>>
    BY DEF LoopInv, LeaversLoop
  <2>2. w \in Workers /\ Held(w, t)
    BY <2>1 DEF LoopInv, Held, Range
  <2>3. future[t] # "none" /\ future[<<k, w>>] = "none"
    BY <1>1, <2>2 DEF LoopInv, Submitted, Put
  <2> QED BY <2>1, <2>3
<1>4. /\ \A w \in Workers : OwedEndsKept(w)
      /\ \A t \in Tasks : Put(t) => Put(t)'
  BY <1>1, SameEnds DEF Put
<1> QED BY <1>1, <1>2, <1>3, <1>4, ThreadAlone

\* A refused task ends a call: before its worker all queues are closed.
LEMMA RefusedLoop ==
    ASSUME TInv, LoopInv, SendPut, next \in shut
    PROVE  LoopInv'
<1>1. /\ UNCHANGED <<taskQueue, shut, process, current, leaving, looping, call, results>>
      /\ at = "putting" /\ at' = "free" /\ call \in Calls /\ next \in Workers
      /\ <<call, next>> \in Tasks /\ WorkerOf[<<call, next>>] = next
      /\ SetFuture(<<call, next>>, "refused") /\ future[<<call, next>>] = "registered"
  BY ExecutorAssumption DEF SendPut, PutTask, TInv, IInv, CallKnown
<1>2. ShutPrefix' /\ Phases'
  BY <1>1 DEF LoopInv, ShutPrefix, Phases
<1>3. \A t \in Tasks : /\ Put(t) => Put(t)'
                       /\ \A v \in {"value", "error"} : future'[t] = v <=> future[t] = v
  BY <1>1 DEF SetFuture, TInv, IInv, WorkersType, Put
<1>7. \A w \in Workers : OwedEndsKept(w)
  <2>1. \A t \in Tasks : EndsKept(t)
    BY <1>1, <1>3 DEF EndsKept, Ended
  <2> QED BY <2>1, OwedTask DEF OwedEndsKept
<1>4. Submitted'
  BY <1>1, <1>3 DEF LoopInv, Submitted, Held, Sent
<1>5. LeaversLoop'
  BY <1>1, SameLeavers DEF LoopInv
<1>6. ASSUME NEW w \in Workers
      PROVE  LoopKept(w)'
  <2>1. CASE w < next
    <3>1. w \in shut
      BY <2>1, <1>1 DEF LoopInv, ShutPrefix
    <3> QED BY <1>1, <3>1 DEF LoopKept
  <2>2. CASE ~(w < next)
    <3>1. Owed(w)' = Owed(w)
      BY <1>1, <2>2 DEF Owed
    <3> QED BY <1>1, <1>7, <3>1, SameHands DEF LoopInv, Up
  <2> QED BY <2>1, <2>2
<1> QED BY <1>1, <1>2, <1>4, <1>5, <1>6 DEF LoopInv

\* Putting a task into a worker's queue keeps that order.
LEMMA SendPutLoop ==
    ASSUME TInv, LoopInv, SendPut, next \notin shut,
           NEW k \in Calls, k = call, NEW n \in Workers, n = next
    PROVE  LoopInv'
<1> DEFINE t == <<k, n>>
           Q == Seq(Tasks \cup {Terminate})
<1>1. /\ UNCHANGED <<shut, process, current, leaving, call, results>>
      /\ at = "putting" /\ k = call /\ n = next /\ future[t] = "registered"
      /\ t \in Tasks /\ WorkerOf[t] = n
      /\ future' = [future EXCEPT ![t] = "pending"]
      /\ taskQueue' = [taskQueue EXCEPT ![n] = Append(taskQueue[n], t)]
  BY ExecutorAssumption DEF SendPut, PutTask, SetFuture, TInv, IInv, CallKnown
<1>2. /\ n # NumWorkers => at' = "sending" /\ next' = n + 1 /\ looping' = looping
      /\ n = NumWorkers /\ KindOf[k] = "loop" => at' = "driving" /\ looping' = k
      /\ n = NumWorkers /\ KindOf[k] # "loop" => at' = "waiting" /\ looping' = looping
  BY <1>1 DEF SendPut
<1>3. /\ taskQueue \in [Workers -> Q] /\ current \in [Workers -> Seq(Tasks)]
      /\ future \in [Tasks -> Futures]
  BY DEF TInv, IInv, WorkersType
<1>4. /\ taskQueue'[n] = Append(taskQueue[n], t)
      /\ \A w \in Workers \ {n} : taskQueue'[w] = taskQueue[w]
      /\ future'[t] = "pending" /\ \A u \in Tasks \ {t} : future'[u] = future[u]
  <2> HIDE DEF t, Q
  <2> QED BY <1>1, <1>3
<1>5. k # 0 /\ (KindOf[k] = "loop" \/ KindOf[k] = "control")
  BY <1>1, ExecutorAssumption DEF Calls
<1>6. /\ looping = 0 \/ KindOf[k] = "control"
      /\ looping # 0 => looping \in Calls /\ KindOf[looping] = "loop"
  BY <1>1 DEF LoopInv, Phases
<1>7. Phases'
  BY <1>1, <1>2, <1>5, <1>6 DEF Phases
<1>14. ~Sent(t) /\ \A v \in {"value", "error"} : ~Ended(t, v) /\ ~Ended(t, v)'
  <2>1. ~Held(n, t)
    BY <1>1 DEF LoopInv, Submitted, Put
  <2>2. ~Sent(t)
    BY <1>1, <2>1 DEF Held
  <2>3. Range(results) = ToSet(results)
    BY DEF Range, ToSet
  <2> HIDE DEF t
  <2> QED BY <1>1, <1>4, <2>2, <2>3 DEF Sent, Ended
<1>15. /\ \A u \in Tasks : Put(u) => Put(u)'
       /\ \A w \in Workers : OwedEndsKept(w)
  <2>1. \A u \in Tasks \ {t} : (Put(u) => Put(u)') /\ EndsKept(u)
    BY <1>1, <1>4 DEF Put, EndsKept, Ended
  <2>2. (Put(t) => Put(t)') /\ EndsKept(t)
    <3> HIDE DEF t
    <3> QED BY <1>4, <1>14 DEF Put, EndsKept
  <2> HIDE DEF t
  <2>3. \A u \in Tasks : EndsKept(u) /\ (Put(u) => Put(u)')
    BY <2>1, <2>2
  <2> QED BY <2>3, OwedTask DEF OwedEndsKept
<1>8. Submitted'
  <2> SUFFICES ASSUME NEW w \in Workers, NEW u \in Tasks, Held(w, u)'
               PROVE  Put(u)'
    BY DEF Submitted
  <2>1. \A x \in Range(Append(taskQueue[n], t)) : x \in Range(taskQueue[n]) \/ x = t
    <3>1. taskQueue[n] \in Q /\ t \in Tasks \cup {Terminate}
      BY <1>1, <1>3
    <3> HIDE DEF t
    <3> QED BY <3>1, SequenceRanges
  <2>2. u = t \/ Held(w, u)
    <3> HIDE DEF t
    <3>1. CASE w = n
      BY <1>1, <1>4, <2>1, <3>1 DEF Held, Sent
    <3>2. CASE w # n
      BY <1>1, <1>4, <3>2 DEF Held, Sent
    <3> QED BY <3>1, <3>2
  <2>3. Held(w, u) => Put(u)
    BY DEF LoopInv, Submitted
  <2> HIDE DEF t
  <2>4. Put(t)'
    BY <1>4 DEF Put
  <2> QED BY <1>15, <2>2, <2>3, <2>4
<1>9. LeaversLoop'
  <2> SUFFICES ASSUME NEW w \in leaving, Up(w)
               PROVE  \E u \in Tasks :
                        /\ current[w] = <<u>> /\ IsLoop(u) /\ u[2] = w
                        /\ SwapOnlySteps \/ u # <<looping', w>>
                        /\ at' \in {"sending", "putting"} => u # <<call', w>>
    BY <1>1 DEF LeaversLoop, Up, IsLoop
  <2>1. PICK u \in Tasks : /\ current[w] = <<u>> /\ IsLoop(u) /\ u[2] = w
                           /\ SwapOnlySteps \/ u # <<looping, w>>
                           /\ u # <<k, w>>
    BY <1>1 DEF LoopInv, LeaversLoop
  <2>2. looping' = looping \/ looping' = k
    BY <1>2, <1>5
  <2>3. (SwapOnlySteps \/ u # <<looping', w>>) /\ u # <<call', w>>
    BY <1>1, <2>1, <2>2
  <2> QED BY <1>1, <2>1, <2>3
<1>10. ASSUME NEW w \in Workers \ {n}
       PROVE  LoopKept(w)'
  <2>1. Owed(w)' = Owed(w)
    <3>1. CASE KindOf[k] = "loop"
      <4>1. n # NumWorkers => (w < n + 1 <=> w < n)
        BY <1>1, WorkersAssumption DEF Workers
      <4>2. n = NumWorkers => w < n
        BY <1>1, WorkersAssumption DEF Workers
      <4> QED BY <1>1, <1>2, <1>5, <1>6, <3>1, <4>1, <4>2 DEF Owed
    <3>2. CASE KindOf[k] = "control"
      BY <1>1, <1>2, <1>6, <3>2 DEF Owed
    <3> QED BY <1>5, <3>1, <3>2
  <2> QED BY <1>1, <1>4, <1>15, <2>1, SameHands DEF LoopInv, Up
<1>11. LoopKept(n)'
  <2> SUFFICES ASSUME Up(n)
               PROVE  LoopKept(n)'
    BY <1>1 DEF LoopKept, Up
  <2>1. LoopKept(n)
    BY <1>1 DEF LoopInv
  <2>2. ControlOnly(current[n])' = ControlOnly(current[n])
    BY <1>1 DEF ControlOnly, IsControl
  <2>3. CASE KindOf[k] = "loop"
    <3>1. Owed(n) = 0
      BY <1>1, <1>5, <1>6, <2>3, WorkersAssumption DEF Owed, Workers
    <3>2. NoLoop(n)
      BY <2>1, <3>1 DEF LoopKept
    <3>3. OneLoopIn(Append(taskQueue[n], t), t)
      <4>1. t \in Tasks \cup {Terminate} /\ taskQueue[n] \in Q /\ ControlOnly(taskQueue[n])
        BY <1>1, <1>3, <3>2 DEF NoLoop
      <4> HIDE DEF t
      <4> QED BY <4>1, PutIntoQueue
    <3>4. OneLoopIn(taskQueue[n], t)'
      <4>1. OneLoopIn(taskQueue'[n], t)
        BY <1>4, <3>3
      <4> QED BY <4>1 DEF OneLoopIn, IsControl
    <3>5. OneLoop(n, k)'
      BY <1>1, <2>2, <3>2, <3>4 DEF NoLoop, OneLoop
    <3>6. Owed(n)' = k
      BY <1>1, <1>2, <1>5, <1>6, <2>3, WorkersAssumption DEF Owed, Workers
    <3>7. Untold(k, n)'
      BY <1>14 DEF Untold
    <3>8. LoopOrLeft(n, k)'
      BY <3>5, <3>7 DEF LoopOrLeft
    <3> QED BY <1>5, <3>6, <3>8 DEF LoopKept
  <2>4. CASE KindOf[k] = "control"
    <3>1. Owed(n)' = looping /\ Owed(n) = looping /\ looping' = looping
      BY <1>1, <1>2, <2>4 DEF Owed
    <3>2. IsControl(t) /\ t \in Tasks \cup {Terminate}
      BY <1>1, <2>4 DEF IsControl
    <3>3. /\ ControlOnly(taskQueue[n]) => ControlOnly(Append(taskQueue[n], t))
          /\ \A u : OneLoopIn(taskQueue[n], u) => OneLoopIn(Append(taskQueue[n], t), u)
      <4>1. taskQueue[n] \in Q
        BY <1>1, <1>3
      <4> HIDE DEF t
      <4> QED BY <3>2, <4>1, PutIntoQueue
    <3>4. /\ ControlOnly(taskQueue[n]) => ControlOnly(taskQueue[n])'
          /\ \A u : OneLoopIn(taskQueue[n], u) => OneLoopIn(Append(taskQueue[n], t), u)
      BY <1>4, <3>3 DEF ControlOnly, IsControl
    <3>5. CASE looping = 0
      <4>1. NoLoop(n)
        BY <2>1, <3>1, <3>5 DEF LoopKept
      <4> QED BY <1>1, <2>2, <3>1, <3>4, <3>5, <4>1 DEF LoopKept, NoLoop
    <3>6. CASE looping # 0
      <4> PICK o : o = looping
        OBVIOUS
      <4>1. LoopOrLeft(n, o) /\ OwedEndsKept(n) /\ o = Owed(n) /\ o # 0
        BY <1>1, <1>15, <2>1, <3>1, <3>6 DEF LoopKept
      <4>2. OneLoopIn(taskQueue[n], <<o, n>>) => OneLoopIn(taskQueue[n], <<o, n>>)'
        <5>1. OneLoopIn(taskQueue[n], <<o, n>>) => OneLoopIn(taskQueue'[n], <<o, n>>)
          BY <1>4, <3>4
        <5> QED BY <5>1 DEF OneLoopIn, IsControl
      <4>3. OneLoop(n, o) => OneLoop(n, o)'
        BY <1>1, <2>2, <3>4, <4>2 DEF OneLoop
      <4>4. NoLoop(n) => NoLoop(n)'
        BY <1>1, <2>2, <3>4 DEF NoLoop
      <4>5. EndsKept(<<o, n>>)
        BY <4>1 DEF OwedEndsKept
      <4>6. (Untold(o, n) => Untold(o, n)') /\ (Untold(o, n) /\ LeftLoop(o, n) => LeftLoop(o, n)')
        BY <4>5 DEF Untold, LeftLoop, EndsKept
      <4>7. LoopOrLeft(n, o)'
        BY <4>1, <4>3, <4>4, <4>6 DEF LoopOrLeft
      <4> QED BY <3>1, <3>6, <4>7 DEF LoopKept
    <3> QED BY <3>5, <3>6
  <2> QED BY <1>5, <2>3, <2>4
<1>12. ShutPrefix' /\ leaving' \subseteq Workers
  BY <1>1 DEF LoopInv, ShutPrefix
<1>13. \A w \in Workers : LoopKept(w)'
  BY <1>10, <1>11
<1> QED BY <1>7, <1>8, <1>9, <1>12, <1>13 DEF LoopInv

\* All are in the loop that the driver ends: each is told to leave it, and owes none.
LEMMA BroadcastStopLoop ==
    ASSUME TInv, LoopInv, BroadcastStop
    PROVE  LoopInv'
<1>1. /\ UNCHANGED workerVars /\ at = "stopping" /\ at' = "waiting"
      /\ looping' = 0 /\ leaving' = Workers /\ \A w \in Workers : InLoop(w)
  BY DEF BroadcastStop
<1> USE DEF workerVars
<1>2. looping # 0
  BY <1>1 DEF LoopInv, Phases
<1>3. ASSUME NEW w \in Workers
      PROVE  /\ <<looping, w>> \in Tasks /\ IsLoop(<<looping, w>>)
             /\ current[w] = <<<<looping, w>>>>
             /\ w \notin shut => ControlOnly(taskQueue[w])
  BY <1>1, <1>2, InTheLoop
<1>4. LeaversLoop'
  <2> SUFFICES ASSUME NEW w \in Workers
               PROVE  \E t \in Tasks : /\ current[w] = <<t>> /\ IsLoop(t) /\ t[2] = w
                                       /\ t # <<0, w>>
    BY <1>1 DEF LeaversLoop, IsLoop
  <2> QED BY <1>2, <1>3
<1>5. ASSUME NEW w \in Workers
      PROVE  LoopKept(w)'
  <2> SUFFICES ASSUME Up(w), w \notin shut
               PROVE  NoLoop(w)'
    BY <1>1 DEF LoopKept, Up, Owed
  <2>1. ControlOnly(taskQueue[w])
    BY <1>3
  <2> QED BY <1>1, <2>1 DEF NoLoop, ControlOnly, IsControl
<1>6. ShutPrefix' /\ Phases' /\ leaving' \subseteq Workers
  BY <1>1 DEF LoopInv, ShutPrefix, Phases
<1>7. Submitted'
  BY <1>1 DEF LoopInv, Submitted, Held, Sent, Put
<1> QED BY <1>4, <1>5, <1>6, <1>7 DEF LoopInv

\* The loop's method ends on a worker: when it was told so, or with an exception.
LEMMA LoopEndsLoop ==
    ASSUME TInv, LoopInv, NEW w \in Workers, LeaveLoop(w) \/ LoopRaises(w)
    PROVE  LoopInv'
<1> PICK outcome \in {"value", "error"} :
      /\ FinishTask(w, outcome)
      /\ outcome = "value" => w \in leaving
      /\ outcome = "error" => ToSet(current[w]) \cap Endless # {}
  BY DEF LeaveLoop, LoopRaises
<1>1. /\ current' = [current EXCEPT ![w] = <<>>] /\ current \in [Workers -> Seq(Tasks)]
      /\ UNCHANGED <<future, taskQueue, shut, process, at, call, next, looping>>
      /\ leaving' = leaving \ {w} /\ Up(w) /\ current[w] # <<>> /\ WorkersType
  BY DEF LeaveLoop, LoopRaises, FinishTask, TInv, IInv, WorkersType
<1>2. current'[w] = <<>> /\ \A v \in Workers \ {w} : current'[v] = current[v]
  BY <1>1
<1> PICK u : u = Head(current[w])
  OBVIOUS
<1>3. /\ u \in Tasks /\ u \in Range(current[w])
      /\ \A t, v : Ended(t, v)' <=> Ended(t, v) \/ (t = u /\ v = outcome)
      /\ \A t : Sent(t)' <=> Sent(t) \/ t = u
  BY <1>1, FinishedIsSent
<1>4. current[w] = <<u>> /\ IsLoop(u)
  <2>1. current[w] \in Seq(Tasks) /\ Len(current[w]) <= 1
    BY <1>1 DEF TInv, HandTypes
  <2>2. current[w] = <<u>>
    BY <1>1, <2>1
  <2>3. outcome = "value" => IsLoop(u)
    BY <1>1, <2>2 DEF LoopInv, LeaversLoop
  <2>4. ToSet(current[w]) = {u}
    BY <2>2 DEF ToSet
  <2>5. outcome = "error" => IsLoop(u)
    BY <1>3, <2>4, Kinds
  <2> QED BY <2>2, <2>3, <2>5
<1>5. ShutPrefix' /\ Phases' /\ leaving' \subseteq Workers
  BY <1>1 DEF LoopInv, ShutPrefix, Phases
<1>6. Submitted'
  <2> SUFFICES ASSUME NEW v \in Workers, NEW t \in Tasks, Held(v, t)'
               PROVE  Put(t)'
    BY DEF Submitted
  <2>1. Held(v, t) \/ Held(w, t)
    BY <1>1, <1>2, <1>3 DEF Held, Range
  <2> QED BY <1>1, <2>1 DEF LoopInv, Submitted, Put
<1>7. LeaversLoop'
  <2> SUFFICES ASSUME NEW v \in leaving \ {w}, Up(v)
               PROVE  \E t \in Tasks :
                        /\ current'[v] = <<t>> /\ IsLoop(t) /\ t[2] = v
                        /\ SwapOnlySteps \/ t # <<looping, v>>
                        /\ at \in {"sending", "putting"} => t # <<call, v>>
    BY <1>1 DEF LeaversLoop, Up, IsLoop
  <2>1. current'[v] = current[v]
    BY <1>2 DEF LoopInv
  <2> QED BY <2>1 DEF LoopInv, LeaversLoop
<1>8. \A v \in Workers : Owed(v)' = Owed(v)
  BY <1>1 DEF Owed
<1>9. ASSUME outcome = "value", NEW v \in Workers, NEW k, k = Owed(v), k # 0, ~SwapOnlySteps
      PROVE  u # <<k, v>>
  <2>1. current[w] = <<u>> /\ u[2] = w /\ u # <<looping, w>>
        /\ (at \in {"sending", "putting"} => u # <<call, w>>)
    <3>1. w \in leaving /\ Up(w)
      BY <1>1, <1>9
    <3>2. PICK t \in Tasks :
            /\ current[w] = <<t>> /\ t[2] = w /\ t # <<looping, w>>
            /\ at \in {"sending", "putting"} => t # <<call, w>>
      BY <1>9, <3>1 DEF LoopInv, LeaversLoop
    <3>3. t = u
      BY <1>4, <3>2
    <3> QED BY <3>2, <3>3
  <2> QED BY <1>9, <2>1 DEF Owed
<1>10. ASSUME NEW v \in Workers, NEW k, k = Owed(v), k # 0
       PROVE  /\ Untold(k, v) => Untold(k, v)'
              /\ LeftLoop(k, v) => LeftLoop(k, v)'
  BY <1>3, <1>9, <1>10 DEF Untold, LeftLoop
<1>11. ASSUME NEW v \in Workers \ {w}
       PROVE  LoopKept(v)'
  <2> SUFFICES ASSUME Up(v), v \notin shut, LoopKept(v)
               PROVE  LoopKept(v)'
    BY <1>1 DEF LoopInv, LoopKept, Up
  <2>1. current'[v] = current[v] /\ (v \in leaving' <=> v \in leaving)
    BY <1>1, <1>2
  <2>2. NoLoop(v) => NoLoop(v)'
    BY <1>1, <2>1 DEF NoLoop, ControlOnly, IsControl
  <2>3. CASE Owed(v) = 0
    BY <1>8, <2>2, <2>3 DEF LoopKept
  <2>4. CASE Owed(v) # 0
    <3> PICK o : o = Owed(v)
      OBVIOUS
    <3>1. OneLoop(v, o) => OneLoop(v, o)'
      BY <1>1, <2>1 DEF OneLoop, ControlOnly, OneLoopIn, IsControl
    <3>2. LoopOrLeft(v, o)
      BY <2>4 DEF LoopKept
    <3>3. LoopOrLeft(v, o)' /\ o = Owed(v)'
      BY <1>8, <1>10, <2>2, <2>4, <3>1, <3>2 DEF LoopOrLeft
    <3> QED BY <2>4, <3>3 DEF LoopKept
  <2> QED BY <2>3, <2>4
<1>12. LoopKept(w)'
  <2> SUFFICES ASSUME w \notin shut
               PROVE  LoopKept(w)'
    BY <1>1 DEF LoopKept
  <2>1. LoopKept(w)
    BY DEF LoopInv
  <2>2. ControlOnly(current[w])'
    BY <1>2 DEF ControlOnly
  <2>3. ControlOnly(taskQueue[w]) => NoLoop(w)'
    BY <1>1, <2>2 DEF NoLoop, ControlOnly, IsControl
  <2>4. CASE Owed(w) = 0
    BY <1>1, <1>8, <2>1, <2>3, <2>4 DEF LoopKept, NoLoop
  <2>5. CASE Owed(w) # 0
    <3> PICK o : o = Owed(w)
      OBVIOUS
    <3>1. LoopOrLeft(w, o)
      BY <1>1, <2>1, <2>5 DEF LoopKept
    <3>2. ASSUME current[w] = <<<<o, w>>>>, ControlOnly(taskQueue[w])
          PROVE  NoLoop(w)' /\ LeftLoop(o, w)'
      <4>1. u = <<o, w>>
        BY <1>4, <3>2
      <4>2. outcome = "value" => SwapOnlySteps
        BY <1>9, <2>5, <4>1
      <4>3. Ended(<<o, w>>, outcome)'
        BY <1>3, <4>1
      <4> QED BY <2>3, <3>2, <4>2, <4>3 DEF LeftLoop
    <3>3. ASSUME OneLoopIn(taskQueue[w], <<o, w>>)
          PROVE  OneLoop(w, o)'
      <4>1. OneLoopIn(taskQueue[w], <<o, w>>)'
        BY <1>1, <3>3 DEF OneLoopIn, IsControl
      <4> QED BY <2>2, <4>1 DEF OneLoop
    <3>4. NoLoop(w) => ControlOnly(taskQueue[w])
      BY DEF NoLoop
    <3>5. OneLoop(w, o) => \/ current[w] = <<<<o, w>>>> /\ ControlOnly(taskQueue[w])
                           \/ OneLoopIn(taskQueue[w], <<o, w>>)
      BY DEF OneLoop
    <3>6. LoopOrLeft(w, o)'
      BY <1>10, <2>3, <2>5, <3>1, <3>2, <3>3, <3>4, <3>5 DEF LoopOrLeft
    <3> QED BY <1>8, <2>5, <3>6 DEF LoopKept
  <2> QED BY <2>4, <2>5
<1>13. \A v \in Workers : LoopKept(v)'
  BY <1>11, <1>12
<1> QED BY <1>5, <1>6, <1>7, <1>13 DEF LoopInv

\* Every step keeps that order.
LEMMA StepLoop ==
    ASSUME TInv, LoopInv, [Next]_vars
    PROVE  LoopInv'
<1>1. CASE SendPut
  <2>1. call \in Calls /\ next \in Workers
    BY <1>1 DEF SendPut, TInv, IInv, CallKnown
  <2>2. next \notin shut => LoopInv'
    BY <1>1, <2>1, SendPutLoop
  <2> QED BY <1>1, <2>2, RefusedLoop
<1>2. ASSUME NEW k \in Calls, BeginCall(k)
      PROVE  LoopInv'
  BY <1>2, BeginCallLoop
<1>3. ASSUME NEW w \in Workers, LeaveLoop(w) \/ LoopRaises(w)
      PROVE  LoopInv'
  BY <1>3, LoopEndsLoop
<1>4. CASE (WorkStep \/ \E w \in Workers : WorkerDies(w)) /\ UNCHANGED executorVars
  BY <1>4, WorkLoop
<1> QED BY <1>1, <1>2, <1>3, <1>4, ThreadLoop, DriveLoop, BroadcastStopLoop DEF Next, EngineStep

\* The invariant says where the loop's task is; what is ahead of it are control tasks.
LEMMA OwedIsReached == TInv /\ LoopInv => LoopReached
<1> SUFFICES ASSUME TInv, LoopInv, at \in {"driving", "stopping"}, NEW w \in Workers,
                    Up(w), w \notin shut, ~LeftLoop(looping, w)
             PROVE  \E i \in DOMAIN (current[w] \o taskQueue[w]) :
                      /\ (current[w] \o taskQueue[w])[i] = <<looping, w>>
                      /\ \A j \in 1 .. i - 1 :
                           \/ KindOf[(current[w] \o taskQueue[w])[j][1]] = "control"
                           \/ w \in leaving
  BY DEF LoopReached
<1> DEFINE c == current[w]
           q == taskQueue[w]
           ahead == c \o q
           t == <<looping, w>>
<1>1. /\ c \in Seq(Tasks) /\ q \in Seq(Tasks \cup {Terminate})
      /\ OneLoop(w, looping)
  <2>1. looping # 0 /\ Owed(w) = looping
    BY DEF LoopInv, Phases, Owed
  <2>2. LoopOrLeft(w, looping)
    BY <2>1 DEF LoopInv, LoopKept
  <2> QED BY <2>2 DEF TInv, IInv, WorkersType, LoopOrLeft
<1>2. \/ c = <<t>>
      \/ (w \in leaving \/ ControlOnly(c)) /\ OneLoopIn(q, t)
  BY <1>1 DEF OneLoop
<1> HIDE DEF c, q, t
<1>3. /\ DOMAIN c = 1 .. Len(c) /\ DOMAIN q = 1 .. Len(q) /\ Len(c) \in Nat /\ Len(q) \in Nat
      /\ DOMAIN ahead = 1 .. Len(c) + Len(q)
      /\ \A j \in DOMAIN c : ahead[j] = c[j]
      /\ \A j \in DOMAIN q : ahead[Len(c) + j] = q[j]
  BY <1>1
<1> HIDE DEF ahead
<1>4. CASE c = <<t>>
  <2>1. Len(c) = 1 /\ c[1] = t
    BY <1>4
  <2>2. 1 \in DOMAIN ahead /\ ahead[1] = t
    BY <1>3, <2>1
  <2>3. \A j \in 1 .. 1 - 1 : KindOf[ahead[j][1]] = "control" \/ w \in leaving
    OBVIOUS
  <2>4. \E i \in DOMAIN ahead :
          /\ ahead[i] = t
          /\ \A j \in 1 .. i - 1 : KindOf[ahead[j][1]] = "control" \/ w \in leaving
    BY <2>2, <2>3
  <2> QED BY <2>4 DEF ahead, c, q, t
<1>5. CASE (w \in leaving \/ ControlOnly(c)) /\ OneLoopIn(q, t)
  <2>1. PICK i \in DOMAIN q : q[i] = t /\ \A j \in DOMAIN q \ {i} : IsControl(q[j])
    BY <1>5 DEF OneLoopIn
  <2> DEFINE n == Len(c) + i
  <2>2. n \in DOMAIN ahead /\ ahead[n] = t
    BY <1>3, <2>1
  <2>3. ASSUME NEW j \in 1 .. n - 1, w \notin leaving
        PROVE  KindOf[ahead[j][1]] = "control"
    <3>1. CASE j \in DOMAIN c
      BY <1>3, <1>5, <2>3, <3>1 DEF ControlOnly, IsControl
    <3>2. CASE j \notin DOMAIN c
      <4>1. j - Len(c) \in DOMAIN q \ {i} /\ j = Len(c) + (j - Len(c))
        BY <1>3, <3>2
      <4>2. ahead[j] = q[j - Len(c)]
        BY <1>3, <4>1
      <4> QED BY <2>1, <4>1, <4>2 DEF IsControl
    <3> QED BY <3>1, <3>2
  <2> HIDE DEF n
  <2>4. \A j \in 1 .. n - 1 : KindOf[ahead[j][1]] = "control" \/ w \in leaving
    BY <2>3
  <2> QED BY <2>2, <2>4 DEF ahead, c, q, t
<1> QED BY <1>2, <1>4, <1>5

\* The driver never meets the workers while one of them that lives and can be reached is
\* out of the loop, unless the loop's method raised on it or a step without groups ended it.
THEOREM LoopIsReached == Spec => []LoopReached
<1> DEFINE I == TInv /\ LoopInv
<1>1. Init => I
  BY InitInv, InitTypes, InitLoop DEF TInv, Unanswered, Init, WorkersInit
<1>2. I /\ [Next]_vars => I'
  BY StepInv, StepTypes, StepUnanswered, StepLoop DEF TInv
<1>3. I => LoopReached
  BY OwedIsReached
<1> HIDE DEF I
<1> QED BY <1>1, <1>2, <1>3, PTL DEF Spec

=============================================================================
