---------------------------- MODULE AsyncEngine ----------------------------
(***************************************************************************)
(* The asynchronous engine (src/vllm/engine/async_llm_engine.py): clients, *)
(* the request tracker with a stream per request, and the background loop  *)
(* that steps the engine.                                                  *)
(*                                                                         *)
(* All of it runs on one event loop: an action is what one task does from  *)
(* one await to the next.  The engine behind it is reduced to the groups   *)
(* it holds, each with the number of outputs it made; a step makes one for *)
(* each group it schedules.  Its failures are exceptions of schedule() or  *)
(* of the execution, and the timeout of an iteration.  (No Ray.)           *)
(***************************************************************************)
EXTENDS Naturals, SequencesExt, FiniteSets

CONSTANTS
    Clients,        \* calls of generate()
    IdOf,           \* [Clients -> request ids]
    MaxOutputs,     \* bound: outputs of a request
    Failures,       \* what may fail: any of "step", "timeout", "invalid"
    EngineYields    \* a step schedules something whenever there are requests

ASSUME AsyncAssumption ==
    /\ IsFiniteSet(Clients)
    /\ DOMAIN IdOf = Clients
    /\ MaxOutputs \in Nat \ {0}
    /\ Failures \subseteq {"step", "timeout", "invalid"}
    /\ EngineYields \in BOOLEAN

Ids == Range(IdOf)

VARIABLES
    client,     \* where each client is
    got,        \* the number of the last output each client received
    whole,      \* ... which was the last of its request
    asked,      \* history: abort() was called for its request
    queue,      \* AsyncStream._queue of each client
    closed,     \* AsyncStream._finished of each client
    tracker,    \* the request tracker
    groups,     \* the clients whose group the engine holds
    made,       \* outputs made for each client
    scheduled,  \* groups of the step under way
    loop,       \* the background task
    progress,   \* has_requests_in_progress
    callback,   \* its done callback has yet to run
    errored,    \* _errored_with is set
    loops       \* history: background tasks started

vars == <<client, got, whole, asked, queue, closed, tracker, groups, made,
          scheduled, loop, progress, callback, errored, loops>>

clientVars == <<client, got, whole, asked>>
engineVars == <<groups, made, scheduled>>
loopVars == <<loop, progress, callback, errored, loops>>

NewTracker == [streams |-> <<>>, new |-> <<>>, finished |-> {}, event |-> FALSE]

Init ==
    /\ client = [c \in Clients |-> "out"]
    /\ got = [c \in Clients |-> 0]
    /\ whole = [c \in Clients |-> FALSE]
    /\ asked = [c \in Clients |-> FALSE]
    /\ queue = [c \in Clients |-> <<>>]
    /\ closed = [c \in Clients |-> FALSE]
    /\ tracker = NewTracker
    /\ groups = {}
    /\ made = [c \in Clients |-> 0]
    /\ scheduled = {}
    /\ loop = "none"
    /\ progress = FALSE
    /\ callback = FALSE
    /\ errored = FALSE
    /\ loops = 0

-----------------------------------------------------------------------------
(* Streams and tracker.  One value holds both, [queue, closed, tracker]:   *)
(* the tracker's operations take it and return it.                         *)

State == [queue |-> queue, closed |-> closed, tracker |-> tracker]

\* The next state; a stream that nobody will read any more is left empty.
Become(t) ==
    /\ queue' = [c \in Clients |-> IF client'[c] = "streaming" THEN t.queue[c]
                                                              ELSE <<>>]
    /\ closed' = t.closed
    /\ tracker' = t.tracker

BugOutput(n, last) == [kind |-> IF last THEN "last" ELSE "output", number |-> n + 1]

Output(n, last) == [kind |-> IF last THEN "last" ELSE "output", number |-> n]
Exception == [kind |-> "exception", number |-> 0]
Stop == [kind |-> "stop", number |-> 0]

BugPut(t, c, item) ==
    IF t.closed[c] THEN t ELSE [t EXCEPT !.queue[c] = <<item>> \o @]

\* AsyncStream.put
Put(t, c, item) ==
    IF t.closed[c] THEN t ELSE [t EXCEPT !.queue[c] = Append(@, item)]

\* AsyncStream.finish
Finish(t, c) ==
    [t EXCEPT !.queue[c] = Append(@, Stop), !.closed[c] = TRUE]

Registered(t, id) == id \in DOMAIN t.tracker.streams

\* The stream of a registered request.
StreamOf(t, id) == t.tracker.streams[id]

BugAbortRequest(t, id) ==
    IF ~Registered(t, id) \/ t.closed[StreamOf(t, id)]
    THEN [t EXCEPT !.tracker.finished = @ \cup {id}]
    ELSE Finish(t, StreamOf(t, id))

AbortRequest(t, id) ==
    LET u == [t EXCEPT !.tracker.finished = @ \cup {id}]
    IN  IF ~Registered(u, id) \/ u.closed[StreamOf(u, id)]
        THEN u
        ELSE Finish(u, StreamOf(u, id))

BugProcessOutput(t, id, item) ==
    LET u == IF item.kind = "last" THEN AbortRequest(t, id) ELSE t
    IN  Put(u, StreamOf(u, id), item)

\* process_request_output, and process_exception.
ProcessOutput(t, id, item) ==
    LET u == Put(t, StreamOf(t, id), item)
    IN  IF item.kind = "output" THEN u ELSE AbortRequest(u, id)

\* The outputs, or exceptions, of the clients of S, each put into the stream that
\* its id is registered with.
ProcessOutputs(t, S, items) ==
    FoldSet(LAMBDA c, u : ProcessOutput(u, IdOf[c], items[c]), t, S)

\* The new requests that are registered.
Admitted(t) == {c \in ToSet(t.tracker.new) : IdOf[c] \notin t.tracker.finished}

\* ... and the streams then: of two new requests with one id the later takes the
\* place of the other.
Register(t, kept) ==
    LET new == t.tracker.new
        ids == {IdOf[c] : c \in Admitted(t)}
        Latest(id) == new[Max({i \in DOMAIN new : IdOf[new[i]] = id})]
    IN  [id \in kept \cup ids |-> IF id \in ids THEN Latest(id) ELSE StreamOf(t, id)]

BugDrain(t) ==
    [t EXCEPT !.tracker.streams =
                 LET all == Register(t, DOMAIN @)
                 IN  [id \in DOMAIN all \ t.tracker.finished |-> all[id]],
              !.tracker.new = <<>>,
              !.tracker.finished = {}]

\* get_new_and_finished_requests: streams of finished requests are forgotten,
\* new requests registered unless they are already finished.
Drain(t) ==
    LET ended == t.tracker.finished
        rejected == ToSet(t.tracker.new) \ Admitted(t)
    IN  [queue   |-> [c \in Clients |-> IF c \in rejected THEN Append(t.queue[c], Stop)
                                                          ELSE t.queue[c]],
         closed  |-> [c \in Clients |-> t.closed[c] \/ c \in rejected],
         tracker |-> [t.tracker EXCEPT !.streams = Register(t, DOMAIN @ \ ended),
                                       !.new = <<>>,
                                       !.finished = {}]]

BugPropagateException(t) ==
    [t EXCEPT !.queue = [c \in Clients |-> IF c \in Range(t.tracker.streams) /\ ~t.closed[c]
                                           THEN Append(@[c], Exception) ELSE @[c]]]

\* propagate_exception(exc), to all.
PropagateException(t) ==
    ProcessOutputs(t, Range(t.tracker.streams), [c \in Clients |-> Exception])

-----------------------------------------------------------------------------
(* Clients. *)

IsRunning == loop \notin {"none", "ended"}

\* add_request up to the await of the tokenizer: the loop is started, with a
\* new tracker, unless it runs.
BeginRequest(c) ==
    /\ client[c] = "out"
    /\ client' = [client EXCEPT ![c] = IF IsRunning \/ ~errored THEN "encoding"
                                                                ELSE "refused"]
    /\ IF IsRunning \/ errored
       THEN UNCHANGED <<tracker, loopVars>>
       ELSE /\ tracker' = NewTracker
            /\ loop' = "turn"
            /\ progress' = FALSE
            /\ loops' = loops + 1
            /\ UNCHANGED <<callback, errored>>
    /\ UNCHANGED <<got, whole, asked, queue, closed, engineVars>>

\* The rest of add_request: RequestTracker.add_request.
AddRequest(c) ==
    /\ client[c] = "encoding"
    /\ IF Registered(State, IdOf[c])
       THEN /\ client' = [client EXCEPT ![c] = "refused"]
            /\ UNCHANGED tracker
       ELSE /\ client' = [client EXCEPT ![c] = "streaming"]
            /\ tracker' = [tracker EXCEPT !.new = Append(@, c), !.event = TRUE]
    /\ UNCHANGED <<got, whole, asked, queue, closed, engineVars, loopVars>>

\* process_request receives an output, or the end.
Receive(c) ==
    /\ client[c] = "streaming"
    /\ queue[c] # <<>>
    /\ Head(queue[c]).kind \in {"output", "last", "stop"}
    /\ queue' = [queue EXCEPT ![c] = Tail(@)]
    /\ IF Head(queue[c]).kind = "stop"
       THEN /\ client' = [client EXCEPT ![c] = "ended"]
            /\ UNCHANGED <<got, whole>>
       ELSE /\ got' = [got EXCEPT ![c] = Head(queue[c]).number]
            /\ whole' = [whole EXCEPT ![c] = Head(queue[c]).kind = "last"]
            /\ UNCHANGED client
    /\ UNCHANGED <<asked, closed, tracker, engineVars, loopVars>>

\* It receives an exception: the request is aborted, and the exception raised.
ReceiveException(c) ==
    /\ client[c] = "streaming"
    /\ queue[c] # <<>>
    /\ Head(queue[c]) = Exception
    /\ client' = [client EXCEPT ![c] = "failed"]
    /\ Become(AbortRequest([State EXCEPT !.queue[c] = Tail(@)], IdOf[c]))
    /\ UNCHANGED <<got, whole, asked, engineVars, loopVars>>

\* The client's task is cancelled where process_request, or the add_request in it,
\* waits.  (Wherever else it is cancelled it leaves.)
Cancel(c) ==
    /\ client[c] \in {"encoding", "streaming"}
    /\ client' = [client EXCEPT ![c] = "gone"]
    /\ IF client[c] = "streaming"
       THEN Become(AbortRequest(State, IdOf[c]))
       ELSE UNCHANGED <<queue, closed, tracker>>
    /\ UNCHANGED <<got, whole, asked, engineVars, loopVars>>

\* The client leaves process_request where it yields, after some output: it drops
\* the generator, or is cancelled in an await of its own.  The GeneratorExit that
\* this raises is neither an Exception nor a CancelledError: nothing is aborted.
Leave(c) ==
    /\ client[c] = "streaming"
    /\ got[c] > 0
    /\ client' = [client EXCEPT ![c] = "left"]
    /\ Become(State)
    /\ UNCHANGED <<got, whole, asked, engineVars, loopVars>>

\* abort(request_id), called by another task.
Abort(c) ==
    /\ client[c] \in {"streaming", "left"}
    /\ IsRunning
    /\ asked' = [asked EXCEPT ![c] = TRUE]
    /\ UNCHANGED <<client, got, whole, engineVars, loopVars>>
    /\ Become(AbortRequest(State, IdOf[c]))

-----------------------------------------------------------------------------
(* The background loop, run_engine_loop. *)

\* The next turn: with nothing in progress it waits for new requests.  (The
\* first turn of a new task comes after the callback of the one before.)
NextTurn ==
    /\ loop = "turn"
    /\ ~callback
    /\ IF progress
       THEN loop' = "ready" /\ UNCHANGED tracker
       ELSE IF tracker.new # <<>>
       THEN loop' = "ready" /\ tracker' = [tracker EXCEPT !.event = FALSE]
       ELSE loop' = "blocked" /\ UNCHANGED tracker
    /\ UNCHANGED <<clientVars, queue, closed, engineVars, progress, callback,
                   errored, loops>>

Wake ==
    /\ loop = "blocked"
    /\ tracker.event
    /\ loop' = "ready"
    /\ tracker' = [tracker EXCEPT !.event = FALSE]
    /\ UNCHANGED <<clientVars, queue, closed, engineVars, progress, callback,
                   errored, loops>>

\* engine_step up to the await of the execution: new requests are added, or
\* found invalid, finished ones aborted (one group per id), groups scheduled.
StepBegin ==
    LET ids == tracker.finished
    IN  /\ loop = "ready"
        /\ UNCHANGED clientVars
        /\ \E invalid \in IF "invalid" \in Failures THEN SUBSET Admitted(State)
                                                    ELSE {{}} :
             /\ Become(ProcessOutputs(Drain(State), invalid, [c \in Clients |-> Exception]))
             /\ LET held == groups \cup (Admitted(State) \ invalid)
                    There(id) == {c \in held : IdOf[c] = id}
                    some == {id \in ids : There(id) # {}}
                IN  \E victim \in [some -> held] :
                      /\ \A id \in some : victim[id] \in There(id)
                      /\ groups' = held \ Range(victim)
             /\ scheduled' \in SUBSET groups'
             /\ EngineYields /\ groups' # {} => scheduled' # {}
        /\ loop' = "executing"
        /\ UNCHANGED <<made, progress, callback, errored, loops>>

\* The rest of engine_step: an output for each scheduled group; the last ones
\* free their group.  An output whose stream is not registered raises KeyError,
\* and only some of the others were put by then.
StepEnd ==
    /\ loop = "executing"
    /\ UNCHANGED clientVars
    /\ \E last \in SUBSET scheduled :
       LET out == [c \in Clients |-> Output(made[c] + 1, c \in last)]
           known == {c \in scheduled : Registered(State, IdOf[c])}
       IN  /\ \A c \in scheduled : made[c] + 1 = MaxOutputs => c \in last
           /\ \E told \in IF known = scheduled THEN {known} ELSE SUBSET known :
                Become(ProcessOutputs(State, told, out))
           /\ loop' = IF known = scheduled THEN "turn" ELSE "ended"
           /\ callback' = (known # scheduled)
           /\ groups' = groups \ last
    /\ made' = [c \in Clients |-> IF c \in scheduled THEN made[c] + 1 ELSE made[c]]
    /\ progress' = (scheduled # {})
    /\ scheduled' = {}
    /\ UNCHANGED <<errored, loops>>

\* An exception of the step, or the iteration's timeout, ends the task.
StepFails(why) ==
    /\ why \in Failures \ {"invalid"}
    /\ loop = "executing"
    /\ loop' = "ended"
    /\ callback' = TRUE
    /\ errored' = (errored \/ why = "timeout")
    /\ scheduled' = {}
    /\ UNCHANGED <<clientVars, queue, closed, tracker, groups, made, progress, loops>>

\* _raise_exception_on_finish and _error_callback.
ErrorCallback ==
    /\ callback
    /\ callback' = FALSE
    /\ errored' = TRUE
    /\ UNCHANGED <<clientVars, engineVars, loop, progress, loops>>
    /\ Become(PropagateException(State))

-----------------------------------------------------------------------------

Next ==
    \/ \E c \in Clients : BeginRequest(c)
    \/ \E c \in Clients : AddRequest(c)
    \/ \E c \in Clients : Receive(c)
    \/ \E c \in Clients : ReceiveException(c)
    \/ \E c \in Clients : Cancel(c)
    \/ \E c \in Clients : Leave(c)
    \/ \E c \in Clients : Abort(c)
    \/ NextTurn
    \/ Wake
    \/ StepBegin
    \/ StepEnd
    \/ \E why \in Failures : StepFails(why)
    \/ ErrorCallback

Spec == Init /\ [][Next]_vars

\* A task of the event loop that may go on does, a client that does not leave
\* reads on, and an iteration ends by itself or by its timeout.
FairSpec ==
    /\ Spec
    /\ \A c \in Clients : /\ WF_vars(AddRequest(c))
                          /\ WF_vars(Receive(c))
                          /\ WF_vars(ReceiveException(c))
    /\ WF_vars(NextTurn)
    /\ WF_vars(Wake)
    /\ WF_vars(StepBegin)
    /\ WF_vars(StepEnd \/ \E why \in Failures : StepFails(why))
    /\ WF_vars(ErrorCallback)

-----------------------------------------------------------------------------
(* Properties. *)

\* Clients whose id no other client uses.
Alone == {c \in Clients : \A d \in Clients \ {c} : IdOf[d] # IdOf[c]}

\* Type of the state.
TypeOK ==
    /\ client \in [Clients -> {"out", "encoding", "streaming", "ended",
                               "failed", "refused", "gone", "left"}]
    /\ got \in [Clients -> 0 .. MaxOutputs]
    /\ whole \in [Clients -> BOOLEAN]
    /\ asked \in [Clients -> BOOLEAN]
    /\ closed \in [Clients -> BOOLEAN]
    /\ DOMAIN tracker.streams \subseteq Ids
    /\ Range(tracker.streams) \cup Range(tracker.new) \subseteq Clients
    /\ tracker.finished \subseteq Ids
    /\ groups \subseteq Clients /\ scheduled \subseteq groups
    /\ made \in [Clients -> 0 .. MaxOutputs]
    /\ loop \in {"none", "turn", "blocked", "ready", "executing", "ended"}

\* Every output that the engine made of a request is in its stream or was
\* received, until the stream is closed, and the stream holds them in order,
\* without gaps and before anything else: none is lost to a late registration,
\* or to an abort of another request.  (As long as the background task was never
\* replaced by another: the step that ended it may have been cut short.)
NoOutputLost ==
    IsRunning /\ loops = 1 =>
      \A c \in Alone :
        client[c] = "streaming" =>
          /\ \A i \in DOMAIN queue[c] :
               queue[c][i].number > 0 => queue[c][i].number = got[c] + i
          /\ ~closed[c] => got[c] + Len(queue[c]) = made[c]

\* What the engine holds is registered, so that it can be aborted; and its abort
\* is pending as soon as it was asked for, its stream was closed, or its client
\* was cancelled or got an exception.  Only the request of a client that left
\* where process_request yields goes on with nobody to listen, until it ends or is
\* aborted by another task.  (As long as the background task was never replaced
\* by another, which starts with an empty tracker.)
NoZombies ==
    IsRunning /\ loops = 1 =>
      \A c \in groups \cap Alone :
        /\ Registered(State, IdOf[c])
        /\ closed[c] \/ asked[c] => IdOf[c] \in tracker.finished
        /\ client[c] \notin {"streaming", "left"} => IdOf[c] \in tracker.finished

\* After a failure, and its callback, every client whose request had reached
\* the engine is told: its stream is closed.
HeldAreTold ==
    errored /\ ~callback /\ loops = 1 =>
      \A c \in groups \cap Alone : closed[c]

\* Every client gets its end, as long as no step of the engine fails: no
\* wakeup of the background loop is lost, whatever is aborted meanwhile.
EveryoneAnswered ==
    \/ <>(loop = "ended")
    \/ \A c \in Alone : client[c] = "streaming" ~> client[c] # "streaming"

\* For clients with an id of their own the asynchronous engine implements what
\* it promises to each.
Service == INSTANCE RequestService WITH
    Clients <- Alone,
    state <- [c \in Alone |-> CASE client[c] = "encoding" -> "out"
                                [] client[c] = "streaming" -> "open"
                                [] client[c] = "left" -> "gone"
                                [] OTHER -> client[c]],
    got <- [c \in Alone |-> got[c]],
    whole <- [c \in Alone |-> whole[c]],
    asked <- [c \in Alone |-> asked[c]]

ServicePromise == Service!ServiceSpec
=============================================================================
