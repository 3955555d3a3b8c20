----------------------------- MODULE LoRABatching -----------------------------
(***************************************************************************)
(* LoRA adapters between the scheduler, which lets a batch use MaxLoras of *)
(* them (curr_loras in _schedule_default of src/vllm/core/scheduler.py),   *)
(* the worker's LoRAManager, and add_lora and remove_lora of the engine,   *)
(* which come between steps.                                               *)
(*                                                                         *)
(* Abstracted: everything else that the scheduler decides.  Memory and     *)
(* budget answer at will, the queues have no order, a group has one        *)
(* sequence, and a prompt one token: rows then tell the fewest batches     *)
(* apart.  A raised exception ends the engine, except to the caller of     *)
(* add_lora.                                                               *)
(***************************************************************************)
EXTENDS LoRAManager

CONSTANTS
    Requests,      \* sequence groups; one that has ended may be used again
    Requestable,   \* the lora_int_ids that a request may come with
    Managed        \* those that add_lora and remove_lora are called with

ASSUME BatchingAssumption ==
    /\ IsFiniteSet(Requests)
    /\ Managed \subseteq LoRAs
    /\ Requestable \in [Requests -> SUBSET (LoRAs \cup {Base})]

VARIABLES
    m,          \* the worker's manager
    status,     \* of the groups
    adapter,    \* lora_int_id of the groups
    phase,      \* what the engine is doing
    curr,       \* curr_loras
    batch,      \* the groups scheduled
    trying,     \* the group room is being made for, if any
    preempted,  \* some group was preempted in this step
    disturbed,  \* history: add_lora or remove_lora changed the slots since the
                \* indices were computed
    fault       \* the exception that ended the engine

vars == <<m, status, adapter, phase, curr, batch, trying, preempted, disturbed, fault>>

Having(st) == {r \in Requests : status[r] = st}

\* The adapters of the groups of S
LoRAsOf(S) == {adapter[r] : r \in S} \ {Base}

At(p) == phase = p /\ fault = "none"

Init ==
    /\ m = EmptyManager
    /\ status = [r \in Requests |-> "absent"]
    /\ adapter = [r \in Requests |-> Base]
    /\ phase = "idle"
    /\ curr = {} /\ batch = {} /\ trying = {}
    /\ preempted = FALSE /\ disturbed = FALSE
    /\ fault = "none"

-----------------------------------------------------------------------------
(* Between steps. *)

AddSeqGroup(r, a) ==
    /\ At("idle") /\ status[r] = "absent"
    /\ status' = [status EXCEPT ![r] = "waiting"]
    /\ adapter' = [adapter EXCEPT ![r] = a]
    /\ UNCHANGED <<m, phase, curr, batch, trying, preempted, disturbed, fault>>

AbortSeqGroup(r) ==
    /\ At("idle") /\ status[r] # "absent"
    /\ status' = [status EXCEPT ![r] = "absent"]
    /\ adapter' = [adapter EXCEPT ![r] = Base]
    /\ UNCHANGED <<m, phase, curr, batch, trying, preempted, disturbed, fault>>

\* Its caller gets the exception of a failed load.
EngineAddLora(a) ==
    /\ At("idle")
    /\ m' = AddLora(m, a).m
    /\ disturbed' = (disturbed \/ m'.slots # m.slots)
    /\ UNCHANGED <<status, adapter, phase, curr, batch, trying, preempted, fault>>

EngineRemoveLora(a) ==
    /\ At("idle")
    /\ m' = RemoveLora(m, a)
    /\ disturbed' = (disturbed \/ m'.slots # m.slots)
    /\ UNCHANGED <<status, adapter, phase, curr, batch, trying, preempted, fault>>

-----------------------------------------------------------------------------
(* schedule() *)

Schedule ==
    /\ At("idle") /\ \E r \in Requests : status[r] # "absent"
    /\ curr' = LoRAsOf(Having("running"))
    /\ batch' = {} /\ trying' = {} /\ preempted' = FALSE
    /\ phase' = IF Having("swapped") = {} THEN "prefills" ELSE "running"
    /\ UNCHANGED <<m, status, adapter, disturbed, fault>>

BugUncounted(r) == adapter[r] \in curr \cup {Base} \/ Cardinality(curr \ LoRAsOf(batch)) < MaxLoras

\* There is a place for the adapter of r.
HasSpace(r) == adapter[r] \in curr \cup {Base} \/ Cardinality(curr) < MaxLoras

\* A prompt or a swapped group joins the batch.
Join(r) ==
    /\ HasSpace(r)
    /\ status' = [status EXCEPT ![r] = "running"]
    /\ curr' = curr \cup LoRAsOf({r})
    /\ batch' = batch \cup {r}
    /\ UNCHANGED <<m, adapter, phase, trying, preempted, disturbed, fault>>

SchedulePrefill(r) == At("prefills") /\ status[r] = "waiting" /\ Join(r)

EndPrefills ==
    /\ At("prefills")
    /\ phase' = IF batch = {} THEN "running" ELSE "execute"
    /\ UNCHANGED <<m, status, adapter, curr, batch, trying, preempted, disturbed, fault>>

Queued == Having("running") \ batch

\* The group at the head of the queue, once taken, stays until it has its slots.
IsNext(r) == r \in Queued /\ trying \in {{}, {r}}

ScheduleRunning(r) ==
    /\ At("running") /\ IsNext(r)
    /\ curr' = curr \cup LoRAsOf({r})
    /\ batch' = batch \cup {r}
    /\ trying' = {}
    /\ UNCHANGED <<m, status, adapter, phase, preempted, disturbed, fault>>

\* No slots for r: set.remove takes its adapter from curr_loras, again for each
\* victim; v is preempted for it, r itself if no other is left.
Preempt(r, v, to) ==
    /\ At("running") /\ IsNext(r)
    /\ v \in IF Queued = {r} THEN {r} ELSE Queued \ {r}
    /\ IF LoRAsOf({r}) \subseteq curr
       THEN /\ curr' = curr \ LoRAsOf({r})
            /\ status' = [status EXCEPT ![v] = to]
            /\ preempted' = TRUE
            /\ trying' = IF v = r THEN {} ELSE {r}
            /\ UNCHANGED fault
       ELSE /\ fault' = "curr_loras"
            /\ UNCHANGED <<curr, status, preempted, trying>>
    /\ UNCHANGED <<m, adapter, phase, batch, disturbed>>

AfterScheduling == IF batch = {} THEN "idle" ELSE "execute"

EndRunning ==
    /\ At("running") /\ Queued = {}
    /\ phase' = IF preempted THEN AfterScheduling ELSE "swapped"
    /\ UNCHANGED <<m, status, adapter, curr, batch, trying, preempted, disturbed, fault>>

ScheduleSwapped(r) == At("swapped") /\ status[r] = "swapped" /\ Join(r)

EndSwapped ==
    /\ At("swapped")
    /\ phase' = AfterScheduling
    /\ UNCHANGED <<m, status, adapter, curr, batch, trying, preempted, disturbed, fault>>

-----------------------------------------------------------------------------
(* The worker, and the outputs. *)

\* How many rows each adapter has
Rows(S) == [a \in {adapter[r] : r \in S} |-> Cardinality({r \in S : adapter[r] = a})]

Execute(order) ==
    LET o == SetActiveLoras(m, order, Rows(batch))
    IN  /\ At("execute")
        /\ order \in SetToSeqs(LoRAsOf(batch))
        /\ m' = o.m /\ fault' = o.raised
        /\ disturbed' = (disturbed /\ Rows(batch) = m.last)
        /\ phase' = "process"
        /\ UNCHANGED <<status, adapter, curr, batch, trying, preempted>>

ProcessOutputs(ended) ==
    /\ At("process") /\ ended \subseteq batch
    /\ status' = [r \in Requests |-> IF r \in ended THEN "absent" ELSE status[r]]
    /\ adapter' = [r \in Requests |-> IF r \in ended THEN Base ELSE adapter[r]]
    /\ batch' = {} /\ curr' = {} /\ preempted' = FALSE
    /\ phase' = "idle"
    /\ UNCHANGED <<m, trying, disturbed, fault>>

-----------------------------------------------------------------------------

Next ==
    \/ \E r \in Requests : \E a \in Requestable[r] : AddSeqGroup(r, a)
    \/ \E r \in Requests : AbortSeqGroup(r)
    \/ \E a \in Managed : EngineAddLora(a)
    \/ \E a \in Managed : EngineRemoveLora(a)
    \/ Schedule
    \/ \E r \in Requests : SchedulePrefill(r)
    \/ EndPrefills
    \/ \E r \in Requests : ScheduleRunning(r)
    \/ \E r, v \in Requests, to \in {"waiting", "swapped"} : Preempt(r, v, to)
    \/ EndRunning
    \/ \E r \in Requests : ScheduleSwapped(r)
    \/ EndSwapped
    \/ \E order \in SetToSeqs(LoRAsOf(batch)) : Execute(order)
    \/ \E ended \in SUBSET batch : ProcessOutputs(ended)

Spec == Init /\ [][Next]_vars

-----------------------------------------------------------------------------
(* Properties. *)

\* Types, and the records of what is on the GPU agree: an adapter is active if and
\* only if it has a slot, and one slot only, and then it is registered; neither
\* cache is over its limit.
SlotsAgree ==
    /\ m.slots \in [Slots -> LoRAs \cup {Free}]
    /\ IsInjective(m.active) /\ IsInjective(m.registered)
    /\ Range(m.active) = Range(m.slots) \ {Free}
    /\ Range(m.active) \subseteq Range(m.registered)
    /\ Range(m.registered) \subseteq LoRAs \ Unloadable
    /\ Len(m.registered) <= MaxCpuLoras
    /\ Cardinality({i \in Slots : m.slots[i] # Free}) = Len(m.active)

\* The batch never needs more adapters than there are slots, whatever is
\* preempted and swapped in around it.
BatchFits == Cardinality(LoRAsOf(batch)) <= MaxLoras

\* A step raises only if a checkpoint cannot be loaded, or in the scheduler: no
\* adapter of the batch is evicted, from either cache, for another one of it.
StepsSucceed == fault \notin {"too many LoRAs", "no free slot", "not in a slot"}

\* While the model runs each row reads the slot that its own adapter is
\* in.  (Not if add_lora or remove_lora changed the slots since the
\* indices were computed: a batch with the same rows keeps them.)
RowsGetTheirAdapter ==
    At("process") /\ ~disturbed =>
        /\ m.indices \in [DOMAIN Rows(batch) -> Slots \cup {0}]
        /\ \A a \in DOMAIN m.indices :
             IF m.indices[a] = 0 THEN a = Base ELSE m.slots[m.indices[a]] = a

=============================================================================
