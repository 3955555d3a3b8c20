---------------------------- MODULE ELLMScheduler ----------------------------
(***************************************************************************)
(* The scheduler (src/vllm/core/scheduler.py, _schedule_default) and the   *)
(* output processor driving the block manager of eLLM.                     *)
(*                                                                         *)
(* One engine iteration is schedule(), the model's execution, and the      *)
(* processing of its outputs.  schedule() is cut at its loops: phase says  *)
(* which loop it is in, and requests are added or aborted only when no     *)
(* iteration is under way.                                                 *)
(*                                                                         *)
(* Abstracted: the order that the scheduling policies give the queues (any *)
(* request may come next); how the cache-ratio policy ranks its choices    *)
(* (it takes any); the token budget, the prompt delay and the LoRA limit,  *)
(* which may stop a loop over a queue only while something else runs; and  *)
(* the samples (the output processor gets any).  A raised exception ends   *)
(* the engine: fault names it and nothing follows.                         *)
(***************************************************************************)
EXTENDS ELLMBlockManager, SequencesExt, Lists

CONSTANTS
    Requests,        \* sequence groups
    SeqsOf,          \* [Requests -> Seq(Seqs)]: ids in order of creation, which
                     \* seq_counter gives once
    Beam,            \* the requests that use beam search
    PromptLengths,   \* lengths of prompts
    MaxNumSeqs,      \* scheduler_config.max_num_seqs
    PreemptionMode,  \* scheduler_config.preemption_mode
    PolicyLayers     \* cached_layers that get_opt_bs_and_layers may select, or
                     \* half of the layers where it may raise

ASSUME SchedulerAssumption ==
    /\ IsFiniteSet(Requests)
    /\ SeqsOf \in [Requests -> Seq(Seqs)]
    /\ \A r \in Requests : SeqsOf[r] # <<>> /\ IsInjective(SeqsOf[r])
    /\ \A q, r \in Requests : q # r => ToSet(SeqsOf[q]) \cap ToSet(SeqsOf[r]) = {}
    /\ Beam \subseteq Requests
    /\ PromptLengths \subseteq 1 .. MaxTokens - 1
    /\ MaxNumSeqs \in Nat \ {0}
    /\ \A r \in Requests : MaxNumSeqs >= Len(SeqsOf[r])
    /\ PreemptionMode \in {"None", "recompute", "swap"}
    /\ PolicyLayers \subseteq 1 .. NumLayers

VARIABLES
    mgr,        \* the block manager
    status,     \* SequenceStatus, "absent" before and "removed" after the group
    length,     \* get_len() of the sequences that are not finished, else 0
    prefill,    \* sequences whose stage is PREFILL
    phase,      \* what the engine is doing
    batch,      \* groups scheduled in this iteration
    trying,     \* the group _schedule_running is making room for, if any
    preempted,  \* some group was preempted in this iteration
    cached,     \* cache_layers of this iteration
    maxSeqs,    \* max_num_seqs of this iteration
    fault       \* the exception that ended the engine

vars == <<mgr, status, length, prefill, phase, batch, trying, preempted,
          cached, maxSeqs, fault>>

SeqsIn(r, st) == Only(SeqsOf[r], {s \in Seqs : status[s] = st})

Having(st) == {r \in Requests : SeqsIn(r, st) # <<>>}

\* seqs_dict
Members(r) == Only(SeqsOf[r], {s \in Seqs : status[s] \notin {"absent", "removed"}})

IsPrefill(r) == Members(r)[1] \in prefill

Unfinished(r) ==
    Only(SeqsOf[r], {s \in Seqs : status[s] \in {"waiting", "running", "swapped"}})

\* get_max_num_running_seqs; a request is as wide as its best_of.
MaxNumRunningSeqs(r) ==
    IF r \in Beam \/ Len(SeqsOf[r]) > Len(Members(r))
    THEN Len(SeqsOf[r])
    ELSE Len(Unfinished(r))

SetStatus(list, st) ==
    status' = [s \in Seqs |-> IF s \in ToSet(list) THEN st ELSE status[s]]

Forget(list) ==
    length' = [s \in Seqs |-> IF s \in ToSet(list) THEN 0 ELSE length[s]]

Init ==
    /\ mgr = EmptyManager
    /\ status = [s \in Seqs |-> "absent"]
    /\ length = [s \in Seqs |-> 0]
    /\ prefill = {}
    /\ phase = "idle"
    /\ batch = {}
    /\ trying = {}
    /\ preempted = FALSE
    /\ cached = NumLayers
    /\ maxSeqs = MaxNumSeqs
    /\ fault = "none"

\* Where the engine is; a fault leaves it nowhere.
At(p) == phase = p /\ fault = "none"

\* The call whose outcome o is: the manager it leaves, and the fault, named by
\* what, if it raised.
Call(o, what) ==
    /\ mgr' = o.mgr
    /\ fault' = IF o.raised = "none" THEN "none" ELSE what

-----------------------------------------------------------------------------
(* Between iterations. *)

AddSeqGroup(r, n) ==
    /\ At("idle")
    /\ status[SeqsOf[r][1]] = "absent"
    /\ status' = [status EXCEPT ![SeqsOf[r][1]] = "waiting"]
    /\ length' = [length EXCEPT ![SeqsOf[r][1]] = n]
    /\ prefill' = prefill \cup {SeqsOf[r][1]}
    /\ UNCHANGED <<mgr, phase, batch, trying, preempted, cached,
                   maxSeqs, fault>>

AbortSeqGroup(r) ==
    /\ At("idle")
    /\ Unfinished(r) # <<>>
    /\ mgr' = Free(mgr, Unfinished(r))
    /\ SetStatus(Unfinished(r), "finished")
    /\ Forget(Unfinished(r))
    /\ prefill' = prefill \ ToSet(Unfinished(r))
    /\ UNCHANGED <<phase, batch, trying, preempted, cached,
                   maxSeqs, fault>>

-----------------------------------------------------------------------------
(* schedule() *)

\* What select_ellm_policy may return for n requests, or schedule() choose
\* instead of it: the sequences to run at most and the layers to cache.
PolicyChoices(n) ==
    IF n <= 1
    THEN {<<MaxNumSeqs, NumLayers \div 2>>}
    ELSE (1 .. Min({MaxNumSeqs, n})) \X PolicyLayers
           \cup {<<MaxNumSeqs, l>> : l \in PolicyLayers \cap {NumLayers \div 2}}

\* (With store_cache_layers at 1.0 or more another block manager is in charge.)
Schedule ==
    LET active == Having("running") \cup Having("waiting")
    IN  /\ At("idle")
        /\ active \cup Having("swapped") # {}
        /\ \E choice \in PolicyChoices(Cardinality(active)) :
             maxSeqs' = choice[1] /\ cached' = choice[2]
        /\ phase' = IF Having("swapped") = {} THEN "prefills" ELSE "running"
        /\ batch' = {}
        /\ UNCHANGED <<mgr, status, length, prefill, trying, preempted, fault>>

\* budget.num_curr_seqs in the loops that admit, which nothing preempted
\* precedes
NumCurrSeqs == MapThenSumSet(MaxNumRunningSeqs, Having("running"))

BugWidthForgotten(r) == NumCurrSeqs + 1 <= maxSeqs

\* budget.can_schedule, for the sequences
CanSchedule(r) == NumCurrSeqs + MaxNumRunningSeqs(r) <= maxSeqs

\* _schedule_prefills
AllocateAndSetRunning(r) ==
    /\ At("prefills")
    /\ r \in Having("waiting")
    /\ CanAllocate(mgr, SeqsIn(r, "waiting"), length) = "OK"
    /\ CanSchedule(r)
    /\ \E o \in Allocate(mgr, SeqsIn(r, "waiting"), length) : Call(o, "allocate")
    /\ SetStatus(SeqsIn(r, "waiting"), "running")
    /\ batch' = batch \cup {r}
    /\ UNCHANGED <<length, prefill, phase, trying, preempted, cached,
                       maxSeqs>>

IgnoreSeqGroup(r) ==
    /\ At("prefills")
    /\ r \in Having("waiting")
    /\ CanAllocate(mgr, SeqsIn(r, "waiting"), length) = "NEVER"
    /\ SetStatus(SeqsIn(r, "waiting"), "finished")
    /\ Forget(SeqsIn(r, "waiting"))
    /\ prefill' = prefill \ ToSet(SeqsIn(r, "waiting"))
    /\ UNCHANGED <<mgr, phase, batch, trying, preempted, cached,
                   maxSeqs, fault>>

\* Where the loop over the queue of state st may stop: at its end, before a
\* request that the manager or the budget puts off, or, while something else
\* runs, for the token budget, the prompt delay or the LoRA limit, none of which
\* leaves out a request alone.
MayStop(st, PutOff(_)) ==
    \/ Having(st) = {}
    \/ Having("running") # {}
    \/ \E r \in Having(st) : PutOff(r) \/ ~CanSchedule(r)

AdmittedLater(r) == CanAllocate(mgr, SeqsIn(r, "waiting"), length) = "LATER"

EndPrefills ==
    /\ At("prefills")
    /\ MayStop("waiting", AdmittedLater)
    /\ phase' = IF batch = {} THEN "running" ELSE "metadata"
    /\ UNCHANGED <<mgr, status, length, prefill, batch, trying, preempted,
                   cached, maxSeqs, fault>>

\* The running queue of _schedule_running.
Queued == Having("running") \ batch

ScheduleRunning(r) ==
    LET running == SeqsIn(r, "running")
    IN  /\ At("running")
        /\ r \in Queued
        /\ trying \subseteq {r}
        /\ CanAppendSlots(mgr, running, length)
        /\ \E o \in AppendSlots(mgr, running, length) : Call(o, "append")
        /\ batch' = batch \cup {r}
        /\ trying' = {}
        /\ UNCHANGED <<status, length, prefill, phase, preempted, cached, maxSeqs>>

PreemptByRecompute(v) ==
    LET running == SeqsIn(v, "running")
    IN  IF Len(running) = 1
        THEN /\ mgr' = Free(mgr, running)
             /\ SetStatus(running, "waiting")
             /\ prefill' = prefill \cup ToSet(running)
             /\ UNCHANGED fault
        ELSE /\ fault' = "recompute of several sequences"
             /\ UNCHANGED <<mgr, status, prefill>>

PreemptBySwap(v) ==
    LET running == SeqsIn(v, "running")
    IN  IF CanSwapOut(mgr, ToSet(running))
        THEN /\ mgr' \in SwapOut(mgr, running)
             /\ SetStatus(running, "swapped")
             /\ UNCHANGED <<prefill, fault>>
        ELSE /\ fault' = "CPU swap space"
             /\ UNCHANGED <<mgr, status, prefill>>

BugOthersOnly(r) == Queued \ {r}

\* The victim is another queued group, or r itself when it is the last one.
Victims(r) == IF Queued = {r} THEN {r} ELSE Queued \ {r}

Preempt(r, v) ==
    /\ At("running")
    /\ r \in Queued
    /\ trying \subseteq {r}
    /\ ~CanAppendSlots(mgr, SeqsIn(r, "running"), length)
    /\ v \in Victims(r)
    /\ IF PreemptionMode = "swap" \/ (PreemptionMode = "None" /\ MaxNumRunningSeqs(v) # 1)
       THEN PreemptBySwap(v)
       ELSE PreemptByRecompute(v)
    /\ trying' = IF v = r THEN {} ELSE {r}
    /\ preempted' = TRUE
    /\ UNCHANGED <<length, phase, batch, cached, maxSeqs>>

EndRunning ==
    /\ At("running")
    /\ Queued = {}
    /\ phase' = IF preempted THEN "metadata" ELSE "swapped"
    /\ UNCHANGED <<mgr, status, length, prefill, batch, trying, preempted,
                   cached, maxSeqs, fault>>

\* _schedule_swapped: swap_in, then append_slots whatever is left.
ScheduleSwapped(r) ==
    LET swapped == SeqsIn(r, "swapped")
    IN  /\ At("swapped")
        /\ r \in Having("swapped")
        /\ CanSwapIn(mgr, swapped) = "OK"
        /\ CanSchedule(r)
        /\ \E o \in SwapIn(mgr, swapped) :
             IF o.raised = "none"
             THEN /\ \E p \in AppendSlots(o.mgr, swapped, length) :
                       Call(p, "append after swap-in")
                  /\ SetStatus(swapped, "running")
             ELSE /\ Call(o, "swap_in")
                  /\ UNCHANGED status
        /\ batch' = batch \cup {r}
        /\ UNCHANGED <<length, prefill, phase, trying, preempted, cached,
                       maxSeqs>>

SwappedInLater(r) == CanSwapIn(mgr, SeqsIn(r, "swapped")) = "LATER"

EndSwapped ==
    /\ At("swapped")
    /\ MayStop("swapped", SwappedInLater)
    /\ phase' = "metadata"
    /\ UNCHANGED <<mgr, status, length, prefill, batch, trying, preempted,
                   cached, maxSeqs, fault>>

\* The metadata of the batch: sequences that decode are evicted to the cache
\* ratio, and plans are built if any of them has an evicted prefix.  The loop
\* asserts that a group in its prefill has one sequence, and stops where it has
\* more, with the groups before it evicted.
BuildMetadata ==
    LET decoding == {r \in batch : ~IsPrefill(r)}
        wide == {r \in batch \ decoding : Len(Members(r)) > 1}
        SeqsOfAll(G) == UNION {ToSet(SeqsIn(r, "running")) : r \in G}
        Evicted(G) == EvictToCachedLayerRatio(mgr, SetToSeq(SeqsOfAll(G)), length, cached)
        NeedsPlans(m) == \E s \in SeqsOfAll(decoding) : m.evicted[s] > 0
    IN  /\ At("metadata")
        /\ \E G \in IF wide = {} THEN {decoding} ELSE SUBSET decoding :
           \E o \in Evicted(G) :
             IF o.raised # "none"
             THEN Call(o, "evict")
             ELSE IF wide # {}
             THEN mgr' = o.mgr /\ fault' = "prefill of several sequences"
             ELSE IF NeedsPlans(o.mgr.map)
             THEN \E p \in BuildPartialRecomputePlans(o.mgr, SeqsOfAll(decoding)) :
                    Call(p, "plans")
             ELSE Call(o, "evict")
        /\ phase' = IF batch = {} THEN "idle" ELSE "executing"
        /\ preempted' = FALSE
        /\ cached' = NumLayers
        /\ maxSeqs' = MaxNumSeqs
        /\ UNCHANGED <<status, length, prefill, batch, trying>>

-----------------------------------------------------------------------------
(* process_outputs, for one group of the batch: every running sequence has *)
(* computed its tokens and gets one more; born are its new children, ended *)
(* the sequences that stop, and dropped those that beam search takes out   *)
(* of the group.  Without beam search all children are born of the prompt. *)

ProcessOutputs(r) ==
    LET running == SeqsIn(r, "running")
        absent == SeqsIn(r, "absent")
    IN  /\ At("executing")
        /\ r \in batch
        /\ \E n \in IF r \in Beam THEN 0 .. Len(absent) ELSE {Len(absent)} :
           LET born == SubSeq(absent, 1, n)
               now == ToSet(running) \cup ToSet(born)
           IN  \E parent \in [ToSet(born) -> ToSet(running)], ended \in SUBSET now :
               LET len(s) == IF s \in ToSet(born) THEN length[parent[s]] + 1
                                                  ELSE length[s] + 1
                   kept == Only(born, now \ ended)
                   done == Only(running, ended)
                   finished == ended \cup ToSet(SeqsIn(r, "finished"))
               IN  /\ \A s \in now : len(s) = MaxTokens => s \in ended
                   /\ \E o \in Fork(mgr, kept, parent) :
                        Call([o EXCEPT !.mgr = Free(o.mgr, done)], "fork")
                   /\ length' = [s \in Seqs |-> IF s \in ended THEN 0
                                                ELSE IF s \in now THEN len(s)
                                                ELSE length[s]]
                   /\ \E dropped \in IF r \in Beam THEN SUBSET finished ELSE {{}} :
                        status' = [s \in Seqs |->
                                     IF s \in dropped THEN "removed"
                                     ELSE IF s \in ended THEN "finished"
                                     ELSE IF s \in now THEN "running"
                                     ELSE status[s]]
        /\ prefill' = prefill \ ToSet(running)
        /\ batch' = batch \ {r}
        /\ phase' = IF batch' = {} THEN "idle" ELSE "executing"
        /\ UNCHANGED <<trying, preempted, cached,
                       maxSeqs>>

-----------------------------------------------------------------------------

\* A step of an iteration that has begun.
Iterate ==
    \/ \E r \in Requests : AllocateAndSetRunning(r)
    \/ \E r \in Requests : IgnoreSeqGroup(r)
    \/ EndPrefills
    \/ \E r \in Requests : ScheduleRunning(r)
    \/ \E r, v \in Requests : Preempt(r, v)
    \/ EndRunning
    \/ \E r \in Requests : ScheduleSwapped(r)
    \/ EndSwapped
    \/ BuildMetadata
    \/ \E r \in Requests : ProcessOutputs(r)

Next ==
    \/ \E r \in Requests, n \in PromptLengths : AddSeqGroup(r, n)
    \/ \E r \in Requests : AbortSeqGroup(r)
    \/ Schedule
    \/ Iterate

Spec == Init /\ [][Next]_vars

\* schedule() and the processing of outputs run to their end on one thread, and
\* LLM._run_engine steps the engine again while it has unfinished requests.
FairSpec == Spec /\ WF_vars(Schedule \/ Iterate)

-----------------------------------------------------------------------------
(* Properties. *)

RequestOf(s) == CHOOSE r \in Requests : s \in ToSet(SeqsOf[r])

\* Type of the state.
TypeOK ==
    /\ MapType(mgr.map)
    /\ mgr.cpu \in [Groups -> SUBSET CpuBlocks]
    /\ DOMAIN mgr.swapped \subseteq Seqs
    /\ status \in [Seqs -> {"absent", "waiting", "running", "swapped",
                            "finished", "removed"}]
    /\ length \in [Seqs -> 0 .. MaxTokens]
    /\ prefill \subseteq Seqs
    /\ phase \in {"idle", "prefills", "running", "swapped", "metadata", "executing"}
    /\ batch \subseteq Requests /\ trying \subseteq Requests
    /\ preempted \in BOOLEAN
    /\ cached \in 0 .. NumLayers
    /\ maxSeqs \in 1 .. MaxNumSeqs

\* The block map holds exactly the running sequences, up to date for those
\* of the batch and one token behind for the others, through admission,
\* forks, both kinds of preemption, swap-in, abort and early ends.
SidesAgree ==
    fault = "none" =>
      \A s \in Seqs :
        mgr.map.length[s] = IF status[s] # "running" THEN 0
                            ELSE IF RequestOf(s) \in batch THEN length[s]
                            ELSE length[s] - 1

\* Reference counts, free lists and retained windows stay exact under every
\* sequence of calls the scheduler makes: no GPU block leaks.
MapInOrder == MapRefsExact(mgr.map) /\ MapWindow(mgr.map)

\* Every CPU block is free or holds one block of one recorded sequence:
\* swapping out and in again never loses a CPU block nor uses one twice.
CpuBlocksAccounted ==
    \A g \in Groups :
      LET Holds(s) == Range(mgr.swapped[s].tables[g])
          records == DOMAIN mgr.swapped
      IN  /\ mgr.cpu[g] \cup UNION {Holds(s) : s \in records} = CpuBlocks
          /\ \A s \in records :
               Holds(s) \cap mgr.cpu[g] = {} /\ IsInjective(mgr.swapped[s].tables[g])
          /\ \A s, t \in records : s # t => Holds(s) \cap Holds(t) = {}

\* A swapped sequence has a record of all but its pending token, with a CPU
\* block for every retained block in every group: can_swap_in never says
\* NEVER, which would drop a request with its CPU blocks.
RecordsMatch ==
    \A s \in Seqs :
      status[s] = "swapped" =>
        /\ s \in DOMAIN mgr.swapped
        /\ mgr.swapped[s].length = length[s] - 1
        /\ \A g \in Groups :
             DOMAIN mgr.swapped[s].tables[g] =
               mgr.swapped[s].evicted .. NumLogicalBlocks(length[s] - 1) - 1

\* A call that the manager was asked about first does not raise: can_allocate,
\* can_append_slots and can_swap_in promise enough for allocate, append_slots
\* and swap_in, whatever is shared, and fork finds its parent.
CheckedCallsSucceed == fault \notin {"allocate", "append", "swap_in", "fork"}

\* While the model executes, the block a sequence of the batch writes its
\* tokens to is its own in every group, though forks share everything else.
NoSharedWriteSlot ==
    phase = "executing" /\ fault = "none" =>
      \A r \in batch, g \in Groups : \A s \in ToSet(SeqsIn(r, "running")) :
        TailRefs(mgr.map, s, g) = 1

\* A sequence that comes back from the CPU has the prefix evicted that it
\* left with, and one token more: its record was not mixed up or stale.
SwapRestores ==
    [][\A s \in Seqs : status[s] = "swapped" /\ status'[s] = "running" /\ fault' = "none"
         => /\ mgr'.map.evicted[s] = mgr.swapped[s].evicted
            /\ mgr'.map.length[s] = mgr.swapped[s].length + 1]_vars

\* A swapped request whose sequences, which shared blocks when they left, need
\* more blocks than there are to come back: can_swap_in says LATER for ever.
CannotReturn(r) ==
    \E g \in Groups :
      MapThenSumSet(LAMBDA s : IF s \in DOMAIN mgr.swapped
                               THEN Cardinality(DOMAIN mgr.swapped[s].tables[g])
                               ELSE 0,
                    ToSet(SeqsIn(r, "swapped"))) > Cardinality(Blocks)

\* The running sequences, and those that they may still fork into, are never
\* more than max_num_seqs: what schedule() asserts at its end, though the budget
\* of an iteration comes from the policy and requests change their width.
WithinLimit == phase # "idle" => NumCurrSeqs <= MaxNumSeqs

\* A request of several sequences is alone, and for more than one request the
\* policy may choose a batch of one sequence, which leaves it in its queue.
TooWide(r) ==
    /\ r \in Having("waiting") \cup Having("swapped")
    /\ MaxNumRunningSeqs(r) > 1
    /\ Having("running") = {} /\ Cardinality(Having("waiting") \cup {r}) > 1

\* Every request ends, by its samples, its length, an abort or because it can
\* never be allocated, unless an exception ends the engine or one of these two
\* blocks the queues for good: requests do not preempt one another for ever, no
\* loop of schedule() spins, and no request is in a queue that nothing reads.
RequestsEnd ==
    \/ \A r \in Requests : []<>(Unfinished(r) = <<>> \/ fault # "none")
    \/ <>[](\E r \in Requests : CannotReturn(r) \/ TooWide(r))

-----------------------------------------------------------------------------
(* What comments of the code say and some execution of it contradicts. *)

\* scheduler.py, abort_seq_group: "if any of the sequences in the sequence
\* group is not finished, free the sequence with status `FINISHED_ABORTED`".
AbortFreesSequence ==
    \A s \in Seqs : status[s] \in {"finished", "removed"} => s \notin DOMAIN mgr.swapped

\* ellm_block_manager.py, evict_to_cached_layer_ratio: "Translate the selected
\* cache ratio into an old-prefix eviction."
SelectedRatioApplies == fault # "evict"

=============================================================================
