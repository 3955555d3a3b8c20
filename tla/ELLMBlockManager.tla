-------------------------- MODULE ELLMBlockManager --------------------------
(***************************************************************************)
(* The block manager of eLLM (src/vllm/core/ellm_block_manager.py): it     *)
(* answers the scheduler's capacity questions and keeps the KV block map   *)
(* and, for every layer group, a pool of CPU blocks for swapped sequences. *)
(*                                                                         *)
(* A manager is a value  mgr  with three parts:                            *)
(*   mgr.map      cache_map, a map of TokenLayerKVMap;                     *)
(*   mgr.cpu[g]   _free_cpu_blocks;                                        *)
(*   mgr.swapped  _swapped_sequences: what swap_out recorded, by sequence. *)
(* A method that the code applies to the sequences of a group gets them as *)
(* a list, in the order of the group; an outcome is a manager and the      *)
(* exception raised, if any.                                               *)
(*                                                                         *)
(* Abstracted: the lists of block pairs that swap_in, swap_out and         *)
(* append_slots return for the workers; CPU blocks, like GPU blocks, are   *)
(* interchangeable.                                                        *)
(***************************************************************************)
EXTENDS TokenLayerKVMap, Sequences, FiniteSetsExt

CONSTANTS
    CpuBlocks,   \* CPU blocks of one layer group
    NumLayers,   \* layers of the model
    Watermark    \* watermark_blocks

ASSUME ManagerAssumption ==
    /\ IsFiniteSet(CpuBlocks)
    /\ NumLayers \in Nat \ {0}
    /\ Watermark \in Nat

EmptyManager == [map     |-> EmptyMap,
                 cpu     |-> [g \in Groups |-> CpuBlocks],
                 swapped |-> [s \in {} |-> s]]

NumFree(m, g) == Cardinality(m.cells[g].free)

\* The blocks evict_to_cached_layer_ratio asks to evict from a sequence of
\* n tokens: the rest is the layers' share of its blocks, rounded up, and at
\* least the newest block.
EvictedBlocks(n, layers) ==
    LET cached   == Min({Max({layers, 0}), NumLayers})
        blocks   == NumLogicalBlocks(n)
        retained == Max({1, (blocks * cached + NumLayers - 1) \div NumLayers})
    IN  Max({blocks - retained, 0})

\* What a method of the map may do for sequence s.  call names the method and has
\* its arguments by sequence; an append is for a sequence that is a token behind.
OutcomesOf(call, m, s) ==
    CASE call.method = "allocate" -> AllocateOutcomes(m, s, call.length[s], call.evicted[s])
      [] call.method = "append" -> IF m.length[s] < call.length[s]
                                   THEN AppendOutcomes(m, s)
                                   ELSE {Done(m)}
      [] call.method = "evict" -> EvictOutcomes(m, s, EvictedBlocks(call.length[s], call.layers))
      [] call.method = "fork" -> ForkOutcomes(m, call.parent[s], s)

\* The next call of a loop, unless an earlier one raised; done counts the calls
\* that returned.
NextCall(call, o, s) ==
    IF o.raised = "none"
    THEN {[map    |-> p.map,
           raised |-> p.raised,
           done   |-> IF p.raised = "none" THEN o.done + 1 ELSE o.done] :
            p \in OutcomesOf(call, o.map, s)}
    ELSE {o}

\* A call for every sequence of list, in turn, up to the first that raises.
InTurn(call, m, list) ==
    LET after[i \in 0 .. Len(list)] ==
          IF i = 0
          THEN {[map |-> m, raised |-> "none", done |-> 0]}
          ELSE UNION {NextCall(call, o, list[i]) : o \in after[i - 1]}
    IN  after[Len(list)]

BugLastNotFreed(m, list) ==
    LET after[i \in 0 .. Len(list)] ==
          IF i = 0 THEN m ELSE Freed(after[i - 1], list[i])
    IN  IF list = <<>> THEN m ELSE after[Len(list) - 1]

AllFreed(m, list) ==
    LET after[i \in 0 .. Len(list)] ==
          IF i = 0 THEN m ELSE Freed(after[i - 1], list[i])
    IN  after[Len(list)]

BugWholePrefix(m, list, length, evicted) ==
    InTurn([method |-> "allocate", length |-> length, evicted |-> [s \in Seqs |-> 0]], m, list)

\* allocate_sequence_with_evicted_prefix for every sequence of list, undone if
\* one of them raises.
AllOrNothing(m, list, length, evicted) ==
    {IF o.raised = "none"
     THEN o
     ELSE [o EXCEPT !.map = AllFreed(o.map, SubSeq(list, 1, o.done))] :
       o \in InTurn([method |-> "allocate", length |-> length, evicted |-> evicted], m, list)}

-----------------------------------------------------------------------------
(* Admission. *)

\* can_allocate for the waiting sequences of list, of the given lengths
CanAllocate(mgr, list, length) ==
    LET Need(i) == NumLogicalBlocks(length[list[i]])
        required == MapThenSumSet(Need, DOMAIN list) + Watermark
    IN  IF required > Cardinality(Blocks)
        THEN "NEVER"
        ELSE IF \A g \in Groups : required <= NumFree(mgr.map, g)
        THEN "OK"
        ELSE "LATER"

Allocate(mgr, list, length) ==
    {[mgr |-> [mgr EXCEPT !.map = o.map], raised |-> o.raised] :
       o \in AllOrNothing(mgr.map, list, length, [s \in Seqs |-> 0])}

-----------------------------------------------------------------------------
(* Decoding. *)

BugNeverCow(m, s, g) == FALSE

\* sequence_needs_cow
NeedsCow(m, s, g) == m.length[s] % BlockSize # 0 /\ TailRefs(m, s, g) > 1

\* can_append_slots for the running sequences of list
CanAppendSlots(mgr, list, length) ==
    LET m == mgr.map
        needs(g) == {i \in DOMAIN list :
                       /\ length[list[i]] > m.length[list[i]]
                       /\ \/ length[list[i]] % BlockSize = 1
                          \/ NeedsCow(m, list[i], g)}
    IN  \A g \in Groups : NumFree(m, g) >= Cardinality(needs(g))

\* append_slots, for sequences at most one token behind
AppendSlots(mgr, list, length) ==
    {[mgr |-> [mgr EXCEPT !.map = o.map], raised |-> o.raised] :
       o \in InTurn([method |-> "append", length |-> length], mgr.map, list)}

EvictToCachedLayerRatio(mgr, list, length, layers) ==
    {[mgr |-> [mgr EXCEPT !.map = o.map], raised |-> o.raised] :
       o \in InTurn([method |-> "evict", length |-> length, layers |-> layers], mgr.map, list)}

\* build_partial_recompute_plans; the plans themselves are PlanSound's matter.
BuildPartialRecomputePlans(mgr, S) ==
    {[mgr |-> [mgr EXCEPT !.map = o.map], raised |-> o.raised] :
       o \in BuildOutcomes(mgr.map, S)}

\* fork
Fork(mgr, list, parent) ==
    {[mgr |-> [mgr EXCEPT !.map = o.map], raised |-> o.raised] :
       o \in InTurn([method |-> "fork", parent |-> parent], mgr.map, list)}

\* free: the map forgets the sequence, and _swapped_sequences is left alone.
Free(mgr, list) == [mgr EXCEPT !.map = AllFreed(mgr.map, list)]

-----------------------------------------------------------------------------
(* Swapping. *)

\* can_swap_out for the running sequences S
CanSwapOut(mgr, S) ==
    \A g \in Groups :
      Cardinality(Entries(mgr.map, g, "kept", S)) <= Cardinality(mgr.cpu[g])

BugNothingEvicted(mgr, f, s) ==
    [length  |-> mgr.map.length[s],
     evicted |-> 0,
     tables  |-> [g \in Groups |->
                    LET K == Entries(mgr.map, g, "kept", {s})
                    IN  [l \in {k[3] : k \in K} |-> f[g][<<"kept", s, l>>]]]]

\* What swap_out records of s when f gives the CPU blocks.
SwapRecord(mgr, f, s) ==
    [length  |-> mgr.map.length[s],
     evicted |-> mgr.map.evicted[s],
     tables  |-> [g \in Groups |->
                    LET K == Entries(mgr.map, g, "kept", {s})
                    IN  [l \in {k[3] : k \in K} |-> f[g][<<"kept", s, l>>]]]]

\* swap_out, once can_swap_out agrees: every retained block gets a CPU block,
\* then the sequences leave the map.
SwapOut(mgr, list) ==
    LET S == {list[i] : i \in DOMAIN list}
        Copies(g) == Injection(Entries(mgr.map, g, "kept", S), mgr.cpu[g])
    IN  {[map     |-> AllFreed(mgr.map, list),
          cpu     |-> [g \in Groups |-> mgr.cpu[g] \ Range(f[g])],
          swapped |-> [s \in DOMAIN mgr.swapped \cup S |->
                         IF s \in S THEN SwapRecord(mgr, f, s)
                                    ELSE mgr.swapped[s]]] :
           f \in {h \in [Groups -> UNION {Copies(g) : g \in Groups}] :
                    \A g \in Groups : h[g] \in Copies(g)}}

\* can_swap_in for the swapped sequences of list
CanSwapIn(mgr, list) ==
    LET Size(g, i) == Cardinality(DOMAIN mgr.swapped[list[i]].tables[g])
        Required(g) == MapThenSumSet(LAMBDA i : Size(g, i), DOMAIN list)
    IN  IF \E i \in DOMAIN list : list[i] \notin DOMAIN mgr.swapped
        THEN "NEVER"
        ELSE IF \A g \in Groups : Required(g) <= NumFree(mgr.map, g)
        THEN "OK"
        ELSE "LATER"

BugReturnsIndexes(mgr, S, g) == UNION {DOMAIN mgr.swapped[s].tables[g] : s \in S}

BugReturnsOneGroup(mgr, S, g) ==
    UNION {Range(mgr.swapped[s].tables[g]) : s \in IF g = 0 THEN S ELSE {}}

Returned(mgr, S, g) == UNION {Range(mgr.swapped[s].tables[g]) : s \in S}

\* swap_in: the sequences get as many blocks as were recorded, and their CPU
\* blocks are free again.
SwapIn(mgr, list) ==
    LET S == {list[i] : i \in DOMAIN list}
        length == [s \in S |-> mgr.swapped[s].length]
        evicted == [s \in S |-> mgr.swapped[s].evicted]
    IN  {IF o.raised = "none"
         THEN [mgr |-> [map     |-> o.map,
                        cpu     |-> [g \in Groups |-> mgr.cpu[g] \cup Returned(mgr, S, g)],
                        swapped |-> Restrict(mgr.swapped, DOMAIN mgr.swapped \ S)],
               raised |-> "none"]
         ELSE [mgr |-> [mgr EXCEPT !.map = o.map], raised |-> o.raised] :
           o \in AllOrNothing(mgr.map, list, length, evicted)}

=============================================================================
