------------------------------ MODULE ELLMWorker ------------------------------
(***************************************************************************)
(* The worker (src/vllm/worker/worker.py and cache_engine.py) under the    *)
(* scheduler of eLLM: what its CUDA streams do to the KV cache.            *)
(*                                                                         *)
(* Each step the scheduler hands over blocks to swap out, to swap in and   *)
(* to copy, and a batch.  The worker puts transfers on two streams of      *)
(* their own and copies and the model, layer group by layer group, on the  *)
(* compute stream; events order what it believes to share blocks, and the  *)
(* rest runs in any order.  The step ends when all of it is done: the      *)
(* sampled tokens are read, and the swap-out's event is synchronized.      *)
(*                                                                         *)
(* What is in a block is a slot's token, named by the sequence that        *)
(* sampled it and its position.  External: the kernels, which write and    *)
(* read the slots of the tables they are given.                            *)
(***************************************************************************)
EXTENDS ELLMScheduler

VARIABLES
    gpu,        \* gpu_cache: for each layer group the slots of its blocks
    cpu,        \* cpu_cache
    author,     \* who sampled each token of a sequence
    rows,       \* blocks_to_swap_out, blocks_to_swap_in, blocks_to_copy
    temps,      \* the temporary blocks of this step's plans
    used,       \* total_block_ids
    pending,    \* operations of this step that are not done
    spoiled     \* history: sequences that a known defect has touched

workerVars == <<gpu, cpu, author, rows, temps, used, pending, spoiled>>

Slots == 0 .. BlockSize - 1
Unwritten == [i \in Slots |-> <<>>]

\* The layer group's part of a table of keys to blocks: <<source, target>>.
NoRows == [g \in Groups |-> {}]
NoTemps == [g \in Groups |-> [k \in {} |-> k]]

WorkerInit ==
    /\ Init
    /\ gpu = [g \in Groups |-> [b \in Blocks |-> Unwritten]]
    /\ cpu = [g \in Groups |-> [c \in CpuBlocks |-> Unwritten]]
    /\ author = [s \in Seqs |-> <<>>]
    /\ rows = [out |-> NoRows, in |-> NoRows, copy |-> NoRows]
    /\ temps = NoTemps
    /\ used = {}
    /\ pending = {}
    /\ spoiled = {}

-----------------------------------------------------------------------------
(* What the scheduler hands over. *)

Table(m, g) == m.cells[g].table

\* swap_out
OutRows(g) ==
    UNION {{<<Table(mgr.map, g)[<<"kept", s, l>>], mgr'.swapped[s].tables[g][l]>> :
              l \in DOMAIN mgr'.swapped[s].tables[g]} :
             s \in DOMAIN mgr'.swapped \ DOMAIN mgr.swapped}

\* swap_in
InRows(g) ==
    UNION {{<<mgr.swapped[s].tables[g][l], Table(mgr'.map, g)[<<"kept", s, l>>]>> :
              l \in DOMAIN mgr.swapped[s].tables[g]} :
             s \in DOMAIN mgr.swapped \ DOMAIN mgr'.swapped}

\* append_token, copy on write
CopyRows(g) ==
    LET old == Table(mgr.map, g)
        new == Table(mgr'.map, g)
    IN  {<<old[k], new[k]>> : k \in {h \in DOMAIN old \cap DOMAIN new : old[h] # new[h]}}

HandOver ==
    rows' = [out  |-> [g \in Groups |-> rows.out[g] \cup OutRows(g)],
             in   |-> [g \in Groups |-> rows.in[g] \cup InRows(g)],
             copy |-> [g \in Groups |-> rows.copy[g] \cup CopyRows(g)]]

\* A child has the blocks of its parent.
Parent(s) ==
    CHOOSE p \in Seqs : /\ mgr.map.length[p] > 0
                        /\ mgr.map.evicted[p] = mgr'.map.evicted[s]
                        /\ \A g \in Groups, l \in LogicalBlocks :
                             <<"kept", s, l>> \in DOMAIN Table(mgr'.map, g) =>
                               Table(mgr.map, g)[<<"kept", p, l>>]
                                 = Table(mgr'.map, g)[<<"kept", s, l>>]

\* The tokens of s after the sequence has changed.
NewAuthors(s) ==
    CASE length'[s] = 0 -> <<>>
      [] length'[s] = length[s] -> author[s]
      [] status'[s] = "waiting" -> [i \in 1 .. length'[s] |-> s]
      [] length[s] > 0 -> Append(author[s], s)
      [] OTHER -> Append(author[Parent(s)], s)

Running(G) == UNION {ToSet(SeqsIn(r, "running")) : r \in G}

\* Sequences of the batch that decode, as their group is in that stage.
Decoding == Running({r \in batch : ~IsPrefill(r)})

Ops(kind) == {kind} \X Groups


\* total_block_ids: what the batch uses of a group before the plans are built.
BatchBlocks(m, g) == Range(Restrict(Table(m, g), Entries(m, g, "kept", Running(batch))))

\* Sequences whose blocks, on their way out, a plan of this step uses.
Raced ==
    {s \in DOMAIN mgr.swapped : \E g \in Groups : \E row \in rows.out[g] :
       /\ row[1] \in Range(temps'[g])
       /\ row[2] \in Range(mgr.swapped[s].tables[g])}

\* The worker starts.  The temporary blocks of the plans are any free ones.
Launch ==
    LET Evicted == \E s \in Decoding : mgr'.map.evicted[s] > 0
        Temps(g) == Injection(PrefixKeys(mgr'.map, Decoding), mgr'.map.cells[g].free)
    IN  /\ temps' \in IF Evicted
                      THEN {f \in [Groups -> UNION {Temps(g) : g \in Groups}] :
                              \A g \in Groups : f[g] \in Temps(g)}
                      ELSE {NoTemps}
        /\ used' = UNION {BatchBlocks(mgr.map, g) : g \in Groups}
        /\ pending' = {<<kind, g>> \in {"out", "in", "copy"} \X Groups : rows[kind][g] # {}}
                        \cup IF batch = {} THEN {} ELSE Ops("model")
        /\ spoiled' = spoiled \cup (Decoding \cap prefill) \cup Raced

\* What free blocks hold is of no use to anyone.
Cleared(cache, free) ==
    [g \in Groups |-> [b \in DOMAIN cache[g] |->
                         IF b \in free[g] THEN Unwritten ELSE cache[g][b]]]

\* A step of the scheduler or the output processor, with no work outstanding.
EngineStep ==
    LET born == {s \in Seqs : length[s] = 0 /\ length'[s] > 0 /\ status'[s] = "running"}
    IN  /\ pending = {}
        /\ Next
        /\ author' = [s \in Seqs |-> NewAuthors(s)]
        /\ HandOver
        /\ IF phase \in {"idle", "executing"}
           THEN /\ gpu' = Cleared(gpu, [g \in Groups |-> mgr'.map.cells[g].free])
                /\ cpu' = Cleared(cpu, mgr'.cpu)
           ELSE UNCHANGED <<gpu, cpu>>
        /\ IF phase = "metadata" /\ fault' = "none"
           THEN Launch
           ELSE /\ UNCHANGED <<temps, used, pending>>
                /\ spoiled' = {s \in Seqs : length'[s] > 0 /\
                                 IF s \in born THEN Parent(s) \in spoiled ELSE s \in spoiled}

-----------------------------------------------------------------------------
(* What the worker does. *)

Sources == UNION {{row[1] : row \in rows.out[g]} : g \in Groups}
Targets(kind) == UNION {{row[2] : row \in rows[kind][g]} : g \in Groups}

\* cache_swap_async compares block ids of all layer groups with one another.
InWaits == Targets("in") \cap Sources # {}
CopyWaits == Targets("copy") \cap Sources # {}

BugModelNeverWaits == FALSE

\* wait_for_swap_out
ModelWaits == used \cap Sources # {}

BugSwapInForgotten(kind, g) ==
    {kind} \X (0 .. g - 1) \cup IF kind = "model" THEN Ops("copy") ELSE {}

\* Operations that an operation follows on its stream or waits for by an event.
Needs(kind, g) ==
    LET before == {kind} \X (0 .. g - 1)
        outs(wait) == IF wait THEN Ops("out") ELSE {}
    IN  CASE kind = "out" -> before
          [] kind = "in" -> before \cup outs(InWaits)
          [] kind = "copy" -> before \cup Ops("in") \cup outs(CopyWaits)
          [] kind = "model" -> before \cup {"in"} \X (0 .. g) \cup Ops("copy")
                                 \cup outs(ModelWaits)

\* target[g] once the blocks of R have been copied from source[g]
Moved(target, source, g, R) ==
    [target EXCEPT ![g] =
       [b \in DOMAIN target[g] |->
          IF \E row \in R : row[2] = b
          THEN source[g][(CHOOSE row \in R : row[2] = b)[1]]
          ELSE target[g][b]]]

BlockOf(p) == (p - 1) \div BlockSize
SlotOf(p) == (p - 1) % BlockSize
Token(s, p) == <<author[s][p], p>>

\* The block of sequence s that holds position p for a decode in group g.
Place(s, p, g) ==
    LET temp == <<"temp", s, BlockOf(p)>>
    IN  IF temp \in DOMAIN temps[g] THEN temps[g][temp]
                                    ELSE Table(mgr.map, g)[<<"kept", s, BlockOf(p)>>]

\* Positions whose keys and values the model computes: a prompt's, or those of the
\* evicted prefix and the newest token.
Computed(s) ==
    IF s \in Decoding
    THEN 1 .. mgr.map.evicted[s] * BlockSize \cup {length[s]}
    ELSE 1 .. length[s]

\* gpu once the model's layers of group g have run
Written(g) ==
    LET writes == {<<Place(s, p, g), s, p>> :
                     <<s, p>> \in {q \in Running(batch) \X (1 .. MaxTokens) :
                                     q[2] \in Computed(q[1])}}
        At1(b, i) == {w \in writes : w[1] = b /\ SlotOf(w[3]) = i}
        Winner(b, i) == CHOOSE w \in At1(b, i) : TRUE
    IN  [gpu EXCEPT ![g] =
           [b \in Blocks |-> [i \in Slots |->
              IF At1(b, i) = {} THEN gpu[g][b][i]
              ELSE Token(Winner(b, i)[2], Winner(b, i)[3])]]]

Run(kind, g) ==
    /\ <<kind, g>> \in pending
    /\ Needs(kind, g) \cap pending = {}
    /\ gpu' = CASE kind = "out" -> gpu
                [] kind = "in" -> Moved(gpu, cpu, g, rows.in[g])
                [] kind = "copy" -> Moved(gpu, gpu, g, rows.copy[g])
                [] kind = "model" -> Written(g)
    /\ cpu' = IF kind = "out" THEN Moved(cpu, gpu, g, rows.out[g]) ELSE cpu
    /\ pending' = pending \ {<<kind, g>>}
    /\ IF pending' = {}
       THEN /\ rows' = [out |-> NoRows, in |-> NoRows, copy |-> NoRows]
            /\ temps' = NoTemps
            /\ used' = {}
       ELSE UNCHANGED <<rows, temps, used>>
    /\ UNCHANGED <<vars, author, spoiled>>

WorkerNext ==
    \/ EngineStep
    \/ \E kind \in {"out", "in", "copy", "model"}, g \in Groups : Run(kind, g)

WorkerSpec == WorkerInit /\ [][WorkerNext]_<<vars, workerVars>>

-----------------------------------------------------------------------------
(* Properties. *)

Right(block, s, p) == block[SlotOf(p)] = Token(s, p)

KeptOnGpu(s) ==
    \A g \in Groups : \A p \in mgr.map.evicted[s] * BlockSize + 1 .. mgr.map.length[s] :
      Right(gpu[g][Table(mgr.map, g)[<<"kept", s, BlockOf(p)>>]], s, p)

KeptOnCpu(s) ==
    \A g \in Groups :
      \A p \in mgr.swapped[s].evicted * BlockSize + 1 .. mgr.swapped[s].length :
        Right(cpu[g][mgr.swapped[s].tables[g][BlockOf(p)]], s, p)

\* No transfer, copy or layer is outstanding, and none will be before the next
\* scheduled iteration.
Settled == pending = {} /\ phase \in {"idle", "executing"} /\ fault = "none"

\* Between steps the blocks of a sequence hold the keys and values of its own
\* tokens in every layer group, on the GPU or swapped out: after any order of
\* swaps, copies and layers that the streams allow, forks, copies on write,
\* evictions and both preemptions.  Exceptions: what two defects have touched.
KVKept ==
    Settled =>
      \A s \in Seqs \ spoiled :
        /\ status[s] = "running" => KeptOnGpu(s)
        /\ status[s] = "swapped" => KeptOnCpu(s)

\* When the layers of a group have run, every position that a decode reads,
\* recomputed, swapped in, copied or kept, holds the right token.
ReadsRight ==
    [][\A g \in Groups : <<"model", g>> \in pending \ pending' =>
         \A s \in Decoding \ spoiled : \A p \in 1 .. length[s] :
           Right(gpu'[g][Place(s, p, g)], s, p)]_<<vars, workerVars>>

-----------------------------------------------------------------------------
(* What a test of the code says and some execution of it contradicts. *)

\* test_ellm_swap.py, test_worker_adds_dependencies_only_for_reused_swap_out_blocks:
\* a swap-out is waited for when its blocks are used again.  The temporary blocks
\* of recompute plans are not among total_block_ids.
SwapOutFinishesFirst ==
    Settled => \A s \in Seqs : status[s] = "swapped" => KeptOnCpu(s)

=============================================================================
