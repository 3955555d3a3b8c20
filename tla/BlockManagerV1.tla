---------------------------- MODULE BlockManagerV1 ----------------------------
(***************************************************************************)
(* The default block manager (src/vllm/core/block_manager_v1.py), in       *)
(* charge when store_cache_layers is 1.0, under the calls the scheduler    *)
(* makes.  Prefix caching is off: the allocators with caching cannot be    *)
(* built, the manager does not give them their flatten_layers.             *)
(*                                                                         *)
(* A manager is a value  m:  free blocks, reference counts, block tables   *)
(* (<<>> for a sequence without one), and what the model has written to    *)
(* the blocks, as the workers' copies and kernels leave it.  A token is    *)
(* named by the sequence that sampled it.  An outcome is a manager and the *)
(* exception raised, if any; after one the engine is gone.                 *)
(*                                                                         *)
(* Abstracted: the order of the free list, and the scheduler's order and   *)
(* limits: groups are admitted, run, preempted and swapped in one by one,  *)
(* under the manager's answers alone.                                      *)
(***************************************************************************)
EXTENDS Integers, FiniteSets, FiniteSetsExt, SequencesExt, Functions, Lists

CONSTANTS
    Requests, Seqs,
    SeqsOf,         \* [Requests -> Seq(Seqs)]: ids in order of creation, which
                    \* seq_counter gives once
    Beam,           \* requests that use beam search
    PromptLengths, MaxTokens,
    GpuBlocks, CpuBlocks,
    BlockSize,
    Window,         \* block_sliding_window, 0 without one
    Watermark,      \* watermark_blocks
    NumLayers,      \* layers of the model, and the default of flatten_layers
    FreshLayers     \* cache_layers of a new SequenceGroup

ASSUME V1Assumption ==
    /\ IsFiniteSet(Seqs)
    /\ SeqsOf \in [Requests -> Seq(Seqs)]
    /\ \A r \in Requests : SeqsOf[r] # <<>> /\ IsInjective(SeqsOf[r])
    /\ \A q, r \in Requests : q # r => ToSet(SeqsOf[q]) \cap ToSet(SeqsOf[r]) = {}
    /\ Beam \subseteq Requests
    /\ MaxTokens \in Nat /\ PromptLengths \subseteq 1 .. MaxTokens - 1
    /\ IsFiniteSet(GpuBlocks) /\ IsFiniteSet(CpuBlocks)
    /\ GpuBlocks \cap CpuBlocks = {}
    /\ BlockSize \in Nat \ {0} /\ NumLayers \in Nat \ {0}
    /\ Window \in Nat /\ Watermark \in Nat /\ FreshLayers \in Nat

VARIABLES
    m,        \* the block manager
    status,   \* SequenceStatus, "absent" before its birth
    tokens,   \* data.get_token_ids() of the sequences that are not finished
    layers,   \* cache_layers of the groups
    prefill,  \* sequences whose stage is PREFILL
    batch,    \* groups with slots, about to be executed
    fault     \* the exception that ended the engine

vars == <<m, status, tokens, layers, prefill, batch, fault>>

Blocks == GpuBlocks \cup CpuBlocks

Slots == 0 .. BlockSize - 1
Nothing == <<>>
Unwritten == [i \in Slots |-> Nothing]

EmptyManager == [free |-> Blocks,
                 refs |-> [b \in Blocks |-> 0],
                 table |-> [s \in Seqs |-> <<>>],
                 data |-> [b \in Blocks |-> Unwritten]]

Ok(n) == [m |-> n, raised |-> "none"]
Raise(n, what) == [m |-> n, raised |-> what]

SeqsIn(r, st) == Only(SeqsOf[r], {s \in Seqs : status[s] = st})
Having(st) == {r \in Requests : SeqsIn(r, st) # <<>>}
NumSeqs(r) == Len(Only(SeqsOf[r], {s \in Seqs : status[s] # "absent"}))
Unfinished(r) ==
    Only(SeqsOf[r], {s \in Seqs : status[s] \in {"waiting", "running", "swapped"}})

\* block_tables[s] = table
SetTable(n, s, table) ==
    [n EXCEPT !.table = [t \in Seqs |-> IF t = s THEN table ELSE n.table[t]]]

NumLogicalBlocks(n) == (n + BlockSize - 1) \div BlockSize

\* How often b is in the tables of the sequences of list.
Occurrences(n, list, b) ==
    Cardinality({place \in UNION {{s} \X DOMAIN n.table[s] : s \in ToSet(list)} :
                   n.table[place[1]][place[2]] = b})

NumFreeGpu == Cardinality(m.free \cap GpuBlocks)

-----------------------------------------------------------------------------
(* The allocators. *)

\* free, times[b] times for every b in its domain; the content of a free block is
\* of no interest.
FreeEach(n, times) ==
    LET S == DOMAIN times
        gone == {b \in S : times[b] = n.refs[b]}
    IN  IF \E b \in S : times[b] > n.refs[b]
        THEN Raise(n, "double free")
        ELSE Ok([n EXCEPT !.free = @ \cup gone,
                          !.refs = [b \in Blocks |-> IF b \in S THEN n.refs[b] - times[b] ELSE n.refs[b]],
                          !.data = [b \in Blocks |-> IF b \in gone THEN Unwritten ELSE n.data[b]]])

Once(S) == [b \in S |-> 1]

\* allocate, when it gives b
Given(n, b) == [n EXCEPT !.free = @ \ {b}, !.refs[b] = 1]

\* A free block for each member of S.
Takes(n, S, pool) == Injection(S, n.free \cap pool)

-----------------------------------------------------------------------------
(* Admission. *)

CanAllocate(r) ==
    LET blocks == NumLogicalBlocks(Len(tokens[SeqsIn(r, "waiting")[1]]))
        scaled == (layers[r] \div NumLayers) * blocks
        required == IF Window = 0 THEN scaled ELSE Min({scaled, Window})
    IN  IF Cardinality(GpuBlocks) - required < Watermark THEN "NEVER"
        ELSE IF NumFreeGpu - required >= Watermark THEN "OK"
        ELSE "LATER"

\* allocate: the first waiting sequence's blocks, for all that wait; past the
\* sliding window the table goes round.
Allocate(r) ==
    LET waiting == SeqsIn(r, "waiting")
        blocks == NumLogicalBlocks(Len(tokens[waiting[1]]))
        fresh == 1 .. (IF Window = 0 THEN blocks ELSE Min({blocks, Window}))
        Table(f) == [i \in 1 .. blocks |-> f[((i - 1) % Cardinality(fresh)) + 1]]
    IN  IF Takes(m, fresh, GpuBlocks) = {}
        THEN {Raise(m, "allocate")}
        ELSE {Ok([m EXCEPT
                !.free = @ \ Range(f),
                !.refs = [b \in Blocks |-> IF b \in Range(f) THEN NumSeqs(r) ELSE m.refs[b]],
                !.table = [s \in Seqs |-> IF s \in ToSet(waiting) THEN Table(f) ELSE m.table[s]]]) :
                f \in Takes(m, fresh, GpuBlocks)}

-----------------------------------------------------------------------------
(* Decoding. *)

CanAppendSlots(r) == Len(SeqsIn(r, "running")) <= NumFreeGpu

BugNoCopyOnWrite(n, s) ==
    LET table == n.table[s]
    IN  IF Len(table) = NumLogicalBlocks(Len(tokens[s]))
        THEN {Ok(n)}
        ELSE {Ok(SetTable(Given(n, b), s, Append(table, b))) :
                b \in n.free \cap GpuBlocks}

\* append_slots of one sequence
AppendSlots(n, s) ==
    LET grows == Len(n.table[s]) < NumLogicalBlocks(Len(tokens[s]))
        reuses == grows /\ Window > 0 /\ Len(n.table[s]) >= Window
        table == IF reuses
                 THEN Append(n.table[s], n.table[s][(Len(n.table[s]) % Window) + 1])
                 ELSE n.table[s]
        last == table[Len(table)]
        available == n.free \cap GpuBlocks
        CopiedTo(b) == [SetTable(Given(n, b), s, [table EXCEPT ![Len(table)] = b])
                          EXCEPT !.data[b] = n.data[last]]
    IN  IF grows /\ ~reuses
        THEN IF available = {}
             THEN {Raise(n, "append")}
             ELSE {Ok(SetTable(Given(n, b), s, Append(table, b))) : b \in available}
        ELSE IF n.refs[last] = 1
        THEN {Ok(SetTable(n, s, table))}
        ELSE IF available = {}
        THEN {Raise(n, "append")}
        ELSE {FreeEach(CopiedTo(b), Once({last})) : b \in available}

\* _append_slots of the scheduler: every running sequence of a group, in turn
AppendAll(n, list) ==
    LET after[i \in 0 .. Len(list)] ==
          IF i = 0
          THEN {Ok(n)}
          ELSE UNION {IF o.raised = "none" THEN AppendSlots(o.m, list[i]) ELSE {o} :
                        o \in after[i - 1]}
    IN  after[Len(list)]

BugForkUncounted(n, parent, child) == SetTable(n, child, n.table[parent])

\* fork
Fork(n, parent, child) ==
    [SetTable(n, child, n.table[parent]) EXCEPT
       !.refs = [b \in Blocks |-> IF b \in Range(n.table[parent]) THEN n.refs[b] + 1 ELSE n.refs[b]]]

\* The new children of a step, one after the other.
ForkAll(n, parent, list) ==
    LET after[i \in 0 .. Len(list)] ==
          IF i = 0 THEN n ELSE Fork(after[i - 1], parent[list[i]], list[i])
    IN  after[Len(list)]

BugTableStays(n, s) == FreeEach(n, Once(Range(n.table[s])))

\* free: _free_block_table of the last blocks, one window of them, and the
\* table is gone
FreeSeq(n, s) ==
    LET table == n.table[s]
        tail == IF Window = 0 THEN table
                ELSE SubSeq(table, Max({1, Len(table) - Window + 1}), Len(table))
        o == FreeEach(n, Once(Range(tail)))
    IN  [o EXCEPT !.m = SetTable(o.m, s, <<>>)]

FreeAll(n, list) ==
    LET after[i \in 0 .. Len(list)] ==
          IF i = 0 THEN Ok(n)
          ELSE IF after[i - 1].raised = "none" THEN FreeSeq(after[i - 1].m, list[i])
          ELSE after[i - 1]
    IN  after[Len(list)]

-----------------------------------------------------------------------------
(* Swapping. *)

\* _get_physical_blocks
PhysicalBlocks(r) == UNION {Range(m.table[s]) : s \in ToSet(Unfinished(r))}

CanSwapOut(r) == Cardinality(PhysicalBlocks(r)) <= Cardinality(m.free \cap CpuBlocks)

BugNoRoomToAppend(r) ==
    LET required == Cardinality(PhysicalBlocks(r))
    IN  IF Cardinality(GpuBlocks) < required THEN "NEVER"
        ELSE IF NumFreeGpu - required >= Watermark THEN "OK"
        ELSE "LATER"

CanSwapIn(r) ==
    LET required == Cardinality(PhysicalBlocks(r)) + Len(SeqsIn(r, "swapped"))
    IN  IF Cardinality(GpuBlocks) < required THEN "NEVER"
        ELSE IF NumFreeGpu - required >= Watermark THEN "OK"
        ELSE "LATER"

\* swap_out and swap_in of the sequences of list to the blocks of pool: a block
\* that several tables have, or one has several times, is moved once; each
\* occurrence counts as a reference to the new and a free of the old one.
Swap(n, list, pool) ==
    LET old == UNION {Range(n.table[s]) : s \in ToSet(list)}
        Origin(f, b) == CHOOSE a \in old : f[a] = b
        Moved(f) ==
          [n EXCEPT !.free = @ \ Range(f),
                    !.refs = [b \in Blocks |-> IF b \in Range(f)
                                               THEN Occurrences(n, list, Origin(f, b))
                                               ELSE n.refs[b]],
                    !.data = [b \in Blocks |-> IF b \in Range(f) THEN n.data[Origin(f, b)]
                                                                 ELSE n.data[b]],
                    !.table = [s \in Seqs |-> IF s \in ToSet(list)
                                              THEN [i \in DOMAIN n.table[s] |-> f[n.table[s][i]]]
                                              ELSE n.table[s]]]
    IN  IF Takes(n, old, pool) = {}
        THEN {Raise(n, "swap")}
        ELSE {FreeEach(Moved(f), [b \in old |-> Occurrences(n, list, b)]) :
                f \in Takes(n, old, pool)}

-----------------------------------------------------------------------------
(* The calls of the scheduler. *)

Init ==
    /\ m = EmptyManager
    /\ status = [s \in Seqs |-> "absent"]
    /\ tokens = [s \in Seqs |-> <<>>]
    /\ prefill = {}
    /\ layers = [r \in Requests |-> FreshLayers]
    /\ batch = {}
    /\ fault = "none"

Up == fault = "none"

Call(o) == m' = o.m /\ fault' = o.raised

SetStatus(list, st) ==
    status' = [s \in Seqs |-> IF s \in ToSet(list) THEN st ELSE status[s]]

Forget(list) ==
    tokens' = [s \in Seqs |-> IF s \in ToSet(list) THEN <<>> ELSE tokens[s]]

\* The stage of a group is that of its first sequence, finished or not.
IsPrefill(r) == SeqsOf[r][1] \in prefill

\* _schedule_*, with the outcome o of the manager's calls, and the metadata: it updates
\* cache_layers and asserts that a group in its prefill has one sequence.
Scheduled(r, o) ==
    /\ m' = o.m
    /\ fault' = IF o.raised = "none" /\ IsPrefill(r) /\ NumSeqs(r) # 1
                THEN "prefill of several sequences"
                ELSE o.raised
    /\ batch' = batch \cup {r}
    /\ layers' = [layers EXCEPT ![r] = NumLayers]

AddSeqGroup(r, k) ==
    LET s == SeqsOf[r][1]
    IN  /\ Up /\ status[s] = "absent"
        /\ status' = [status EXCEPT ![s] = "waiting"]
        /\ tokens' = [tokens EXCEPT ![s] = [i \in 1 .. k |-> s]]
        /\ prefill' = prefill \cup {s}
        /\ UNCHANGED <<m, layers, batch, fault>>

\* Prompts wait while anything is swapped.
AllocateAndSetRunning(r) ==
    /\ Up /\ Having("swapped") = {} /\ r \in Having("waiting")
    /\ CanAllocate(r) = "OK"
    /\ \E o \in Allocate(r) : Scheduled(r, o)
    /\ SetStatus(SeqsIn(r, "waiting"), "running")
    /\ UNCHANGED <<tokens, prefill>>

IgnoreSeqGroup(r) ==
    /\ Up /\ Having("swapped") = {} /\ r \in Having("waiting")
    /\ CanAllocate(r) = "NEVER"
    /\ SetStatus(SeqsIn(r, "waiting"), "finished")
    /\ Forget(SeqsIn(r, "waiting"))
    /\ prefill' = prefill \ ToSet(SeqsIn(r, "waiting"))
    /\ UNCHANGED <<m, layers, batch, fault>>

Queued == Having("running") \ batch

ScheduleRunning(r) ==
    /\ Up /\ r \in Queued
    /\ CanAppendSlots(r)
    /\ \E o \in AppendAll(m, SeqsIn(r, "running")) : Scheduled(r, o)
    /\ UNCHANGED <<status, tokens, prefill>>

\* get_max_num_running_seqs
MaxNumRunningSeqs(r) ==
    IF r \in Beam \/ Len(SeqsOf[r]) > NumSeqs(r)
    THEN Len(SeqsOf[r])
    ELSE Len(Unfinished(r))

PreemptByRecompute(v) ==
    /\ Call(FreeAll(m, SeqsIn(v, "running")))
    /\ SetStatus(SeqsIn(v, "running"), "waiting")
    /\ prefill' = prefill \cup ToSet(SeqsIn(v, "running"))

PreemptBySwap(v) ==
    /\ IF CanSwapOut(v)
       THEN /\ \E o \in Swap(m, SeqsIn(v, "running"), CpuBlocks) : Call(o)
            /\ SetStatus(SeqsIn(v, "running"), "swapped")
       ELSE /\ fault' = "CPU swap space"
            /\ UNCHANGED <<m, status>>
    /\ UNCHANGED prefill

\* Another queued group makes room for r, or r itself if it is the last one.
Preempt(r, v) ==
    /\ Up /\ r \in Queued /\ ~CanAppendSlots(r)
    /\ v \in IF Queued = {r} THEN {r} ELSE Queued \ {r}
    /\ IF MaxNumRunningSeqs(v) = 1 THEN PreemptByRecompute(v) ELSE PreemptBySwap(v)
    /\ UNCHANGED <<tokens, layers, batch>>

ScheduleSwapped(r) ==
    LET swapped == SeqsIn(r, "swapped")
    IN  /\ Up /\ r \in Having("swapped") /\ Queued = {}
        /\ CanSwapIn(r) = "OK"
        /\ \E o \in Swap(m, swapped, GpuBlocks) :
             \E p \in IF o.raised = "none" THEN AppendAll(o.m, swapped) ELSE {o} :
               Scheduled(r, p)
        /\ SetStatus(swapped, "running")
        /\ UNCHANGED <<tokens, prefill>>

\* The group is dropped, and its tables with the CPU blocks stay.
DropSwapped(r) ==
    /\ Up /\ r \in Having("swapped") /\ Queued = {}
    /\ CanSwapIn(r) = "NEVER"
    /\ SetStatus(SeqsIn(r, "swapped"), "finished")
    /\ Forget(SeqsIn(r, "swapped"))
    /\ UNCHANGED <<m, layers, prefill, batch, fault>>

\* The model writes the token at each position of P, one after the other.
WriteKV(n, s, P) ==
    LET Block(p) == n.table[s][NumLogicalBlocks(p)]
        Slot(p) == (p - 1) % BlockSize
        Newest(b, i) == Max({p \in P : Block(p) = b /\ Slot(p) = i})
        Hit(b, i) == \E p \in P : Block(p) = b /\ Slot(p) = i
    IN  [n EXCEPT !.data = [b \in Blocks |->
           [i \in Slots |-> IF Hit(b, i)
                            THEN <<tokens[s][Newest(b, i)], Newest(b, i)>>
                            ELSE n.data[b][i]]]]

\* What the model computes of a sequence of r: the whole prompt, or the newest token.
Positions(r, s) == IF IsPrefill(r) THEN DOMAIN tokens[s] ELSE {Len(tokens[s])}

Execute(r) ==
    LET list == SeqsIn(r, "running")
        after[i \in 0 .. Len(list)] ==
          IF i = 0 THEN m ELSE WriteKV(after[i - 1], list[i], Positions(r, list[i]))
    IN  after[Len(list)]

\* The model runs, then process_outputs: each running sequence gets a token;
\* born are its new children, ended the sequences that stop.  Without beam
\* search all children are born of the prompt.
ProcessOutputs(r) ==
    LET running == SeqsIn(r, "running")
        absent == SeqsIn(r, "absent")
    IN  /\ Up /\ r \in batch
        /\ \E n \in IF r \in Beam THEN 0 .. Len(absent) ELSE {Len(absent)} :
           LET born == ToSet(SubSeq(absent, 1, n))
               now == ToSet(running) \cup born
           IN  \E parent \in [born -> ToSet(running)], ended \in SUBSET now :
               LET list(s) == Append(tokens[IF s \in born THEN parent[s] ELSE s], s)
                   forked == ForkAll(Execute(r), parent, Only(absent, born \ ended))
               IN  /\ \A s \in now : Len(list(s)) = MaxTokens => s \in ended
                   /\ Call(FreeAll(forked, Only(running, ended)))
                   /\ tokens' = [s \in Seqs |-> IF s \in ended THEN <<>>
                                                ELSE IF s \in now THEN list(s)
                                                ELSE tokens[s]]
                   /\ status' = [s \in Seqs |-> IF s \in ended THEN "finished"
                                                ELSE IF s \in now THEN "running"
                                                ELSE status[s]]
        /\ prefill' = prefill \ ToSet(running)
        /\ batch' = batch \ {r}
        /\ UNCHANGED layers

AbortSeqGroup(r) ==
    /\ Up /\ r \notin batch /\ Unfinished(r) # <<>>
    /\ Call(FreeAll(m, Unfinished(r)))
    /\ SetStatus(Unfinished(r), "finished")
    /\ Forget(Unfinished(r))
    /\ prefill' = prefill \ ToSet(Unfinished(r))
    /\ UNCHANGED <<layers, batch>>

-----------------------------------------------------------------------------

Next ==
    \/ \E r \in Requests, k \in PromptLengths : AddSeqGroup(r, k)
    \/ \E r \in Requests : AllocateAndSetRunning(r)
    \/ \E r \in Requests : IgnoreSeqGroup(r)
    \/ \E r \in Requests : ScheduleRunning(r)
    \/ \E r, v \in Requests : Preempt(r, v)
    \/ \E r \in Requests : ScheduleSwapped(r)
    \/ \E r \in Requests : DropSwapped(r)
    \/ \E r \in Requests : ProcessOutputs(r)
    \/ \E r \in Requests : AbortSeqGroup(r)

Spec == Init /\ [][Next]_vars

-----------------------------------------------------------------------------
(* Properties. *)

\* Types, and tables on the device the status says: GPU blocks for a running
\* sequence, CPU blocks for a swapped one, none for one that waits.
TypeOK ==
    /\ m.free \subseteq Blocks
    /\ m.refs \in [Blocks -> Nat]
    /\ m.data \in [Blocks -> [Slots -> {Nothing} \cup (Seqs \X (1 .. MaxTokens))]]
    /\ layers \in [Requests -> Nat]
    /\ batch \subseteq Requests /\ prefill \subseteq Seqs
    /\ \A s \in Seqs :
         /\ tokens[s] \in BoundedSeq(Seqs, MaxTokens)
         /\ Range(m.table[s]) \subseteq CASE status[s] = "running" -> GpuBlocks
                                         [] status[s] = "swapped" -> CpuBlocks
                                         [] status[s] = "finished" -> CpuBlocks
                                         [] OTHER -> {}

\* The reference count of a block is the number of tables that have it, and
\* the free list has the blocks of no table: blocks are neither lost nor given
\* to two owners, through forks, copies on write, both preemptions, and the
\* shared blocks of a group that go to the CPU and back.
RefsExact ==
    Up => \A b \in Blocks :
            /\ m.refs[b] = Cardinality({s \in Seqs : b \in Range(m.table[s])})
            /\ b \in m.free <=> m.refs[b] = 0

\* The cache of a running sequence holds its own tokens, all but the newest:
\* no other sequence wrote over them, and no copy or swap mixed blocks up.
KVIntact ==
    Up => \A s \in Seqs : status[s] = "running" /\ s \notin prefill =>
            \A p \in 1 .. Len(tokens[s]) - 1 :
              Window = 0 \/ p > Len(tokens[s]) - Window * BlockSize =>
                m.data[m.table[s][NumLogicalBlocks(p)]][(p - 1) % BlockSize]
                  = <<tokens[s][p], p>>

\* No call that the manager was asked about first runs out of blocks, and
\* nothing is freed twice: but for allocate(), where can_allocate counts
\* int(cache_layers / num_layers) of the prompt's blocks, none of them in a model
\* of more layers than a new group's cache_layers.
CheckedCallsSucceed ==
    /\ fault \notin {"append", "swap", "double free"}
    /\ fault = "allocate" => FreshLayers < NumLayers

-----------------------------------------------------------------------------
(* What the code says of the manager and some execution of it contradicts. *)

\* interfaces.py, AllocStatus: "Ok: seq_group can be allocated now."
OkMeansNow == fault # "allocate"

=============================================================================
