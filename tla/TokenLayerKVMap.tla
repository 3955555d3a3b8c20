-------------------------- MODULE TokenLayerKVMap --------------------------
(***************************************************************************)
(* The KV block map of eLLM (src/vllm/core/ellm_cache.py).                 *)
(*                                                                         *)
(* The model's layers are cut into consecutive groups, and every group has *)
(* a pool of physical blocks of its own.  A sequence holds, in every       *)
(* group, the blocks of its retained suffix; while a group recomputes an   *)
(* evicted prefix it also holds temporary blocks in that group only.       *)
(*                                                                         *)
(* The map is a value  m  with three parts:                                *)
(*   m.cells[g]   the pool of group g: its free list, its reference counts *)
(*                and its two dictionaries of entries, here one table      *)
(*                keyed by <<kind, sequence, logical block>>;              *)
(*   m.length[s]  _sequence_lengths (0: the sequence is not in the map);   *)
(*   m.evicted[s] _evicted_prefix_blocks.                                  *)
(* Every method is an operator that maps m to the set of its outcomes, so  *)
(* that the block manager can call several in one step; an outcome is the  *)
(* new map and the exception raised, if any.                               *)
(*                                                                         *)
(* Abstracted: physical blocks are interchangeable, so the free deque is a *)
(* set and a grant takes any free block; num_filled, token_start and       *)
(* layer_start are written and never read back.                            *)
(*                                                                         *)
(* A definition whose name starts with Bug is the next definition with a   *)
(* plausible mistake; it shows that a property can fail.                   *)
(***************************************************************************)
EXTENDS Integers, FiniteSets, Functions

CONSTANTS
    Seqs,        \* sequence ids
    Blocks,      \* physical blocks of one layer group
    NumGroups,   \* consecutive layer groups
    BlockSize,   \* tokens per block
    MaxTokens    \* bound: length of a sequence

ASSUME SizesAssumption ==
    /\ NumGroups \in Nat \ {0}
    /\ BlockSize \in Nat \ {0}
    /\ MaxTokens \in Nat \ {0}

ASSUME FiniteAssumption == IsFiniteSet(Seqs) /\ IsFiniteSet(Blocks)

Groups == 0 .. NumGroups - 1

NumLogicalBlocks(n) == (n + BlockSize - 1) \div BlockSize

LogicalBlocks == 0 .. NumLogicalBlocks(MaxTokens) - 1

\* "kept" keys are _entries, "temp" keys _temporary_entries, and "copy" keys
\* the local dictionary of append_token while copy-on-write is under way.
Keys == {"kept", "temp", "copy"} \X Seqs \X LogicalBlocks

KeysOf(kind, S, L) == {kind} \X S \X L

-----------------------------------------------------------------------------
(* One layer group's pool. *)

Merged(f, t) == [k \in DOMAIN f \cup DOMAIN t |->
                   IF k \in DOMAIN f THEN f[k] ELSE t[k]]

Users(c, K, b) == {k \in K : c.table[k] = b}

\* Entries f enter the table; a block counts one more user per new entry, and
\* a block taken from the free list leaves it.
Added(c, f) ==
    [free  |-> c.free \ Range(f),
     refs  |-> [b \in Blocks |->
                  c.refs[b] + Cardinality({k \in DOMAIN f : f[k] = b})],
     table |-> Merged(f, c.table)]

BugFreesShared(c, K) ==
    [free  |-> c.free \cup {b \in Blocks : Users(c, K, b) # {}},
     refs  |-> [b \in Blocks |-> c.refs[b] - Cardinality(Users(c, K, b))],
     table |-> Restrict(c.table, DOMAIN c.table \ K)]

\* Entries K leave the table; a block that loses its last user becomes free.
Dropped(c, K) ==
    LET refs == [b \in Blocks |-> c.refs[b] - Cardinality(Users(c, K, b))]
    IN  [free  |-> c.free \cup {b \in Blocks : Users(c, K, b) # {} /\ refs[b] = 0},
         refs  |-> refs,
         table |-> Restrict(c.table, DOMAIN c.table \ K)]

EmptyCell == [free |-> Blocks, refs |-> [b \in Blocks |-> 0],
              table |-> [k \in {} |-> k]]

\* The entries of a sequence in one group.
Entries(m, g, kind, S) ==
    {k \in DOMAIN m.cells[g].table : k[1] = kind /\ k[2] \in S}

Recomputing(m, S) == \E g \in Groups : Entries(m, g, "temp", S) # {}

Present(m) == {s \in Seqs : m.length[s] > 0}

-----------------------------------------------------------------------------
(* The allocation loop: one block for every key of K[g], group by group.   *)
(* It stops at the first group that runs out of blocks, with whatever it   *)
(* took before.                                                            *)

Fits(m, K, g) == Cardinality(K[g]) <= Cardinality(m.cells[g].free)

Grantable(m, K, g) ==
    IF \E h \in 0 .. g - 1 : ~Fits(m, K, h)
    THEN {[k \in {} |-> k]}
    ELSE IF Fits(m, K, g)
    THEN Injection(K[g], m.cells[g].free)
    ELSE UNION {Injection(T, m.cells[g].free) :
                  T \in {U \in SUBSET K[g] :
                           Cardinality(U) = Cardinality(m.cells[g].free)}}

\* m with new pools, and length n and evicted prefix e for sequence s.
With(m, cells, s, n, e) ==
    [cells   |-> cells,
     length  |-> [m.length EXCEPT ![s] = n],
     evicted |-> [m.evicted EXCEPT ![s] = e]]

\* What the loop may have taken, in every group, when it stops.
Grants(m, K) ==
    {f \in [Groups -> UNION {Grantable(m, K, g) : g \in Groups}] :
       \A g \in Groups : f[g] \in Grantable(m, K, g)}

Taken(m, f) == [m EXCEPT !.cells = [g \in Groups |-> Added(m.cells[g], f[g])]]

BugNotRolledBack(m, f) == Taken(m, f)

\* The except clauses: every entry of this call is popped and freed.
RolledBack(m, f) ==
    LET t == Taken(m, f)
    IN  [m EXCEPT !.cells = [g \in Groups |-> Dropped(t.cells[g], DOMAIN f[g])]]

Done(m) == [map |-> m, raised |-> "none"]
Raised(m, e) == [map |-> m, raised |-> e]

-----------------------------------------------------------------------------
(* The methods. *)

\* allocate_sequence_with_evicted_prefix; e counts blocks.
AllocateOutcomes(m, s, n, e) ==
    LET K == [g \in Groups |->
                KeysOf("kept", {s}, e .. NumLogicalBlocks(n) - 1)]
    IN  IF s \in Present(m)
        THEN {Raised(m, "ValueError")}
        ELSE {IF \A g \in Groups : Fits(m, K, g)
              THEN Done(With(m, Taken(m, f).cells, s, n, e))
              ELSE Raised(RolledBack(m, f), "RuntimeError") : f \in Grants(m, K)}

\* append_token when the tail block is full: one more block in every group.
NewBlockOutcomes(m, s) ==
    LET K == [g \in Groups |->
                {<<"kept", s, NumLogicalBlocks(m.length[s])>>}]
    IN  {IF \A g \in Groups : Fits(m, K, g)
         THEN Done(With(m, Taken(m, f).cells, s, m.length[s] + 1, m.evicted[s]))
         ELSE Raised(RolledBack(m, f), "RuntimeError") : f \in Grants(m, K)}

TailKey(m, s) == <<"kept", s, NumLogicalBlocks(m.length[s]) - 1>>

BugBlockOfGroup0(m, s, g) == m.cells[g].refs[m.cells[0].table[TailKey(m, s)]]

TailRefs(m, s, g) == m.cells[g].refs[m.cells[g].table[TailKey(m, s)]]

\* append_token inside the tail block: a group whose tail block is shared
\* writes to a private copy, and all copies are taken before any is used.
CopyOnWriteOutcomes(m, s) ==
    LET tail == TailKey(m, s)
        copy == <<"copy", s, tail[3]>>
        K == [g \in Groups |-> IF TailRefs(m, s, g) > 1 THEN {copy} ELSE {}]
        Switched(c, f) == Added(Dropped(c, {tail}), [k \in {tail} |-> f[copy]])
    IN  {IF \A g \in Groups : Fits(m, K, g)
         THEN Done(With(m, [g \in Groups |->
                              IF K[g] = {} THEN m.cells[g]
                                           ELSE Switched(m.cells[g], f[g])],
                        s, m.length[s] + 1, m.evicted[s]))
         ELSE Raised(RolledBack(m, f), "RuntimeError") : f \in Grants(m, K)}

BugNoCopy(m, s) ==
    IF NumLogicalBlocks(m.length[s] + 1) > NumLogicalBlocks(m.length[s])
    THEN NewBlockOutcomes(m, s)
    ELSE {Done(With(m, m.cells, s, m.length[s] + 1, m.evicted[s]))}

\* append_token
AppendOutcomes(m, s) ==
    IF NumLogicalBlocks(m.length[s] + 1) > NumLogicalBlocks(m.length[s])
    THEN NewBlockOutcomes(m, s)
    ELSE CopyOnWriteOutcomes(m, s)

\* fork_sequence: the child's keys name the blocks of the parent's.
ForkOutcomes(m, p, s) ==
    LET ParentKey(k) == <<"kept", p, k[3]>>
        ChildKeys(g) == {<<"kept", s, k[3]>> : k \in Entries(m, g, "kept", {p})}
        Shared(g) == [k \in ChildKeys(g) |-> m.cells[g].table[ParentKey(k)]]
    IN  IF s \in Present(m)
        THEN {Raised(m, "ValueError")}
        ELSE IF Recomputing(m, {p})
        THEN {Raised(m, "RuntimeError")}
        ELSE {Done(With(m, [g \in Groups |-> Added(m.cells[g], Shared(g))],
                        s, m.length[p], m.evicted[p]))}

\* evict_prefix down to p evicted blocks.
EvictOutcomes(m, s, p) ==
    LET Old == KeysOf("kept", {s}, m.evicted[s] .. p - 1)
    IN  IF Recomputing(m, Seqs)
        THEN {Raised(m, "RuntimeError")}
        ELSE IF p < m.evicted[s]
        THEN {Raised(m, "ValueError")}
        ELSE {Done(With(m, [g \in Groups |-> Dropped(m.cells[g], Old)],
                        s, m.length[s], p))}

BugKeepsEvicted(m, s) ==
    With(m, [g \in Groups |->
               Dropped(m.cells[g], {k \in DOMAIN m.cells[g].table : k[2] = s})],
         s, 0, m.evicted[s])

\* free_sequence: entries of both dictionaries, and nothing if there are none.
Freed(m, s) ==
    With(m, [g \in Groups |->
               Dropped(m.cells[g], {k \in DOMAIN m.cells[g].table : k[2] = s})],
         s, 0, 0)

\* get_decode_block_table: kept blocks, temporary ones for the prefix.
BlockTable(m, g, s) ==
    LET table == m.cells[g].table
        kept(l) == <<"kept", s, l>>
        temp(l) == <<"temp", s, l>>
    IN  [l \in {i \in LogicalBlocks : {kept(i), temp(i)} \cap DOMAIN table # {}} |->
           IF temp(l) \in DOMAIN table THEN table[temp(l)] ELSE table[kept(l)]]

BugPrefixOneShort(m, S) ==
    UNION {KeysOf("temp", {s}, 0 .. m.evicted[s] - 2) :
             s \in {t \in S : ~Recomputing(m, {t})}}

\* begin_recompute for the sequences S: the temporary blocks each group needs.
PrefixKeys(m, S) ==
    UNION {KeysOf("temp", {s}, 0 .. m.evicted[s] - 1) :
             s \in {t \in S : ~Recomputing(m, {t})}}

\* Some sequence of S has an evicted prefix under recompute already.
AlreadyActive(m, S) == \E s \in S : m.evicted[s] > 0 /\ Recomputing(m, {s})

\* acquire_layer_group_plan
AcquireOutcomes(m, S, g) ==
    LET K == [h \in Groups |-> IF h = g THEN PrefixKeys(m, S) ELSE {}]
    IN  {IF ~AlreadyActive(m, S) /\ Fits(m, K, g)
         THEN Done(Taken(m, f))
         ELSE Raised(RolledBack(m, f), "RuntimeError") : f \in Grants(m, K)}

BugEndsEveryone(m, S, g) ==
    [m EXCEPT !.cells = [m.cells EXCEPT ![g] =
                           Dropped(m.cells[g], Entries(m, g, "temp", Seqs))]]

\* release_layer_group_plan: end_recompute for every sequence of S.
Ended(m, S, g) ==
    [m EXCEPT !.cells = [m.cells EXCEPT ![g] =
                           Dropped(m.cells[g], Entries(m, g, "temp", S))]]

NoPlan == [g \in {} |-> g]

\* build_layer_group_plans: in each group all of S begin, the tables are read,
\* and all of S end before the next group begins.
BuildOutcomes(m, S) ==
    LET K == [g \in Groups |-> PrefixKeys(m, S)]
        Tables(f) == [g \in Groups |->
                        [s \in S |-> BlockTable(Taken(m, f), g, s)]]
    IN  {IF ~AlreadyActive(m, S) /\ \A g \in Groups : Fits(m, K, g)
         THEN [map |-> RolledBack(m, f), raised |-> "none", plan |-> Tables(f)]
         ELSE [map |-> RolledBack(m, f), raised |-> "RuntimeError",
               plan |-> NoPlan] : f \in Grants(m, K)}

-----------------------------------------------------------------------------
(* The empty map, and what a map in order looks like.                      *)

EmptyMap == [cells   |-> [g \in Groups |-> EmptyCell],
             length  |-> [s \in Seqs |-> 0],
             evicted |-> [s \in Seqs |-> 0]]

CellType(c) ==
    /\ c.free \subseteq Blocks
    /\ c.refs \in [Blocks -> Int]
    /\ DOMAIN c.table \subseteq Keys
    /\ c.table \in [DOMAIN c.table -> Blocks]
    /\ c = [free |-> c.free, refs |-> c.refs, table |-> c.table]

MapType(m) ==
    /\ m = [cells |-> m.cells, length |-> m.length, evicted |-> m.evicted]
    /\ m.cells = [g \in Groups |-> m.cells[g]]
    /\ \A g \in Groups : CellType(m.cells[g])
    /\ m.length \in [Seqs -> 0 .. MaxTokens]
    /\ m.evicted \in [Seqs -> Nat]

CellRefsExact(c) ==
    /\ \A b \in Blocks : c.refs[b] = Cardinality(Users(c, DOMAIN c.table, b))
    /\ c.free = {b \in Blocks : c.refs[b] = 0}

MapRefsExact(m) == \A g \in Groups : CellRefsExact(m.cells[g])

\* The newest block of a sequence is never evicted.
PrefixBelowTail(n, e) == e < NumLogicalBlocks(n) \/ (n = 0 /\ e = 0)

MapWindow(m) ==
    \A s \in Seqs :
      /\ PrefixBelowTail(m.length[s], m.evicted[s])
      /\ \A g \in Groups :
           /\ Entries(m, g, "kept", {s}) =
                KeysOf("kept", {s}, m.evicted[s] .. NumLogicalBlocks(m.length[s]) - 1)
           /\ Entries(m, g, "copy", {s}) = {}
           /\ Entries(m, g, "temp", {s}) \in
                {{}, KeysOf("temp", {s}, 0 .. m.evicted[s] - 1)}

=============================================================================
