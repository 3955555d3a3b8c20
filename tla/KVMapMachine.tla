---------------------------- MODULE KVMapMachine ----------------------------
(***************************************************************************)
(* The KV block map as a state machine: the methods of TokenLayerKVMap     *)
(* called in any order, plans built for a synchronous step, and plans      *)
(* leased to an executor that runs while the map changes.                  *)
(***************************************************************************)
EXTENDS TokenLayerKVMap

CONSTANT MaxLeases    \* bound: layer-group plans leased at once

ASSUME LeasesAssumption == MaxLeases \in Nat

VARIABLES
    kv,       \* the map
    leases,   \* plans handed out by acquire_layer_group_plan, not released
    plan,     \* plans of the last build_layer_group_plans, one per group
    raised    \* exception of the last call

vars == <<kv, leases, plan, raised>>

\* The scheduler may run while leased plans execute, but it schedules a
\* sequence again only after the execution that uses it is over.
Executing(s) == \E l \in leases : s \in DOMAIN l.tables

Init ==
    /\ kv = EmptyMap
    /\ leases = {}
    /\ plan = NoPlan
    /\ raised = "none"

Return(outcomes) ==
    /\ \E o \in outcomes : kv' = o.map /\ raised' = o.raised
    /\ plan' = NoPlan

AllocateSequence(s, n, e) ==
    /\ ~Executing(s)
    /\ e < NumLogicalBlocks(n)
    /\ Return(AllocateOutcomes(kv, s, n, e))
    /\ UNCHANGED leases

AppendToken(s) ==
    /\ s \in Present(kv)
    /\ ~Executing(s)
    /\ kv.length[s] < MaxTokens
    /\ Return(AppendOutcomes(kv, s))
    /\ UNCHANGED leases

ForkSequence(p, s) ==
    /\ p \in Present(kv)
    /\ Return(ForkOutcomes(kv, p, s))
    /\ UNCHANGED leases

\* The block manager keeps at least the newest block of a sequence.
EvictPrefix(s, p) ==
    /\ s \in Present(kv)
    /\ ~Executing(s)
    /\ p < NumLogicalBlocks(kv.length[s])
    /\ Return(EvictOutcomes(kv, s, p))
    /\ UNCHANGED leases

FreeSequence(s) ==
    /\ ~Executing(s)
    /\ Return({Done(Freed(kv, s))})
    /\ UNCHANGED leases

BugNextGroup(S, g) ==
    /\ Return(AcquireOutcomes(kv, S, g))
    /\ leases' = leases \cup {[group |-> g + 1, tables |-> NoPlan]}

AcquireLayerGroupPlan(S, g) ==
    /\ S \subseteq Present(kv)
    /\ Cardinality(leases) < MaxLeases
    /\ Return(AcquireOutcomes(kv, S, g))
    /\ LET lease == [group  |-> g,
                     tables |-> [s \in S |-> BlockTable(kv', g, s)]]
       IN  /\ lease \notin leases
           /\ leases' = IF raised' = "none" THEN leases \cup {lease} ELSE leases

ReleaseLayerGroupPlan(l) ==
    /\ Return({Done(Ended(kv, DOMAIN l.tables, l.group))})
    /\ leases' = leases \ {l}

BuildLayerGroupPlans(S) ==
    /\ S \subseteq Present(kv)
    /\ \E o \in BuildOutcomes(kv, S) :
         kv' = o.map /\ raised' = o.raised /\ plan' = o.plan
    /\ UNCHANGED leases

Next ==
    \/ \E s \in Seqs, n \in 1 .. MaxTokens, e \in LogicalBlocks :
         AllocateSequence(s, n, e)
    \/ \E s \in Seqs : AppendToken(s)
    \/ \E p, s \in Seqs : ForkSequence(p, s)
    \/ \E s \in Seqs, p \in LogicalBlocks : EvictPrefix(s, p)
    \/ \E s \in Seqs : FreeSequence(s)
    \/ \E S \in SUBSET Seqs \ {{}}, g \in Groups : AcquireLayerGroupPlan(S, g)
    \/ \E l \in leases : ReleaseLayerGroupPlan(l)
    \/ \E S \in SUBSET Seqs \ {{}} : BuildLayerGroupPlans(S)

Spec == Init /\ [][Next]_vars
-----------------------------------------------------------------------------
(* Properties. *)

\* Type of the state.
TypeOK ==
    /\ MapType(kv)
    /\ \A l \in leases :
         l.group \in Groups /\ DOMAIN l.tables \subseteq Seqs
    /\ DOMAIN plan \in {{}, Groups}
    /\ raised \in {"none", "ValueError", "RuntimeError"}

\* A block's reference count is the number of entries that name it, and the
\* free list holds exactly the blocks no entry names: nothing leaks, nothing
\* is handed out twice, and the three assertions of _allocate_block,
\* _retain_block and _free_block cannot fail.
RefsExact == MapRefsExact(kv)

\* In every group a sequence keeps exactly the blocks from its evicted prefix
\* to its newest token, and temporaries cover the whole evicted prefix or none
\* of it: swap-in pairs its tables with the right blocks, and neither the
\* "uncached gap" error nor a KeyError on an entry can happen.
RetainedWindow == MapWindow(kv)

KeptKeys(g) == {k \in DOMAIN kv.cells[g].table : k[1] = "kept"}

\* Forks, copies and evictions share blocks alike in every layer group, which
\* is what lets the scheduler reason about one group's table (get_block_table)
\* and the manager about the minimum over the groups.
GroupsInStep ==
    \A g, h \in Groups : \A k1, k2 \in KeptKeys(g) :
      (kv.cells[g].table[k1] = kv.cells[g].table[k2]) <=>
      (kv.cells[h].table[k1] = kv.cells[h].table[k2])

\* The block table a leased plan gave its kernels stays the sequence's table,
\* without a gap, until the lease is released, whatever other calls and other
\* leases come in between.
LeasesHold ==
    \A l \in leases : \A s \in DOMAIN l.tables :
      /\ l.tables[s] = BlockTable(kv, l.group, s)
      /\ DOMAIN l.tables[s] = 0 .. NumLogicalBlocks(kv.length[s]) - 1

\* In the plans of one synchronous step, whose temporary blocks are back on the
\* free list before the kernels run, no sequence's recompute target is read
\* or written by another sequence of the batch or kept for any sequence.
PlanSound ==
    \A g \in DOMAIN plan : \A s \in DOMAIN plan[g] :
      /\ DOMAIN plan[g][s] = 0 .. NumLogicalBlocks(kv.length[s]) - 1
      /\ \A l \in 0 .. kv.evicted[s] - 1 :
           /\ plan[g][s][l] \in kv.cells[g].free
           /\ \A t \in DOMAIN plan[g], i \in LogicalBlocks :
                <<t, i>> # <<s, l>> /\ i \in DOMAIN plan[g][t]
                  => plan[g][t][i] # plan[g][s][l]

\* A call that raises leaves the map as it found it: the blocks it took in the
\* groups before the one that ran out are returned.
RaisesUnchanged == [][raised' # "none" => kv' = kv]_vars

\* The block a sequence's new token is written to belongs to it alone, in
\* every group, once append_token returns.
TailExclusive ==
    [][\A s \in Seqs : kv.length[s] > 0 /\ kv'.length[s] = kv.length[s] + 1
         => \A g \in Groups : TailRefs(kv', s, g) = 1]_vars

=============================================================================
