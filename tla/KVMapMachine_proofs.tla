------------------------ MODULE KVMapMachine_proofs ------------------------
(***************************************************************************)
(* The invariants of the KV block map's state machine, for every instance. *)
(***************************************************************************)
EXTENDS KVMapMachine, TokenLayerKVMap_proofs

\* None of the three parts is inductive alone: the counts stay exact because
\* new keys are fresh, and they are fresh because of the window.
IInv == TypeOK /\ RefsExact /\ RetainedWindow

\* The invariant is that the map is in order.
LEMMA InvMapOK == IInv <=> TypeOK /\ MapOK(kv)
  BY DEF IInv, TypeOK, MapOK, RefsExact, MapRefsExact, RetainedWindow

\* It holds at the start.
LEMMA InitInv == Init => IInv
  BY EmptyMapOK, InvMapOK DEF Init, TypeOK, NoPlan, MapOK

\* A call through Return keeps the map in order and is exception safe.
LEMMA ReturnInv ==
    ASSUME IInv, NEW O, \A o \in O : Safe(kv, o), Return(O)
    PROVE  /\ MapOK(kv') /\ MapType(kv')
           /\ raised' \in Errors /\ DOMAIN plan' = {}
           /\ raised' # "none" => kv' = kv
<1>1. PICK o \in O : kv' = o.map /\ raised' = o.raised
  BY DEF Return
<1>2. DOMAIN plan' = {}
  BY DEF Return, NoPlan
<1> QED BY <1>1, <1>2 DEF Safe, MapOK

\* Every step keeps it, and a call that raises leaves the map as it was.
LEMMA StepInv ==
    ASSUME IInv, [Next]_vars
    PROVE  IInv' /\ (raised' # "none" /\ vars' # vars => kv' = kv)
<1> DEFINE Goal == IInv' /\ (raised' # "none" /\ vars' # vars => kv' = kv)
           LeaseType(L) == \A l \in L : l.group \in Groups /\ DOMAIN l.tables \subseteq Seqs
<1>1. MapOK(kv) /\ TypeOK /\ LeaseType(leases)
  BY InvMapOK DEF TypeOK
<1>2. ASSUME MapOK(kv'), LeaseType(leases'), raised' \in Errors,
             DOMAIN plan' \in {{}, Groups}
      PROVE  IInv'
  BY <1>2 DEF IInv, TypeOK, RefsExact, RetainedWindow, MapOK, MapRefsExact, Errors
<1>3. ASSUME NEW O, \A o \in O : Safe(kv, o), Return(O), LeaseType(leases')
      PROVE  Goal
  BY <1>2, <1>3, ReturnInv
<1> HIDE DEF LeaseType, Goal
<1>4. LogicalBlocks \subseteq Nat
  BY DEF LogicalBlocks
<1>5. ASSUME NEW s \in Seqs, NEW n \in 1 .. MaxTokens, NEW e \in LogicalBlocks,
             AllocateSequence(s, n, e)
      PROVE  Goal
  <2>1. \A o \in AllocateOutcomes(kv, s, n, e) : Safe(kv, o)
    BY <1>1, <1>4, <1>5, AllocateSafe DEF AllocateSequence
  <2> QED BY <1>1, <1>3, <1>5, <2>1 DEF AllocateSequence
<1>6. ASSUME NEW s \in Seqs, AppendToken(s)
      PROVE  Goal
  <2>1. \A o \in AppendOutcomes(kv, s) : Safe(kv, o)
    BY <1>1, <1>6, AppendSafe DEF AppendToken
  <2> QED BY <1>1, <1>3, <1>6, <2>1 DEF AppendToken
<1>7. ASSUME NEW p \in Seqs, NEW s \in Seqs, ForkSequence(p, s)
      PROVE  Goal
  <2>1. \A o \in ForkOutcomes(kv, p, s) : Safe(kv, o)
    BY <1>1, <1>7, ForkSafe DEF ForkSequence
  <2> QED BY <1>1, <1>3, <1>7, <2>1 DEF ForkSequence
<1>8. ASSUME NEW s \in Seqs, NEW p \in LogicalBlocks, EvictPrefix(s, p)
      PROVE  Goal
  <2>1. \A o \in EvictOutcomes(kv, s, p) : Safe(kv, o)
    BY <1>1, <1>4, <1>8, EvictSafe DEF EvictPrefix
  <2> QED BY <1>1, <1>3, <1>8, <2>1 DEF EvictPrefix
<1>9. ASSUME NEW s \in Seqs, FreeSequence(s)
      PROVE  Goal
  <2>1. \A o \in {Done(Freed(kv, s))} : Safe(kv, o)
    BY <1>1, FreedOK DEF Safe, Done, Errors
  <2> QED BY <1>1, <1>3, <1>9, <2>1 DEF FreeSequence
<1>10. ASSUME NEW S \in SUBSET Seqs \ {{}}, NEW g \in Groups,
              AcquireLayerGroupPlan(S, g)
       PROVE  Goal
  <2>1. \A o \in AcquireOutcomes(kv, S, g) : Safe(kv, o)
    BY <1>1, <1>10, AcquireSafe DEF AcquireLayerGroupPlan
  <2>2. LeaseType(leases')
    BY <1>1, <1>10 DEF AcquireLayerGroupPlan, LeaseType
  <2> QED BY <1>3, <1>10, <2>1, <2>2 DEF AcquireLayerGroupPlan
<1>11. ASSUME NEW l \in leases, ReleaseLayerGroupPlan(l)
       PROVE  Goal
  <2>1. l.group \in Groups
    BY <1>1 DEF LeaseType
  <2>2. \A o \in {Done(Ended(kv, DOMAIN l.tables, l.group))} : Safe(kv, o)
    BY <1>1, <2>1, EndedOK DEF Safe, Done, Errors
  <2>3. LeaseType(leases')
    BY <1>1, <1>11 DEF ReleaseLayerGroupPlan, LeaseType
  <2> QED BY <1>3, <1>11, <2>2, <2>3 DEF ReleaseLayerGroupPlan
<1>12. ASSUME NEW S \in SUBSET Seqs \ {{}}, BuildLayerGroupPlans(S)
       PROVE  Goal
  <2>1. PICK o \in BuildOutcomes(kv, S) :
          kv' = o.map /\ raised' = o.raised /\ plan' = o.plan
    BY <1>12 DEF BuildLayerGroupPlans
  <2>2. Safe(kv, o) /\ o.map = kv /\ DOMAIN o.plan \in {{}, Groups}
    BY <1>1, <1>12, BuildSafe DEF BuildLayerGroupPlans
  <2>3. LeaseType(leases') /\ MapOK(kv')
    BY <1>1, <1>12, <2>1, <2>2 DEF BuildLayerGroupPlans
  <2> QED BY <1>2, <2>1, <2>2, <2>3 DEF Safe, Goal
<1>13. CASE UNCHANGED vars
  BY <1>13 DEF vars, Goal, IInv, TypeOK, RefsExact, RetainedWindow
<1> QED BY <1>5, <1>6, <1>7, <1>8, <1>9, <1>10, <1>11, <1>12, <1>13 DEF Next, Goal

\* The inductive invariant holds in every reachable state.
THEOREM Invariance == Spec => []IInv
<1>1. IInv /\ [Next]_vars => IInv'
  BY StepInv
<1> QED BY InitInv, <1>1, PTL DEF Spec

\* The map, the leases, the plans and the exception are always of their types.
THEOREM TypeCorrect == Spec => []TypeOK
<1>1. IInv => TypeOK
  BY DEF IInv
<1> QED BY Invariance, <1>1, PTL

\* Allocation, copy-on-write, forks, eviction, recompute and rollback never
\* leak a block, free one twice or hand out one in use, in any layer group.
THEOREM BlocksConserved == Spec => []RefsExact
<1>1. IInv => RefsExact
  BY DEF IInv
<1> QED BY Invariance, <1>1, PTL

\* A sequence's tables never have a gap, and its newest block is never evicted.
THEOREM NoUncachedGap == Spec => []RetainedWindow
<1>1. IInv => RetainedWindow
  BY DEF IInv
<1> QED BY Invariance, <1>1, PTL

\* A call that raises, wherever in its loop it ran out of blocks, undoes all.
THEOREM ExceptionSafety == Spec => RaisesUnchanged
<1>1. IInv /\ [Next]_vars => [raised' # "none" => kv' = kv]_vars
  BY StepInv DEF vars
<1> QED BY Invariance, <1>1, PTL DEF Spec, RaisesUnchanged

-----------------------------------------------------------------------------
(* Shared and private blocks.                                              *)

\* A call either leaves the map alone or succeeds with one of its outcomes.
LEMMA ReturnCases ==
    ASSUME NEW O, \A o \in O : Safe(kv, o), Return(O)
    PROVE  \/ kv' = kv
           \/ \E o \in O : o.raised = "none" /\ kv' = o.map
  BY DEF Return, Safe

\* At the start nothing is shared.
LEMMA InitSharing == Init => Sharing(kv)
<1> SUFFICES ASSUME Init PROVE Sharing(kv)
  OBVIOUS
<1>1. kv = EmptyMap
  BY DEF Init
<1>2. \A g \in Groups : DOMAIN kv.cells[g].table = {}
  BY <1>1 DEF EmptyMap, EmptyCell
<1> QED BY <1>2 DEF Sharing, SharedAlike, TempsAlone, KeptIn

\* Every step keeps it that sequences share alike in all groups.
LEMMA StepSharing ==
    ASSUME IInv, Sharing(kv), [Next]_vars
    PROVE  Sharing(kv')
<1>1. MapOK(kv) /\ MapOK(kv') /\ \A l \in leases : l.group \in Groups
  <2>1. IInv'
    BY StepInv
  <2> QED BY <2>1, InvMapOK DEF IInv, TypeOK, MapOK, RefsExact, MapRefsExact, RetainedWindow
<1>2. LogicalBlocks \subseteq Nat
  BY DEF LogicalBlocks
<1>3. CASE kv' = kv
  BY <1>3
<1>4. ASSUME NEW s \in Seqs, NEW n \in 1 .. MaxTokens, NEW e \in LogicalBlocks,
             AllocateSequence(s, n, e)
      PROVE  Sharing(kv')
  <2>1. \A o \in AllocateOutcomes(kv, s, n, e) : Safe(kv, o)
    BY <1>1, <1>2, <1>4, AllocateSafe DEF AllocateSequence
  <2>2. ASSUME NEW o \in AllocateOutcomes(kv, s, n, e), o.raised = "none", kv' = o.map
        PROVE  Sharing(kv')
    <3>1. PICK K : Extended(kv, kv', s, K)
      BY <1>1, <1>2, <1>4, <2>2, AllocateEffect DEF AllocateSequence
    <3> DEFINE D == [g \in Groups |-> K]
    <3>2. /\ \A g \in Groups : Granted(kv.cells[g], kv'.cells[g], D[g])
          /\ \A g, h \in Groups : \A k \in D[g] : k[1] = "kept" => k \in D[h]
      BY <3>1 DEF Extended
    <3> HIDE DEF D
    <3> QED BY <1>1, <3>2, GrantedSharing
  <2> QED BY <1>3, <1>4, <2>1, <2>2, ReturnCases DEF AllocateSequence
<1>5. ASSUME NEW s \in Seqs, AppendToken(s)
      PROVE  Sharing(kv')
  <2>1. \A o \in AppendOutcomes(kv, s) : Safe(kv, o)
    BY <1>1, <1>5, AppendSafe DEF AppendToken
  <2>2. s \in Present(kv) /\ kv.length[s] < MaxTokens /\ kv.length[s] \in Nat
    BY <1>1, <1>5 DEF AppendToken, MapOK, MapType
  <2>3. ASSUME NEW o \in AppendOutcomes(kv, s), o.raised = "none", kv' = o.map
        PROVE  Sharing(kv')
    <3>1. CASE NumLogicalBlocks(kv.length[s] + 1) > NumLogicalBlocks(kv.length[s])
      <4> DEFINE K == {<<"kept", s, NumLogicalBlocks(kv.length[s])>>}
                 D == [g \in Groups |-> K]
      <4>1. Extended(kv, kv', s, K)
        BY <1>1, <2>2, <2>3, <3>1, NewBlockEffect DEF AppendOutcomes
      <4> HIDE DEF K
      <4>2. /\ \A g \in Groups : Granted(kv.cells[g], kv'.cells[g], D[g])
            /\ \A g, h \in Groups : \A k \in D[g] : k[1] = "kept" => k \in D[h]
        BY <4>1 DEF Extended
      <4> HIDE DEF D
      <4> QED BY <1>1, <4>2, GrantedSharing
    <3>2. CASE ~(NumLogicalBlocks(kv.length[s] + 1) > NumLogicalBlocks(kv.length[s]))
      <4>1. NumLogicalBlocks(kv.length[s] + 1) = NumLogicalBlocks(kv.length[s])
        <5>1. /\ NumLogicalBlocks(kv.length[s]) \in Nat
              /\ NumLogicalBlocks(kv.length[s] + 1)
                   \in {NumLogicalBlocks(kv.length[s]), NumLogicalBlocks(kv.length[s]) + 1}
          BY <2>2, BlocksStep
        <5> QED BY <3>2, <5>1
      <4>2. o \in CopyOnWriteOutcomes(kv, s)
        BY <3>2 DEF AppendOutcomes
      <4> QED BY <1>1, <2>2, <2>3, <4>1, <4>2, CopyOnWriteSharing
    <3> QED BY <3>1, <3>2
  <2> QED BY <1>3, <1>5, <2>1, <2>3, ReturnCases DEF AppendToken
<1>6. ASSUME NEW p \in Seqs, NEW s \in Seqs, ForkSequence(p, s)
      PROVE  Sharing(kv')
  <2>1. \A o \in ForkOutcomes(kv, p, s) : Safe(kv, o)
    BY <1>1, <1>6, ForkSafe DEF ForkSequence
  <2>2. \A o \in ForkOutcomes(kv, p, s) : o.raised = "none" => Sharing(o.map)
    BY <1>1, <1>6, ForkSharing DEF ForkSequence
  <2> QED BY <1>3, <1>6, <2>1, <2>2, ReturnCases DEF ForkSequence
<1>7. ASSUME NEW s \in Seqs, NEW p \in LogicalBlocks, EvictPrefix(s, p)
      PROVE  Sharing(kv')
  <2>1. \A o \in EvictOutcomes(kv, s, p) : Safe(kv, o)
    BY <1>1, <1>2, <1>7, EvictSafe DEF EvictPrefix
  <2>2. ASSUME NEW o \in EvictOutcomes(kv, s, p), o.raised = "none", kv' = o.map
        PROVE  \A g \in Groups : \E K : Pruned(kv.cells[g], kv'.cells[g], K)
    BY <2>2, EvictEffect
  <2> QED BY <1>1, <1>3, <1>7, <2>1, <2>2, ReturnCases, PrunedSharing DEF EvictPrefix
<1>8. ASSUME NEW s \in Seqs, FreeSequence(s)
      PROVE  Sharing(kv')
  <2>1. kv' = Freed(kv, s)
    BY <1>8 DEF FreeSequence, Return, Done
  <2>2. \A g \in Groups : \E K : Pruned(kv.cells[g], kv'.cells[g], K)
    BY <2>1, FreedEffect
  <2> QED BY <1>1, <2>2, PrunedSharing
<1>9. ASSUME NEW S \in SUBSET Seqs \ {{}}, NEW g \in Groups,
             AcquireLayerGroupPlan(S, g)
      PROVE  Sharing(kv')
  <2>1. S \in SUBSET Present(kv)
    BY <1>9 DEF AcquireLayerGroupPlan
  <2>2. \A o \in AcquireOutcomes(kv, S, g) : Safe(kv, o)
    BY <1>1, <2>1, AcquireSafe
  <2>3. ASSUME NEW o \in AcquireOutcomes(kv, S, g), o.raised = "none", kv' = o.map
        PROVE  Sharing(kv')
    <3> DEFINE D == [h \in Groups |-> IF h = g THEN PrefixKeys(kv, S) ELSE {}]
    <3>1. \A h \in Groups : Granted(kv.cells[h], kv'.cells[h], D[h])
      BY <1>1, <2>1, <2>3, AcquireEffect
    <3>2. \A k \in PrefixKeys(kv, S) : k[1] = "temp"
      BY <1>1, <2>1, PrefixKeysFresh
    <3>3. \A h \in Groups : \A k \in D[h] : k[1] = "temp"
      BY <3>2
    <3> HIDE DEF D
    <3> QED BY <1>1, <3>1, <3>3, GrantedSharing
  <2> QED BY <1>3, <1>9, <2>2, <2>3, ReturnCases DEF AcquireLayerGroupPlan
<1>10. ASSUME NEW l \in leases, ReleaseLayerGroupPlan(l)
       PROVE  Sharing(kv')
  <2>1. kv' = Ended(kv, DOMAIN l.tables, l.group)
    BY <1>10 DEF ReleaseLayerGroupPlan, Return, Done
  <2>2. \A g \in Groups : \E K : Pruned(kv.cells[g], kv'.cells[g], K)
    BY <1>1, <2>1, EndedEffect DEF MapOK
  <2> QED BY <1>1, <2>2, PrunedSharing
<1>11. ASSUME NEW S \in SUBSET Seqs \ {{}}, BuildLayerGroupPlans(S)
       PROVE  Sharing(kv')
  <2>1. kv' = kv
    BY <1>1, <1>11, BuildSafe DEF BuildLayerGroupPlans
  <2> QED BY <1>3, <2>1
<1>12. CASE UNCHANGED vars
  BY <1>3, <1>12 DEF vars
<1> QED BY <1>4, <1>5, <1>6, <1>7, <1>8, <1>9, <1>10, <1>11, <1>12 DEF Next

-----------------------------------------------------------------------------
(* Leases.                                                                 *)

\* A lease is about sequences of the map, and its tables are current.
LeaseCurrent(m, l) ==
    \A s \in DOMAIN l.tables :
      /\ s \in Present(m)
      /\ l.tables[s] = BlockTable(m, l.group, s)
      /\ DOMAIN l.tables[s] = 0 .. NumLogicalBlocks(m.length[s]) - 1

\* Two leases never hold temporary blocks of one sequence: the first one to
\* be released would take the other's.
LeasesApart ==
    \A l1, l2 \in leases : \A s \in DOMAIN l1.tables \cap DOMAIN l2.tables :
      kv.evicted[s] > 0 => l1 = l2

LeaseInv == (\A l \in leases : LeaseCurrent(kv, l)) /\ LeasesApart

\* A sequence under lease that lost its prefix has temporary blocks.
LEMMA LeasedRecomputes ==
    ASSUME MapOK(kv), NEW l, l.group \in Groups, LeaseCurrent(kv, l),
           NEW s \in DOMAIN l.tables, kv.evicted[s] > 0
    PROVE  Recomputing(kv, {s})
<1>1. s \in Seqs /\ kv.length[s] > 0 /\ s \in Present(kv)
  BY DEF LeaseCurrent, Present
<1>2. /\ kv.evicted[s] \in Nat /\ NumLogicalBlocks(kv.length[s]) \in Nat
      /\ kv.evicted[s] < NumLogicalBlocks(kv.length[s])
      /\ KeysInRange(DOMAIN kv.cells[l.group].table, s, kv.length[s], kv.evicted[s])
  BY <1>1, SequenceFacts
<1>3. 0 \in 0 .. NumLogicalBlocks(kv.length[s]) - 1 /\ ~(kv.evicted[s] <= 0)
  BY <1>2
<1>4. 0 \in DOMAIN BlockTable(kv, l.group, s)
  BY <1>3 DEF LeaseCurrent
<1>5. 0 \in LogicalBlocks
      /\ (\/ <<"kept", s, 0>> \in DOMAIN kv.cells[l.group].table
          \/ <<"temp", s, 0>> \in DOMAIN kv.cells[l.group].table)
  BY <1>4 DEF BlockTable
<1>6. <<"temp", s, 0>> \in DOMAIN kv.cells[l.group].table
  BY <1>2, <1>3, <1>5 DEF KeysInRange
<1>7. <<"temp", s, 0>> \in Entries(kv, l.group, "temp", {s})
  BY <1>6 DEF Entries
<1> QED BY <1>7 DEF Recomputing

\* A sequence whose keys and length stay keeps its place in every lease.
LEMMA CurrentStays ==
    ASSUME NEW m, NEW x, NEW l, l.group \in Groups, LeaseCurrent(m, l),
           \A s \in DOMAIN l.tables :
             /\ x.length[s] = m.length[s]
             /\ SameKeys(m, x, l.group, s)
    PROVE  LeaseCurrent(x, l)
<1> SUFFICES ASSUME NEW s \in DOMAIN l.tables
             PROVE  /\ s \in Present(x)
                    /\ l.tables[s] = BlockTable(x, l.group, s)
                    /\ DOMAIN l.tables[s] = 0 .. NumLogicalBlocks(x.length[s]) - 1
  BY DEF LeaseCurrent
<1>1. s \in Seqs /\ s \in Present(x)
  BY DEF LeaseCurrent, Present
<1>2. BlockTable(x, l.group, s) = BlockTable(m, l.group, s)
  BY <1>1, TableOfOwnKeys
<1> QED BY <1>1, <1>2 DEF LeaseCurrent

\* A call on one sequence that no lease is about keeps the leases.
LEMMA OthersKeepLeases ==
    ASSUME TypeOK, LeaseInv, leases' = leases, NEW s \in Seqs, ~Executing(s),
           OthersUntouched(kv, kv', s)
    PROVE  LeaseInv'
<1>1. \A l \in leases : \A t \in DOMAIN l.tables : t \in Seqs /\ t # s
  BY DEF TypeOK, Executing
<1>2. \A l \in leases : \A t \in DOMAIN l.tables :
        /\ kv'.length[t] = kv.length[t] /\ kv'.evicted[t] = kv.evicted[t]
        /\ \A g \in Groups : SameKeys(kv, kv', g, t)
  BY <1>1 DEF OthersUntouched, Untouched
<1>3. \A l \in leases : l.group \in Groups
  BY DEF TypeOK
<1>4. \A l \in leases : LeaseCurrent(kv', l)
  BY <1>2, <1>3, CurrentStays DEF LeaseInv
<1>5. LeasesApart'
  BY <1>2 DEF LeaseInv, LeasesApart
<1> QED BY <1>4, <1>5 DEF LeaseInv

\* Every step keeps the invariant of the leases.
LEMMA StepLeases ==
    ASSUME IInv, LeaseInv, [Next]_vars
    PROVE  LeaseInv'
<1>1. /\ MapOK(kv) /\ MapOK(kv') /\ TypeOK
      /\ \A l \in leases : /\ l.group \in Groups /\ DOMAIN l.tables \subseteq Seqs
                           /\ LeaseCurrent(kv, l)
  <2>1. IInv'
    BY StepInv
  <2> QED BY <2>1, InvMapOK
          DEF IInv, TypeOK, MapOK, RefsExact, MapRefsExact, RetainedWindow, LeaseInv
<1>2. LogicalBlocks \subseteq Nat
  BY DEF LogicalBlocks
<1>3. CASE kv' = kv /\ leases' = leases
  BY <1>3 DEF LeaseInv, LeasesApart
<1>4. ASSUME NEW s \in Seqs, NEW n \in 1 .. MaxTokens, NEW e \in LogicalBlocks,
             AllocateSequence(s, n, e)
      PROVE  LeaseInv'
  <2>1. \A o \in AllocateOutcomes(kv, s, n, e) : Safe(kv, o)
    BY <1>1, <1>2, <1>4, AllocateSafe DEF AllocateSequence
  <2>2. ASSUME NEW o \in AllocateOutcomes(kv, s, n, e), o.raised = "none", kv' = o.map
        PROVE  OthersUntouched(kv, kv', s)
    <3>1. Resized(kv, kv', s, n, e) /\ \E K : Extended(kv, kv', s, K)
      BY <1>1, <1>2, <1>4, <2>2, AllocateEffect DEF AllocateSequence
    <3> QED BY <1>1, <3>1, ExtendedOthers
  <2> QED BY <1>1, <1>3, <1>4, <2>1, <2>2, ReturnCases, OthersKeepLeases
          DEF AllocateSequence
<1>5. ASSUME NEW s \in Seqs, AppendToken(s)
      PROVE  LeaseInv'
  <2>1. \A o \in AppendOutcomes(kv, s) : Safe(kv, o)
    BY <1>1, <1>5, AppendSafe DEF AppendToken
  <2>2. \A o \in AppendOutcomes(kv, s) : o.raised = "none" => OthersUntouched(kv, o.map, s)
    BY <1>1, <1>5, AppendOthers DEF AppendToken
  <2> QED BY <1>1, <1>3, <1>5, <2>1, <2>2, ReturnCases, OthersKeepLeases DEF AppendToken
<1>6. ASSUME NEW p \in Seqs, NEW s \in Seqs, ForkSequence(p, s)
      PROVE  LeaseInv'
  <2>1. \A o \in ForkOutcomes(kv, p, s) : Safe(kv, o)
    BY <1>1, <1>6, ForkSafe DEF ForkSequence
  <2>2. ASSUME NEW o \in ForkOutcomes(kv, p, s), o.raised = "none", kv' = o.map
        PROVE  OthersUntouched(kv, kv', s) /\ ~Executing(s)
    <3>1. s \notin Present(kv)
      BY <1>1, <1>6, <2>2, ForkEffect DEF ForkSequence
    <3>2. ~Executing(s)
      BY <1>1, <3>1 DEF LeaseCurrent, Executing
    <3> QED BY <1>1, <1>6, <2>2, <3>2, ForkOthers DEF ForkSequence
  <2> QED BY <1>1, <1>3, <1>6, <2>1, <2>2, ReturnCases, OthersKeepLeases DEF ForkSequence
<1>7. ASSUME NEW s \in Seqs, NEW p \in LogicalBlocks, EvictPrefix(s, p)
      PROVE  LeaseInv'
  <2>1. \A o \in EvictOutcomes(kv, s, p) : Safe(kv, o)
    BY <1>1, <1>2, <1>7, EvictSafe DEF EvictPrefix
  <2>2. ASSUME NEW o \in EvictOutcomes(kv, s, p), o.raised = "none", kv' = o.map
        PROVE  OthersUntouched(kv, kv', s)
    BY <1>1, <2>2, EvictEffect, PrunedOthers
  <2> QED BY <1>1, <1>3, <1>7, <2>1, <2>2, ReturnCases, OthersKeepLeases DEF EvictPrefix
<1>8. ASSUME NEW s \in Seqs, FreeSequence(s)
      PROVE  LeaseInv'
  <2>1. kv' = Freed(kv, s)
    BY <1>8 DEF FreeSequence, Return, Done
  <2>2. OthersUntouched(kv, kv', s)
    BY <1>1, <2>1, FreedEffect, PrunedOthers
  <2> QED BY <1>1, <1>8, <2>2, OthersKeepLeases DEF FreeSequence
<1>9. ASSUME NEW S \in SUBSET Seqs \ {{}}, NEW g \in Groups,
             AcquireLayerGroupPlan(S, g)
      PROVE  LeaseInv'
  <2> DEFINE lease == [group |-> g, tables |-> [s \in S |-> BlockTable(kv', g, s)]]
  <2>1. S \in SUBSET Present(kv)
    BY <1>9 DEF AcquireLayerGroupPlan
  <2>2. PICK o \in AcquireOutcomes(kv, S, g) : kv' = o.map /\ raised' = o.raised
    BY <1>9 DEF AcquireLayerGroupPlan, Return
  <2>3. leases' = IF raised' = "none" THEN leases \cup {lease} ELSE leases
    BY <1>9 DEF AcquireLayerGroupPlan
  <2>4. CASE raised' # "none"
    <3>1. kv' = kv
      BY <1>1, <2>1, <2>2, <2>4, AcquireSafe DEF Safe
    <3> QED BY <1>3, <2>3, <2>4, <3>1
  <2>5. CASE raised' = "none"
    <3>1. /\ ~AlreadyActive(kv, S)
          /\ kv'.length = kv.length /\ kv'.evicted = kv.evicted
          /\ \A h \in Groups : Granted(kv.cells[h], kv'.cells[h],
                                       IF h = g THEN PrefixKeys(kv, S) ELSE {})
      <4>1. o.raised = "none"
        BY <2>2, <2>5
      <4>2. /\ ~AlreadyActive(kv, S)
            /\ o.map.length = kv.length /\ o.map.evicted = kv.evicted
            /\ \A h \in Groups : Granted(kv.cells[h], o.map.cells[h],
                                         IF h = g THEN PrefixKeys(kv, S) ELSE {})
        BY <1>1, <2>1, <4>1, AcquireEffect
      <4> QED BY <2>2, <4>2
    <3>2. ASSUME NEW l \in leases, NEW s \in DOMAIN l.tables
          PROVE  s \notin S \/ kv.evicted[s] = 0
      <4>1. kv.evicted[s] > 0 => Recomputing(kv, {s})
        BY <1>1, LeasedRecomputes
      <4>2. s \in S => ~(kv.evicted[s] > 0 /\ Recomputing(kv, {s}))
        BY <3>1 DEF AlreadyActive
      <4>3. kv.evicted[s] \in Nat
        BY <1>1, SequenceFacts
      <4> QED BY <4>1, <4>2, <4>3
    <3>3. ASSUME NEW l \in leases
          PROVE  LeaseCurrent(kv', l)
      <4>1. ASSUME NEW s \in DOMAIN l.tables, NEW k \in PrefixKeys(kv, S)
            PROVE  k[2] # s
        BY <1>1, <2>1, <3>2, <4>1, PrefixKeysOthers
      <4>2. \A s \in DOMAIN l.tables : SameKeys(kv, kv', l.group, s)
        BY <1>1, <3>1, <4>1 DEF SameKeys, Granted
      <4> QED BY <1>1, <3>1, <4>2, CurrentStays
    <3>4. LeaseCurrent(kv', lease)
      <4> SUFFICES ASSUME NEW s \in S
                   PROVE  /\ s \in Present(kv')
                          /\ DOMAIN BlockTable(kv', g, s)
                               = 0 .. NumLogicalBlocks(kv'.length[s]) - 1
        BY DEF LeaseCurrent
      <4>1. s \in Present(kv')
        BY <2>1, <3>1 DEF Present
      <4>2. Granted(kv.cells[g], kv'.cells[g], PrefixKeys(kv, S))
        BY <3>1
      <4>3. DOMAIN BlockTable(kv', g, s) = 0 .. NumLogicalBlocks(kv.length[s]) - 1
        BY <1>1, <2>1, <3>1, <4>2, BatchTables
      <4> QED BY <3>1, <4>1, <4>3
    <3>5. LeasesApart'
      <4>1. DOMAIN lease.tables = S
        OBVIOUS
      <4> HIDE DEF lease
      <4>2. leases' = leases \cup {lease}
        BY <2>3, <2>5
      <4>3. ASSUME NEW l \in leases, NEW s \in DOMAIN l.tables, s \in S
            PROVE  ~(kv'.evicted[s] > 0)
        BY <3>1, <3>2, <4>3
      <4>4. ASSUME NEW l1 \in leases', NEW l2 \in leases',
                   NEW s \in DOMAIN l1.tables \cap DOMAIN l2.tables,
                   kv'.evicted[s] > 0
            PROVE  l1 = l2
        <5>1. CASE l1 \in leases /\ l2 \in leases
          BY <3>1, <4>4, <5>1 DEF LeaseInv, LeasesApart
        <5>2. CASE l1 = lease /\ l2 \in leases
          BY <4>1, <4>3, <4>4, <5>2
        <5>3. CASE l1 \in leases /\ l2 = lease
          BY <4>1, <4>3, <4>4, <5>3
        <5>4. CASE l1 = lease /\ l2 = lease
          BY <5>4
        <5> QED BY <4>2, <5>1, <5>2, <5>3, <5>4
      <4> QED BY <4>4 DEF LeasesApart
    <3> HIDE DEF lease
    <3> QED BY <2>3, <2>5, <3>3, <3>4, <3>5 DEF LeaseInv
  <2> QED BY <2>4, <2>5
<1>10. ASSUME NEW l \in leases, ReleaseLayerGroupPlan(l)
       PROVE  LeaseInv'
  <2> DEFINE T == Entries(kv, l.group, "temp", DOMAIN l.tables)
  <2>1. kv' = Ended(kv, DOMAIN l.tables, l.group) /\ leases' = leases \ {l}
    BY <1>10 DEF ReleaseLayerGroupPlan, Return, Done
  <2>2. /\ kv'.length = kv.length /\ kv'.evicted = kv.evicted
        /\ \A h \in Groups : Pruned(kv.cells[h], kv'.cells[h],
                                    IF h = l.group THEN T ELSE {})
    BY <1>1, <2>1, EndedEffect DEF MapOK
  <2>3. ASSUME NEW j \in leases, j # l, NEW s \in DOMAIN j.tables,
               NEW k \in T, k[2] = s
        PROVE  FALSE
    <3>1. k \in DOMAIN kv.cells[l.group].table /\ k[1] = "temp" /\ s \in DOMAIN l.tables
      BY <2>3 DEF Entries
    <3>2. k \in Keys
      BY <1>1, <3>1, KeptEverywhere
    <3>3. s \in Seqs /\ k = <<"temp", s, k[3]>> /\ k[3] \in LogicalBlocks
      BY <2>3, <3>1, <3>2, KeyForm
    <3>4. /\ kv.evicted[s] \in Nat
          /\ KeysInRange(DOMAIN kv.cells[l.group].table, s, kv.length[s], kv.evicted[s])
      BY <1>1, <3>3, SequenceFacts
    <3>5. k[3] < kv.evicted[s]
      <4>1. <<"temp", s, k[3]>> \in DOMAIN kv.cells[l.group].table
        BY <3>1, <3>3
      <4>2. \/ \A i \in LogicalBlocks :
                  <<"temp", s, i>> \notin DOMAIN kv.cells[l.group].table
            \/ \A i \in LogicalBlocks :
                  <<"temp", s, i>> \in DOMAIN kv.cells[l.group].table <=> i < kv.evicted[s]
        BY <3>4 DEF KeysInRange
      <4> QED BY <3>3, <4>1, <4>2
    <3>6. kv.evicted[s] > 0
      <4>1. k[3] \in Nat /\ kv.evicted[s] \in Nat
        BY <1>2, <3>3, <3>4
      <4> QED BY <3>5, <4>1
    <3> QED BY <2>3, <3>1, <3>6 DEF LeaseInv, LeasesApart
  <2> HIDE DEF T
  <2>4. ASSUME NEW j \in leases, j # l
        PROVE  LeaseCurrent(kv', j)
    <3>1. \A s \in DOMAIN j.tables : SameKeys(kv, kv', j.group, s)
      <4> SUFFICES ASSUME NEW s \in DOMAIN j.tables, NEW k \in Keys, k[2] = s
                   PROVE  /\ k \in DOMAIN kv'.cells[j.group].table
                               <=> k \in DOMAIN kv.cells[j.group].table
                          /\ k \in DOMAIN kv.cells[j.group].table =>
                               kv'.cells[j.group].table[k] = kv.cells[j.group].table[k]
        BY DEF SameKeys
      <4>1. k \notin IF j.group = l.group THEN T ELSE {}
        BY <2>3, <2>4
      <4> QED BY <1>1, <2>2, <4>1 DEF Pruned
    <3> QED BY <1>1, <2>2, <3>1, CurrentStays
  <2>5. LeasesApart'
    BY <2>1, <2>2 DEF LeaseInv, LeasesApart
  <2> QED BY <2>1, <2>4, <2>5 DEF LeaseInv
<1>11. ASSUME NEW S \in SUBSET Seqs \ {{}}, BuildLayerGroupPlans(S)
       PROVE  LeaseInv'
  <2>1. kv' = kv /\ leases' = leases
    BY <1>1, <1>11, BuildSafe DEF BuildLayerGroupPlans
  <2> QED BY <1>3, <2>1
<1>12. CASE UNCHANGED vars
  BY <1>3, <1>12 DEF vars
<1> QED BY <1>4, <1>5, <1>6, <1>7, <1>8, <1>9, <1>10, <1>11, <1>12 DEF Next

-----------------------------------------------------------------------------
(* Plans and tails.                                                        *)

\* The plan is the one of the last call, so it is sound if that call made it so.
LEMMA StepPlan ==
    ASSUME IInv, PlanSound, [Next]_vars
    PROVE  PlanSound'
<1>1. MapOK(kv)
  BY InvMapOK
<1>2. ASSUME NEW S \in SUBSET Seqs \ {{}}, BuildLayerGroupPlans(S)
      PROVE  PlanSound'
  <2>1. S \in SUBSET Present(kv)
    BY <1>2 DEF BuildLayerGroupPlans
  <2>2. PICK o \in BuildOutcomes(kv, S) :
          kv' = o.map /\ raised' = o.raised /\ plan' = o.plan
    BY <1>2 DEF BuildLayerGroupPlans
  <2>3. kv' = kv
    BY <1>1, <2>1, <2>2, BuildEffect
  <2>4. CASE raised' # "none"
    <3>1. DOMAIN plan' = {}
      BY <1>1, <2>1, <2>2, <2>4, BuildEffect DEF NoPlan
    <3> QED BY <3>1 DEF PlanSound
  <2>5. CASE raised' = "none"
    <3>0. o.raised = "none"
      BY <2>2, <2>5
    <3>1. /\ ~AlreadyActive(kv, S)
          /\ \E t : /\ o.plan = [g \in Groups |-> [s \in S |-> BlockTable(t, g, s)]]
                    /\ \A g \in Groups :
                         Granted(kv.cells[g], t.cells[g], PrefixKeys(kv, S))
      BY <1>1, <2>1, <3>0, BuildEffect
    <3>2. PICK t : /\ o.plan = [g \in Groups |-> [s \in S |-> BlockTable(t, g, s)]]
                   /\ \A g \in Groups :
                        Granted(kv.cells[g], t.cells[g], PrefixKeys(kv, S))
      BY <3>1
    <3>3. /\ DOMAIN plan' = Groups
          /\ \A g \in Groups : /\ DOMAIN plan'[g] = S
                               /\ \A s \in S : plan'[g][s] = BlockTable(t, g, s)
      BY <2>2, <3>2
    <3>4. ASSUME NEW g \in Groups, NEW s \in S
          PROVE  /\ DOMAIN BlockTable(t, g, s) = 0 .. NumLogicalBlocks(kv.length[s]) - 1
                 /\ \A l \in 0 .. kv.evicted[s] - 1 :
                      /\ BlockTable(t, g, s)[l] \in kv.cells[g].free
                      /\ \A u \in S, i \in LogicalBlocks :
                           <<u, i>> # <<s, l>> /\ i \in DOMAIN BlockTable(t, g, u)
                             => BlockTable(t, g, u)[i] # BlockTable(t, g, s)[l]
      <4>1. Granted(kv.cells[g], t.cells[g], PrefixKeys(kv, S))
        BY <3>2
      <4> QED BY <1>1, <2>1, <3>1, <4>1, BatchTables
    <3> QED BY <2>3, <3>3, <3>4 DEF PlanSound
  <2> QED BY <2>4, <2>5
<1>3. CASE DOMAIN plan' = {}
  BY <1>3 DEF PlanSound
<1>4. ASSUME NEW O, Return(O)
      PROVE  PlanSound'
  BY <1>3, <1>4 DEF Return, NoPlan
<1>5. CASE UNCHANGED vars
  BY <1>5 DEF vars, PlanSound
<1> QED BY <1>2, <1>4, <1>5
        DEF Next, AllocateSequence, AppendToken, ForkSequence, EvictPrefix, FreeSequence,
            AcquireLayerGroupPlan, ReleaseLayerGroupPlan

\* Only append_token makes a sequence longer by one that was in the map.
LEMMA StepTail ==
    ASSUME IInv, [Next]_vars, NEW t \in Seqs,
           kv.length[t] > 0, kv'.length[t] = kv.length[t] + 1, NEW h \in Groups
    PROVE  TailRefs(kv', t, h) = 1
<1>1. MapOK(kv) /\ kv.length[t] \in Nat /\ \A l \in leases : l.group \in Groups
  BY InvMapOK DEF MapOK, MapType, IInv, TypeOK
<1>2. LogicalBlocks \subseteq Nat
  BY DEF LogicalBlocks
<1>3. kv'.length[t] # kv.length[t]
  BY <1>1
<1>4. ASSUME NEW s \in Seqs, OthersUntouched(kv, kv', s)
      PROVE  s = t
  BY <1>3, <1>4 DEF OthersUntouched, Untouched
<1>5. ASSUME NEW s \in Seqs, NEW n \in 1 .. MaxTokens, NEW e \in LogicalBlocks,
             AllocateSequence(s, n, e)
      PROVE  FALSE
  <2>1. \A o \in AllocateOutcomes(kv, s, n, e) : Safe(kv, o)
    BY <1>1, <1>2, <1>5, AllocateSafe DEF AllocateSequence
  <2>2. PICK o \in AllocateOutcomes(kv, s, n, e) : o.raised = "none" /\ kv' = o.map
    BY <1>3, <1>5, <2>1, ReturnCases DEF AllocateSequence
  <2>3. s \notin Present(kv) /\ Resized(kv, kv', s, n, e) /\ \E K : Extended(kv, kv', s, K)
    BY <1>1, <1>2, <1>5, <2>2, AllocateEffect DEF AllocateSequence
  <2>4. s = t
    BY <1>1, <1>4, <2>3, ExtendedOthers
  <2> QED BY <2>3, <2>4 DEF Present
<1>6. ASSUME NEW s \in Seqs, AppendToken(s)
      PROVE  TailRefs(kv', t, h) = 1
  <2>1. \A o \in AppendOutcomes(kv, s) : Safe(kv, o)
    BY <1>1, <1>6, AppendSafe DEF AppendToken
  <2>2. PICK o \in AppendOutcomes(kv, s) : o.raised = "none" /\ kv' = o.map
    BY <1>3, <1>6, <2>1, ReturnCases DEF AppendToken
  <2>3. s = t
    BY <1>1, <1>4, <1>6, <2>2, AppendOthers DEF AppendToken
  <2> QED BY <1>1, <1>6, <2>2, <2>3, AppendTail DEF AppendToken
<1>7. ASSUME NEW p \in Seqs, NEW s \in Seqs, ForkSequence(p, s)
      PROVE  FALSE
  <2>1. \A o \in ForkOutcomes(kv, p, s) : Safe(kv, o)
    BY <1>1, <1>7, ForkSafe DEF ForkSequence
  <2>2. PICK o \in ForkOutcomes(kv, p, s) : o.raised = "none" /\ kv' = o.map
    BY <1>3, <1>7, <2>1, ReturnCases DEF ForkSequence
  <2>3. s = t
    BY <1>1, <1>4, <1>7, <2>2, ForkOthers DEF ForkSequence
  <2>4. s \notin Present(kv)
    BY <1>1, <1>7, <2>2, ForkEffect DEF ForkSequence
  <2> QED BY <2>3, <2>4 DEF Present
<1>8. ASSUME NEW s \in Seqs, NEW p \in LogicalBlocks, EvictPrefix(s, p)
      PROVE  FALSE
  <2>1. \A o \in EvictOutcomes(kv, s, p) : Safe(kv, o)
    BY <1>1, <1>2, <1>8, EvictSafe DEF EvictPrefix
  <2>2. PICK o \in EvictOutcomes(kv, s, p) : o.raised = "none" /\ kv' = o.map
    BY <1>3, <1>8, <2>1, ReturnCases DEF EvictPrefix
  <2>3. Resized(kv, kv', s, kv.length[s], p)
    BY <2>2, EvictEffect
  <2>4. kv'.length[t] = kv.length[t]
    BY <1>1, <2>3 DEF Resized, MapOK, MapType
  <2> QED BY <1>3, <2>4
<1>9. ASSUME NEW s \in Seqs, FreeSequence(s)
      PROVE  FALSE
  <2>1. kv' = Freed(kv, s)
    BY <1>9 DEF FreeSequence, Return, Done
  <2>2. Resized(kv, kv', s, 0, 0)
    BY <2>1, FreedEffect
  <2>3. kv'.length[t] \in {0, kv.length[t]}
    BY <1>1, <2>2 DEF Resized, MapOK, MapType
  <2> QED BY <1>1, <2>3
<1>10. ASSUME NEW S \in SUBSET Seqs \ {{}}, NEW g \in Groups,
              AcquireLayerGroupPlan(S, g)
       PROVE  FALSE
  <2>1. S \in SUBSET Present(kv)
    BY <1>10 DEF AcquireLayerGroupPlan
  <2>2. \A o \in AcquireOutcomes(kv, S, g) : Safe(kv, o)
    BY <1>1, <2>1, AcquireSafe
  <2>3. PICK o \in AcquireOutcomes(kv, S, g) : o.raised = "none" /\ kv' = o.map
    BY <1>3, <1>10, <2>2, ReturnCases DEF AcquireLayerGroupPlan
  <2>4. o.map.length = kv.length
    BY <1>1, <2>1, <2>3, AcquireEffect
  <2> QED BY <1>3, <2>3, <2>4
<1>11. ASSUME NEW l \in leases, ReleaseLayerGroupPlan(l)
       PROVE  FALSE
  <2>1. kv' = Ended(kv, DOMAIN l.tables, l.group)
    BY <1>11 DEF ReleaseLayerGroupPlan, Return, Done
  <2>2. kv'.length = kv.length
    BY <1>1, <2>1, EndedEffect DEF MapOK
  <2> QED BY <1>3, <2>2
<1>12. ASSUME NEW S \in SUBSET Seqs \ {{}}, BuildLayerGroupPlans(S)
       PROVE  FALSE
  <2>1. kv' = kv
    BY <1>1, <1>12, BuildSafe DEF BuildLayerGroupPlans
  <2> QED BY <1>3, <2>1
<1>13. CASE UNCHANGED vars
  BY <1>3, <1>13 DEF vars
<1> QED BY <1>5, <1>6, <1>7, <1>8, <1>9, <1>10, <1>11, <1>12, <1>13 DEF Next

-----------------------------------------------------------------------------
(* The theorems of this half.                                              *)

\* Sharing, leases and plans, with the invariant they rest on.
FullInv == IInv /\ Sharing(kv) /\ LeaseInv /\ PlanSound

\* All parts of the invariant together.
LEMMA FullInvariance == Spec => []FullInv
<1>1. Init => FullInv
  <2>1. Init => LeaseInv /\ PlanSound
    BY DEF Init, LeaseInv, LeasesApart, PlanSound, NoPlan
  <2> QED BY <2>1, InitInv, InitSharing DEF FullInv
<1>2. ASSUME FullInv, [Next]_vars PROVE FullInv'
  <2>1. IInv'
    BY <1>2, StepInv DEF FullInv
  <2>2. Sharing(kv)'
    BY <1>2, StepSharing DEF FullInv
  <2>3. LeaseInv'
    BY <1>2, StepLeases DEF FullInv
  <2>4. PlanSound'
    BY <1>2, StepPlan DEF FullInv
  <2> QED BY <2>1, <2>2, <2>3, <2>4 DEF FullInv
<1>3. FullInv /\ [Next]_vars => FullInv'
  BY <1>2
<1> QED BY <1>1, <1>3, PTL DEF Spec

\* Two tokens' blocks are one block in one layer group exactly when they are
\* in every other, through forks, copies on write, eviction and recompute.
THEOREM GroupsShareAlike == Spec => []GroupsInStep
<1>1. FullInv => GroupsInStep
  <2>1. SharedAlike(kv) => GroupsInStep
    BY DEF SharedAlike, GroupsInStep, KeptIn, KeptKeys, SameBlock
  <2> QED BY <2>1 DEF FullInv, Sharing
<1> QED BY FullInvariance, <1>1, PTL

\* A leased block table stays its sequence's table until it is released.
THEOREM LeasesKept == Spec => []LeasesHold
<1>1. FullInv => LeasesHold
  BY DEF FullInv, LeaseInv, LeaseCurrent, LeasesHold
<1> QED BY FullInvariance, <1>1, PTL

\* The recompute targets of a synchronous step are free blocks, one sequence's
\* each.
THEOREM PlansSound == Spec => []PlanSound
<1>1. FullInv => PlanSound
  BY DEF FullInv
<1> QED BY FullInvariance, <1>1, PTL

\* append_token never leaves the tail of a sequence in a block that another
\* sequence reads.
THEOREM TailsPrivate == Spec => TailExclusive
<1> DEFINE Step == \A s \in Seqs : kv.length[s] > 0 /\ kv'.length[s] = kv.length[s] + 1
                     => \A g \in Groups : TailRefs(kv', s, g) = 1
<1>1. IInv /\ [Next]_vars => Step
  BY StepTail
<1> HIDE DEF Step
<1>2. IInv /\ [Next]_vars => [Step]_vars
  BY <1>1
<1>3. TailExclusive <=> [][Step]_vars
  BY DEF TailExclusive, Step
<1> QED BY Invariance, <1>2, <1>3, PTL DEF Spec

=============================================================================
