------------------------- MODULE ELLMScheduler_proofs -------------------------
(***************************************************************************)
(* For every number of requests, sequences, blocks and layer groups: what  *)
(* the calls of the block manager, with their loops over the sequences of  *)
(* a group, leave of the map; and that what the scheduler and the output   *)
(* processor believe of a sequence and what the manager has of it agree,   *)
(* whatever is admitted, forked, evicted, preempted, swapped, aborted or   *)
(* ended.                                                                  *)
(***************************************************************************)
EXTENDS ELLMScheduler, TokenLayerKVMap_proofs, Folding_proofs, SequenceTheorems

-----------------------------------------------------------------------------
(* The set of maps, and what loops over lists range over.                  *)

Tables == UNION {[D -> Blocks] : D \in SUBSET Keys}
Cells == [free : SUBSET Blocks, refs : [Blocks -> Int], table : Tables]
Maps == [cells : [Groups -> Cells], length : [Seqs -> 0 .. MaxTokens], evicted : [Seqs -> Nat]]

\* A map of the right type is in Maps.
LEMMA MapsAre ==
    ASSUME NEW m, MapType(m)
    PROVE  m \in Maps
<1>1. ASSUME NEW c, CellType(c)
      PROVE  c \in Cells
  <2>1. c.table \in Tables
    BY <1>1 DEF CellType, Tables
  <2> QED BY <1>1, <2>1 DEF CellType, Cells
<1>2. m.cells \in [Groups -> Cells]
  BY <1>1 DEF MapType
<1> QED BY <1>2 DEF MapType, Maps

\* Where a loop of calls may be.
Turns == [map : Maps, raised : Errors, done : Nat]

-----------------------------------------------------------------------------
(* Loops of calls.                                                         *)

CallsBody(g, call, m, list) ==
    [i \in 0 .. Len(list) |->
       IF i = 0
       THEN {[map |-> m, raised |-> "none", done |-> 0]}
       ELSE UNION {NextCall(call, o, list[i]) : o \in g[i - 1]}]

\* What holds before the first call and is kept by each call holds after the last.
LEMMA InTurnKeeps ==
    ASSUME NEW call, NEW m, NEW list, Len(list) \in Nat, NEW U, NEW R,
           R \subseteq Nat \X U,
           <<0, [map |-> m, raised |-> "none", done |-> 0]>> \in R,
           \A i \in 1 .. Len(list) : \A o \in U : <<i - 1, o>> \in R =>
             \A q \in NextCall(call, o, list[i]) : <<i, q>> \in R,
           NEW o \in InTurn(call, m, list)
    PROVE  <<Len(list), o>> \in R
<1> DEFINE n == Len(list)
           base == {[map |-> m, raised |-> "none", done |-> 0]}
           F == [p \in (1 .. n) \X SUBSET U |->
                   UNION {NextCall(call, u, list[p[1]]) : u \in p[2]}]
           Q == {p \in Nat \X SUBSET U : \A u \in p[2] : <<p[1], u>> \in R}
           step(i, V) == UNION {NextCall(call, u, list[i]) : u \in V}
<1>1. base \in SUBSET U /\ <<0, base>> \in Q
  OBVIOUS
<1>2. ASSUME NEW i \in 1 .. n, NEW V, <<i - 1, V>> \in Q
      PROVE  V \in SUBSET U /\ <<i, step(i, V)>> \in Q
  <2>1. V \in SUBSET U /\ \A u \in V : <<i - 1, u>> \in R
    BY <1>2
  <2>2. ASSUME NEW q \in step(i, V)
        PROVE  q \in U /\ <<i, q>> \in R
    <3>1. PICK u \in V : q \in NextCall(call, u, list[i])
      BY <2>2
    <3>2. <<i, q>> \in R
      BY <2>1, <3>1
    <3> QED BY <3>2
  <2> HIDE DEF step
  <2>3. step(i, V) \in SUBSET U
    BY <2>2
  <2>4. <<i, step(i, V)>> \in Nat \X SUBSET U
    BY <2>3
  <2> QED BY <2>1, <2>2, <2>4
<1>3. \A i \in 1 .. n : \A V \in SUBSET U : F[<<i, V>>] = step(i, V)
  <2> SUFFICES ASSUME NEW i \in 1 .. n, NEW V \in SUBSET U
               PROVE  F[<<i, V>>] = step(i, V)
    OBVIOUS
  <2>1. <<i, V>> \in (1 .. n) \X SUBSET U
    OBVIOUS
  <2> QED BY <2>1
<1> HIDE DEF F, Q, step
<1>4. PICK g : g = LoopBody(g, n, base, F)
  <2>1. \E g : g = LoopBody(g, n, base, F)
    BY LoopDefined
  <2> QED BY <2>1
<1>5. g[0] = base /\ \A i \in 1 .. n : g[i] = F[<<i, g[i - 1]>>]
  <2>1. \A i \in 0 .. n : LoopBody(g, n, base, F)[i] = IF i = 0 THEN base ELSE F[<<i, g[i - 1]>>]
    BY DEF LoopBody
  <2>2. 0 \in 0 .. n /\ \A i \in 1 .. n : i \in 0 .. n /\ i # 0
    OBVIOUS
  <2> HIDE DEF base, n
  <2> QED BY <1>4, <2>1, <2>2
<1>6. \A i \in 0 .. n : <<i, g[i]>> \in Q
  <2>1. \A i \in 1 .. n : <<i - 1, g[i - 1]>> \in Q => <<i, g[i]>> \in Q
    BY <1>2, <1>3, <1>5
  <2>2. <<0, g[0]>> \in Q
    BY <1>1, <1>5
  <2> HIDE DEF base
  <2> QED BY <2>1, <2>2, LoopKeeps
<1>7. \A i \in 1 .. n : F[<<i, g[i - 1]>>] = step(i, g[i - 1])
  <2> SUFFICES ASSUME NEW i \in 1 .. n PROVE F[<<i, g[i - 1]>>] = step(i, g[i - 1])
    OBVIOUS
  <2>1. i - 1 \in 0 .. n
    OBVIOUS
  <2>2. <<i - 1, g[i - 1]>> \in Q
    BY <1>6, <2>1
  <2>3. g[i - 1] \in SUBSET U
    BY <2>2 DEF Q
  <2> QED BY <1>3, <2>3
<1>8. LoopBody(g, n, base, F) = CallsBody(g, call, m, list)
  <2> DEFINE A(i) == F[<<i, g[i - 1]>>]
             B(i) == step(i, g[i - 1])
  <2>1. \A i \in 0 .. n : i # 0 => A(i) = B(i)
    BY <1>7
  <2> HIDE DEF A, B
  <2>2. [i \in 0 .. n |-> IF i = 0 THEN base ELSE A(i)]
          = [i \in 0 .. n |-> IF i = 0 THEN base ELSE B(i)]
    BY <2>1
  <2> QED BY <2>2 DEF LoopBody, CallsBody, A, B, step
<1> DEFINE iter == CHOOSE h : h = CallsBody(h, call, m, list)
<1>9. iter = CallsBody(iter, call, m, list)
  BY <1>4, <1>8
<1>10. InTurn(call, m, list) = iter[n]
  BY DEF InTurn, CallsBody
<1> HIDE DEF iter
<1>11. \A i \in 0 .. n : CallsBody(iter, call, m, list)[i] =
         IF i = 0 THEN base ELSE step(i, iter[i - 1])
  BY DEF CallsBody, step
<1>12. iter[0] = base /\ \A i \in 1 .. n : iter[i] = step(i, iter[i - 1])
  <2> HIDE DEF base
  <2> QED BY <1>9, <1>11
<1>13. \A i \in 0 .. n : <<i, iter[i]>> \in Q
  <2>1. \A i \in 1 .. n : <<i - 1, iter[i - 1]>> \in Q => <<i, iter[i]>> \in Q
    BY <1>2, <1>12
  <2>2. <<0, iter[0]>> \in Q
    BY <1>1, <1>12
  <2> HIDE DEF base
  <2> QED BY <2>1, <2>2, LoopKeeps
<1>14. <<n, iter[n]>> \in Q
  BY <1>13
<1> DEFINE V == iter[n]
<1>15. \A u \in V : <<n, u>> \in R
  <2> HIDE DEF V, n
  <2> QED BY <1>14 DEF Q, V
<1>16. o \in V
  BY <1>10
<1> HIDE DEF V
<1> QED BY <1>15, <1>16

-----------------------------------------------------------------------------
(* What calls for the sequences S leave of a map.                          *)

\* Nothing is under recompute.
NoTemps(m) == \A g \in Groups : \A k \in DOMAIN m.cells[g].table : k[1] # "temp"

\* Nobody else holds the last block of s, in any group.
Alone(m, s) ==
    \A g \in Groups : \A k \in DOMAIN m.cells[g].table :
      m.cells[g].table[k] = m.cells[g].table[TailKey(m, s)] => k = TailKey(m, s)

\* The others stay as they were, and their last blocks to themselves.
Moved(m, x, S) ==
    /\ MapOK(x)
    /\ NoTemps(m) => NoTemps(x)
    /\ \A t \in Seqs \ S : /\ x.length[t] = m.length[t] /\ x.evicted[t] = m.evicted[t]
                           /\ m.length[t] > 0 /\ Alone(m, t) => Alone(x, t)

\* A map is moved from itself.
LEMMA MovedNot ==
    ASSUME NEW m, MapOK(m), NEW S
    PROVE  Moved(m, m, S)
  BY DEF Moved

\* Calls for S and then for T are calls for all of them.
LEMMA MovedTwice ==
    ASSUME NEW m, NEW x, NEW y, NEW S, NEW T, NEW U, S \cup T \subseteq U,
           Moved(m, x, S), Moved(x, y, T)
    PROVE  Moved(m, y, U)
  BY DEF Moved

\* Where the entries of a pool come from: a call for S takes free blocks, or such
\* as sequences of S hold.
Sources(m, x, S) ==
    \A g \in Groups : \A k \in DOMAIN x.cells[g].table :
      /\ k[1] = "temp" => k \in DOMAIN m.cells[g].table
      /\ IF k[2] \in S
         THEN \/ x.cells[g].table[k] \in m.cells[g].free
              \/ \E j \in DOMAIN m.cells[g].table :
                   j[2] \in S /\ x.cells[g].table[k] = m.cells[g].table[j]
         ELSE k \in DOMAIN m.cells[g].table /\ x.cells[g].table[k] = m.cells[g].table[k]

\* A call that takes free blocks, or such as sequences of S hold, leaves to the
\* others the last blocks that they had alone.
LEMMA MovedBySources ==
    ASSUME NEW m, MapOK(m), NEW x, MapOK(x), NEW S, Sources(m, x, S),
           \A t \in Seqs \ S : x.length[t] = m.length[t] /\ x.evicted[t] = m.evicted[t]
    PROVE  Moved(m, x, S)
<1>1. NoTemps(m) => NoTemps(x)
  BY DEF NoTemps, Sources
<1>2. ASSUME NEW t \in Seqs \ S, m.length[t] > 0, Alone(m, t),
             NEW g \in Groups, NEW k \in DOMAIN x.cells[g].table,
             x.cells[g].table[k] = x.cells[g].table[TailKey(x, t)]
      PROVE  k = TailKey(x, t)
  <2> DEFINE tail == TailKey(m, t)
  <2>1. t \in Present(m) /\ t \in Present(x) /\ TailKey(x, t) = tail
    BY <1>2 DEF Present, TailKey
  <2>2. tail[2] = t /\ tail \in DOMAIN m.cells[g].table /\ tail \in DOMAIN x.cells[g].table
    BY <2>1, TailFacts
  <2>3. CellOK(m.cells[g])
    BY MapCells DEF MapOK
  <2>4. \A j \in DOMAIN m.cells[g].table :
          m.cells[g].table[j] = m.cells[g].table[tail] => j = tail
    BY <1>2 DEF Alone
  <2> HIDE DEF tail
  <2>5. x.cells[g].table[tail] = m.cells[g].table[tail]
    BY <2>2 DEF Sources
  <2>6. m.cells[g].table[tail] \notin m.cells[g].free
    BY <2>2, <2>3, CountTells
  <2>7. x.cells[g].table[k] = m.cells[g].table[tail]
    BY <1>2, <2>1, <2>5
  <2>8. CASE k[2] \in S
    <3>1. PICK j \in DOMAIN m.cells[g].table :
            j[2] \in S /\ x.cells[g].table[k] = m.cells[g].table[j]
      BY <2>6, <2>7, <2>8 DEF Sources
    <3>2. j = tail
      BY <2>4, <2>7, <3>1
    <3> QED BY <2>2, <3>1, <3>2
  <2>9. CASE k[2] \notin S
    BY <2>1, <2>4, <2>7, <2>9 DEF Sources
  <2> QED BY <2>8, <2>9
<1> QED BY <1>1, <1>2 DEF Moved, Alone

\* The last block of s is its own when its reference count is 1 in every group.
LEMMA AloneIs ==
    ASSUME NEW m, MapOK(m), NEW s \in Present(m)
    PROVE  Alone(m, s) <=> \A g \in Groups : TailRefs(m, s, g) = 1
<1>1. ASSUME NEW g \in Groups
      PROVE  TailRefs(m, s, g) = 1 <=>
               \A k \in DOMAIN m.cells[g].table :
                 m.cells[g].table[k] = m.cells[g].table[TailKey(m, s)] => k = TailKey(m, s)
  <2> DEFINE tail == TailKey(m, s)
  <2>1. tail \in DOMAIN m.cells[g].table /\ CellOK(m.cells[g])
    BY TailFacts, MapCells DEF MapOK
  <2>2. /\ TailRefs(m, s, g) \in Nat /\ TailRefs(m, s, g) >= 1
        /\ TailRefs(m, s, g) > 1 <=>
             \E k \in DOMAIN m.cells[g].table :
               k # tail /\ m.cells[g].table[k] = m.cells[g].table[tail]
    <3> HIDE DEF tail
    <3> QED BY <2>1, CountTells DEF TailRefs, tail
  <2> HIDE DEF tail
  <2>3. TailRefs(m, s, g) = 1 <=> ~(TailRefs(m, s, g) > 1)
    BY <2>2
  <2> QED BY <2>2, <2>3 DEF tail
<1> QED BY <1>1 DEF Alone

-----------------------------------------------------------------------------
(* What one call leaves.                                                   *)

\* What one allocate_sequence_with_evicted_prefix leaves.
LEMMA AllocateOne ==
    ASSUME NEW m, MapOK(m), NEW s \in Seqs,
           NEW n \in 1 .. MaxTokens, NEW e \in Nat, e < NumLogicalBlocks(n),
           NEW o \in AllocateOutcomes(m, s, n, e), o.raised = "none"
    PROVE  /\ Moved(m, o.map, {s})
           /\ o.map.length[s] = n /\ o.map.evicted[s] = e /\ Alone(o.map, s)
<1>1. PICK x : x = o.map
  OBVIOUS
<1>2. MapOK(x) /\ s \notin Present(m) /\ Resized(m, x, s, n, e)
  BY <1>1, AllocateSafe, AllocateEffect DEF Safe
<1>3. PICK K : Extended(m, x, s, K)
  BY <1>1, AllocateEffect
<1>4. /\ x.length[s] = n /\ x.evicted[s] = e
      /\ \A t \in Seqs \ {s} : x.length[t] = m.length[t] /\ x.evicted[t] = m.evicted[t]
  BY <1>2, ResizedOne
<1>5. ASSUME NEW g \in Groups
      PROVE  Granted(m.cells[g], x.cells[g], K) /\ CellOK(m.cells[g])
  BY <1>3, MapCells DEF Extended, MapOK
<1>6. \A k \in K : k[1] = "kept" /\ k[2] = s
  BY <1>3 DEF Extended
<1>7. Sources(m, x, {s})
  BY <1>5, <1>6 DEF Sources, Granted
<1>8. Moved(m, x, {s})
  BY <1>2, <1>4, <1>7, MovedBySources
<1>9. Alone(x, s)
  <2> SUFFICES ASSUME NEW g \in Groups, NEW k \in DOMAIN x.cells[g].table,
                      x.cells[g].table[k] = x.cells[g].table[TailKey(x, s)]
               PROVE  k = TailKey(x, s)
    BY DEF Alone
  <2>1. PICK tail : tail = TailKey(x, s)
    OBVIOUS
  <2>2. tail \in DOMAIN x.cells[g].table /\ tail[2] = s
    BY <1>2, <1>4, <2>1, TailFacts DEF Present
  <2>3. tail \in K
    BY <1>2, <1>5, <2>2, AbsentNoKeys DEF Granted
  <2>4. tail = k
    BY <1>5, <2>1, <2>3, GrantedAlone
  <2> QED BY <2>1, <2>4
<1> QED BY <1>1, <1>4, <1>8, <1>9

\* append_token takes free blocks for s, with or without a copy on write.
LEMMA AppendSources ==
    ASSUME NEW m, MapOK(m), NEW s \in Present(m), m.length[s] < MaxTokens,
           NEW o \in AppendOutcomes(m, s), o.raised = "none"
    PROVE  /\ Resized(m, o.map, s, m.length[s] + 1, m.evicted[s])
           /\ Sources(m, o.map, {s})
<1>1. PICK x : x = o.map
  OBVIOUS
<1>2. MapOK(x) /\ s \in Seqs /\ m.length[s] \in Nat
  BY <1>1, AppendSafe DEF Safe, Present, MapOK, MapType
<1>3. ASSUME NumLogicalBlocks(m.length[s] + 1) > NumLogicalBlocks(m.length[s])
      PROVE  Resized(m, x, s, m.length[s] + 1, m.evicted[s]) /\ Sources(m, x, {s})
  <2> DEFINE K == {<<"kept", s, NumLogicalBlocks(m.length[s])>>}
  <2>1. o \in NewBlockOutcomes(m, s)
    BY <1>3 DEF AppendOutcomes
  <2>2. Resized(m, x, s, m.length[s] + 1, m.evicted[s]) /\ Extended(m, x, s, K)
    BY <1>1, <1>3, <2>1, NewBlockEffect
  <2> HIDE DEF K
  <2>3. \A k \in K : k[1] = "kept" /\ k[2] = s
    BY <2>2 DEF Extended
  <2>4. \A g \in Groups : Granted(m.cells[g], x.cells[g], K)
    BY <2>2 DEF Extended
  <2>5. Sources(m, x, {s})
    BY <2>3, <2>4 DEF Sources, Granted
  <2> QED BY <2>2, <2>5
<1>4. ASSUME ~(NumLogicalBlocks(m.length[s] + 1) > NumLogicalBlocks(m.length[s]))
      PROVE  Resized(m, x, s, m.length[s] + 1, m.evicted[s]) /\ Sources(m, x, {s})
  <2>1. o \in CopyOnWriteOutcomes(m, s)
    BY <1>4 DEF AppendOutcomes
  <2>2. /\ Resized(m, x, s, m.length[s] + 1, m.evicted[s])
        /\ \A g \in Groups :
             \/ TailRefs(m, s, g) <= 1 /\ x.cells[g] = m.cells[g]
             \/ /\ TailRefs(m, s, g) > 1
                /\ DOMAIN x.cells[g].table = DOMAIN m.cells[g].table
                /\ \A k \in DOMAIN m.cells[g].table : k # TailKey(m, s) =>
                     x.cells[g].table[k] = m.cells[g].table[k]
                /\ x.cells[g].table[TailKey(m, s)] \in m.cells[g].free
    BY <1>1, <2>1, CopyOnWriteEffect
  <2>3. TailKey(m, s)[2] = s
    BY TailFacts
  <2>4. Sources(m, x, {s})
    <3> SUFFICES ASSUME NEW g \in Groups, NEW k \in DOMAIN x.cells[g].table
                 PROVE  /\ k[1] = "temp" => k \in DOMAIN m.cells[g].table
                        /\ IF k[2] \in {s}
                           THEN \/ x.cells[g].table[k] \in m.cells[g].free
                                \/ \E j \in DOMAIN m.cells[g].table :
                                     j[2] \in {s} /\ x.cells[g].table[k] = m.cells[g].table[j]
                           ELSE /\ k \in DOMAIN m.cells[g].table
                                /\ x.cells[g].table[k] = m.cells[g].table[k]
      BY DEF Sources
    <3>1. DOMAIN x.cells[g].table = DOMAIN m.cells[g].table
      BY <2>2
    <3>2. k # TailKey(m, s) => x.cells[g].table[k] = m.cells[g].table[k]
      BY <2>2, <3>1
    <3>3. \/ x.cells[g].table[TailKey(m, s)] \in m.cells[g].free
          \/ x.cells[g].table[TailKey(m, s)] = m.cells[g].table[TailKey(m, s)]
      BY <2>2
    <3>4. CASE k[2] = s
      <4>1. CASE k = TailKey(m, s)
        BY <3>1, <3>3, <3>4, <4>1
      <4>2. CASE k # TailKey(m, s)
        BY <3>1, <3>2, <3>4, <4>2
      <4> QED BY <4>1, <4>2
    <3>5. CASE k[2] # s
      BY <2>3, <3>1, <3>2, <3>5
    <3> QED BY <3>4, <3>5
  <2> QED BY <2>2, <2>4
<1> QED BY <1>1, <1>3, <1>4

\* What one append_token leaves.
LEMMA AppendOne ==
    ASSUME NEW m, MapOK(m), NEW s \in Present(m), m.length[s] < MaxTokens,
           NEW o \in AppendOutcomes(m, s), o.raised = "none"
    PROVE  /\ Moved(m, o.map, {s})
           /\ o.map.length[s] = m.length[s] + 1 /\ o.map.evicted[s] = m.evicted[s]
           /\ Alone(o.map, s)
<1>1. PICK x : x = o.map
  OBVIOUS
<1>2. MapOK(x) /\ s \in Seqs /\ m.length[s] \in Nat
  BY <1>1, AppendSafe DEF Safe, Present, MapOK, MapType
<1>3. Resized(m, x, s, m.length[s] + 1, m.evicted[s]) /\ Sources(m, x, {s})
  BY <1>1, AppendSources
<1>4. /\ x.length[s] = m.length[s] + 1 /\ x.evicted[s] = m.evicted[s]
      /\ \A t \in Seqs \ {s} : x.length[t] = m.length[t] /\ x.evicted[t] = m.evicted[t]
  BY <1>2, <1>3, ResizedOne
<1>5. Moved(m, x, {s})
  BY <1>2, <1>3, <1>4, MovedBySources
<1>6. s \in Present(x)
  BY <1>2, <1>4 DEF Present
<1>7. Alone(x, s)
  BY <1>1, <1>2, <1>6, AloneIs, AppendTail
<1> QED BY <1>1, <1>4, <1>5, <1>7

\* Pruning a table takes no block from elsewhere.
LEMMA PrunedSources ==
    ASSUME NEW m, NEW x, NEW s,
           \A g \in Groups :
             \E K : Pruned(m.cells[g], x.cells[g], K) /\ \A k \in K : k[2] = s
    PROVE  Sources(m, x, {s})
<1> SUFFICES ASSUME NEW g \in Groups, NEW k \in DOMAIN x.cells[g].table
             PROVE  /\ k \in DOMAIN m.cells[g].table
                    /\ x.cells[g].table[k] = m.cells[g].table[k]
  BY DEF Sources
<1>1. PICK K : Pruned(m.cells[g], x.cells[g], K)
  OBVIOUS
<1> QED BY <1>1 DEF Pruned

\* What one evict_prefix leaves.
LEMMA EvictOne ==
    ASSUME NEW m, MapOK(m), NEW s \in Present(m),
           NEW p \in Nat, p < NumLogicalBlocks(m.length[s]),
           NEW o \in EvictOutcomes(m, s, p), o.raised = "none"
    PROVE  /\ Moved(m, o.map, {s})
           /\ o.map.length[s] = m.length[s] /\ o.map.evicted[s] = p
           /\ Alone(m, s) => Alone(o.map, s)
<1>1. PICK x : x = o.map
  OBVIOUS
<1>2. MapOK(x) /\ s \in Seqs
  BY <1>1, EvictSafe DEF Safe, Present
<1>3. /\ Resized(m, x, s, m.length[s], p)
      /\ \A g \in Groups :
           \E K : Pruned(m.cells[g], x.cells[g], K) /\ \A k \in K : k[2] = s
  BY <1>1, EvictEffect
<1>4. /\ x.length[s] = m.length[s] /\ x.evicted[s] = p
      /\ \A t \in Seqs \ {s} : x.length[t] = m.length[t] /\ x.evicted[t] = m.evicted[t]
  BY <1>2, <1>3, ResizedOne
<1>5. Moved(m, x, {s})
  BY <1>2, <1>3, <1>4, PrunedSources, MovedBySources
<1>6. ASSUME Alone(m, s)
      PROVE  Alone(x, s)
  <2> SUFFICES ASSUME NEW g \in Groups, NEW k \in DOMAIN x.cells[g].table,
                      x.cells[g].table[k] = x.cells[g].table[TailKey(x, s)]
               PROVE  k = TailKey(x, s)
    BY DEF Alone
  <2>1. PICK tail : tail = TailKey(x, s) /\ tail = TailKey(m, s)
    BY <1>4 DEF TailKey
  <2>2. tail \in DOMAIN x.cells[g].table
    <3>1. s \in Present(x)
      BY <1>2, <1>4 DEF Present
    <3>2. TailKey(x, s) \in DOMAIN x.cells[g].table
      BY <1>2, <3>1, TailFacts
    <3> QED BY <2>1, <3>2
  <2>3. \A j \in DOMAIN x.cells[g].table :
          j \in DOMAIN m.cells[g].table /\ x.cells[g].table[j] = m.cells[g].table[j]
    <3>1. PICK K : Pruned(m.cells[g], x.cells[g], K)
      BY <1>3
    <3> QED BY <3>1 DEF Pruned
  <2>4. m.cells[g].table[k] = m.cells[g].table[tail]
    BY <2>1, <2>2, <2>3
  <2> QED BY <1>6, <2>1, <2>3, <2>4 DEF Alone
<1> QED BY <1>1, <1>4, <1>5, <1>6

\* What one free_sequence leaves.
LEMMA FreedOne ==
    ASSUME NEW m, MapOK(m), NEW s \in Seqs
    PROVE  /\ Moved(m, Freed(m, s), {s})
           /\ Freed(m, s).length[s] = 0 /\ Freed(m, s).evicted[s] = 0
<1>1. PICK x : x = Freed(m, s)
  OBVIOUS
<1>2. MapOK(x)
  BY <1>1, FreedOK
<1>3. /\ Resized(m, x, s, 0, 0)
      /\ \A g \in Groups :
           \E K : Pruned(m.cells[g], x.cells[g], K) /\ \A k \in K : k[2] = s
  BY <1>1, FreedEffect
<1>4. /\ x.length[s] = 0 /\ x.evicted[s] = 0
      /\ \A t \in Seqs \ {s} : x.length[t] = m.length[t] /\ x.evicted[t] = m.evicted[t]
  BY <1>3, ResizedOne
<1>5. Moved(m, x, {s})
  BY <1>2, <1>3, <1>4, PrunedSources, MovedBySources
<1> QED BY <1>1, <1>4, <1>5

SameOthers(m, x, s) == \A t \in Seqs \ {s} : x.length[t] = m.length[t]

\* Nothing is under recompute between the calls of the scheduler, and so a fork
\* never raises.
LEMMA ForkOne ==
    ASSUME NEW m, MapOK(m), NoTemps(m), NEW p \in Present(m), NEW s \in Seqs,
           s \notin Present(m), NEW o \in ForkOutcomes(m, p, s)
    PROVE  /\ o.raised = "none"
           /\ Moved(m, o.map, {p, s})
           /\ o.map.length[s] = m.length[p] /\ SameOthers(m, o.map, s)
<1>1. PICK x : x = o.map
  OBVIOUS
<1>2. MapOK(x) /\ p \in Seqs
  BY <1>1, ForkSafe DEF Safe, Present
<1>3. ~Recomputing(m, {p})
  BY DEF NoTemps, Recomputing, Entries
<1>4. o.raised = "none"
  BY <1>3 DEF ForkOutcomes, Done
<1>5. Resized(m, x, s, m.length[p], m.evicted[p])
  BY <1>1, <1>4, ForkEffect
<1>6. \A g \in Groups : \A k \in DOMAIN x.cells[g].table :
        /\ k[2] = s => /\ k[1] = "kept" /\ <<"kept", p, k[3]>> \in DOMAIN m.cells[g].table
                       /\ x.cells[g].table[k] = m.cells[g].table[<<"kept", p, k[3]>>]
        /\ k[2] # s => /\ k \in DOMAIN m.cells[g].table
                       /\ x.cells[g].table[k] = m.cells[g].table[k]
  BY <1>1, <1>4, ForkEffect
<1>7. Sources(m, x, {p, s})
  <2> SUFFICES ASSUME NEW g \in Groups, NEW k \in DOMAIN x.cells[g].table
               PROVE  /\ k[1] = "temp" => k \in DOMAIN m.cells[g].table
                      /\ IF k[2] \in {p, s}
                         THEN \/ x.cells[g].table[k] \in m.cells[g].free
                              \/ \E j \in DOMAIN m.cells[g].table :
                                   j[2] \in {p, s} /\ x.cells[g].table[k] = m.cells[g].table[j]
                         ELSE /\ k \in DOMAIN m.cells[g].table
                              /\ x.cells[g].table[k] = m.cells[g].table[k]
    BY DEF Sources
  <2>1. CASE k[2] = s
    <3>1. PICK j : j = <<"kept", p, k[3]>>
      OBVIOUS
    <3>2. j[2] = p
      BY <3>1
    <3> QED BY <1>6, <2>1, <3>1, <3>2
  <2>2. CASE k[2] # s
    BY <1>6, <2>2
  <2> QED BY <2>1, <2>2
<1>8. /\ x.length[s] = m.length[p]
      /\ \A t \in Seqs \ {s} : x.length[t] = m.length[t] /\ x.evicted[t] = m.evicted[t]
  BY <1>5, ResizedOne
<1>9. Moved(m, x, {p, s})
  BY <1>2, <1>7, <1>8, MovedBySources
<1> QED BY <1>1, <1>4, <1>8, <1>9 DEF SameOthers

-----------------------------------------------------------------------------
(* What a loop of calls leaves.                                            *)

\* E has the maps that there may be after i calls, if none raised.
LEMMA TurnsKeep ==
    ASSUME NEW call, NEW m, MapOK(m), NEW list, Len(list) \in Nat, NEW E, <<0, m>> \in E,
           \A i \in 1 .. Len(list) : \A x \in Maps : <<i - 1, x>> \in E =>
             /\ MapOK(x)
             /\ \A p \in OutcomesOf(call, x, list[i]) :
                  Safe(x, p) /\ (p.raised = "none" => <<i, p.map>> \in E),
           NEW o \in InTurn(call, m, list)
    PROVE  /\ o \in Turns /\ MapOK(o.map) /\ o.done \in 0 .. Len(list)
           /\ o.raised = "none" => <<Len(list), o.map>> \in E
<1> DEFINE R == {p \in Nat \X Turns :
                   /\ MapOK(p[2].map) /\ p[2].done \in 0 .. p[1]
                   /\ p[2].raised = "none" => p[2].done = p[1] /\ <<p[1], p[2].map>> \in E}
           first == [map |-> m, raised |-> "none", done |-> 0]
<1>1. m \in Maps
  BY MapsAre DEF MapOK
<1>2. <<0, first>> \in R
  <2>1. first \in Turns
    BY <1>1 DEF Turns, Errors
  <2> QED BY <2>1
<1>3. ASSUME NEW i \in 1 .. Len(list), NEW u \in Turns, <<i - 1, u>> \in R,
             NEW q \in NextCall(call, u, list[i])
      PROVE  <<i, q>> \in R
  <2>1. /\ MapOK(u.map) /\ u.done \in 0 .. i - 1
        /\ u.raised = "none" => u.done = i - 1 /\ <<i - 1, u.map>> \in E
    BY <1>3
  <2>2. i \in Nat /\ u.map \in Maps
    BY DEF Turns
  <2>3. CASE u.raised # "none"
    <3>1. q = u
      BY <2>3 DEF NextCall
    <3>2. <<i, u>> \in Nat \X Turns /\ u.done \in 0 .. i
      BY <2>1, <2>2
    <3> QED BY <2>1, <2>3, <3>1, <3>2
  <2>4. CASE u.raised = "none"
    <3>1. PICK p \in OutcomesOf(call, u.map, list[i]) :
            q = [map |-> p.map, raised |-> p.raised,
                 done |-> IF p.raised = "none" THEN u.done + 1 ELSE u.done]
      BY <2>4 DEF NextCall
    <3>2. Safe(u.map, p) /\ (p.raised = "none" => <<i, p.map>> \in E)
      BY <2>1, <2>2, <2>4
    <3>3. MapOK(p.map) /\ p.map \in Maps /\ p.raised \in Errors
      BY <3>2, MapsAre DEF Safe, MapOK
    <3>4. q.done \in 0 .. i /\ (p.raised = "none" => q.done = i)
      BY <2>1, <2>2, <2>4, <3>1
    <3>5. q \in Turns
      BY <3>1, <3>3, <3>4 DEF Turns
    <3>6. q.map = p.map /\ q.raised = p.raised
      BY <3>1
    <3>7. <<i, q>> \in Nat \X Turns
      BY <2>2, <3>5
    <3> QED BY <3>2, <3>3, <3>4, <3>6, <3>7
  <2> QED BY <2>3, <2>4
<1>4. R \subseteq Nat \X Turns
  OBVIOUS
<1>5. <<Len(list), o>> \in R
  <2> HIDE DEF R
  <2> QED BY <1>2, <1>3, <1>4, InTurnKeeps
<1>6. o \in Turns
  BY <1>5
<1> QED BY <1>5, <1>6

\* allocate for every sequence of a list, by induction over its calls.
LEMMA AllocateTurns ==
    ASSUME NEW m, MapOK(m), NEW list \in Seq(Seqs), NEW len, NEW evicted,
           \A s \in Firsts(list, Len(list)) :
             /\ len[s] \in 1 .. MaxTokens /\ evicted[s] \in Nat
             /\ evicted[s] < NumLogicalBlocks(len[s]),
           NEW o \in InTurn([method |-> "allocate", length |-> len, evicted |-> evicted],
                            m, list)
    PROVE  /\ o \in Turns /\ MapOK(o.map) /\ o.done \in 0 .. Len(list)
           /\ o.raised = "none" =>
                /\ Moved(m, o.map, Firsts(list, Len(list)))
                /\ \A s \in Firsts(list, Len(list)) :
                     /\ o.map.length[s] = len[s] /\ o.map.evicted[s] = evicted[s]
                     /\ Alone(o.map, s)
<1> DEFINE call == [method |-> "allocate", length |-> len, evicted |-> evicted]
           n == Len(list)
           Set(x, i) == \A s \in Firsts(list, i) :
                          /\ x.length[s] = len[s] /\ x.evicted[s] = evicted[s]
                          /\ Alone(x, s)
           E == {p \in Nat \X Maps : Moved(m, p[2], Firsts(list, p[1])) /\ Set(p[2], p[1])}
<1>1. n \in Nat
  OBVIOUS
<1>2. \A x, s : OutcomesOf(call, x, s) = AllocateOutcomes(x, s, len[s], evicted[s])
  BY DEF OutcomesOf
<1> HIDE DEF call
<1>3. <<0, m>> \in E
  <2>1. Firsts(list, 0) = {} /\ m \in Maps
    BY MapsAre DEF Firsts, MapOK
  <2>2. Moved(m, m, {})
    BY MovedNot
  <2> QED BY <2>1, <2>2
<1>4. ASSUME NEW i \in 1 .. n, NEW x \in Maps, <<i - 1, x>> \in E
      PROVE  /\ MapOK(x)
             /\ \A p \in OutcomesOf(call, x, list[i]) :
                  Safe(x, p) /\ (p.raised = "none" => <<i, p.map>> \in E)
  <2>1. Moved(m, x, Firsts(list, i - 1)) /\ Set(x, i - 1)
    BY <1>4
  <2>2. MapOK(x)
    BY <2>1 DEF Moved
  <2>3. PICK s \in Seqs : s = list[i] /\ s \in Firsts(list, n)
    BY DEF Firsts
  <2>4. /\ len[s] \in 1 .. MaxTokens /\ evicted[s] \in Nat
        /\ evicted[s] < NumLogicalBlocks(len[s])
    BY <2>3
  <2>5. Firsts(list, i) = Firsts(list, i - 1) \cup {s} /\ i \in Nat
    BY <2>3, FirstsStep
  <2>6. ASSUME NEW p \in AllocateOutcomes(x, s, len[s], evicted[s])
        PROVE  Safe(x, p) /\ (p.raised = "none" => <<i, p.map>> \in E)
    <3>1. Safe(x, p)
      BY <2>2, <2>4, AllocateSafe
    <3>2. ASSUME p.raised = "none"
          PROVE  <<i, p.map>> \in E
      <4>1. /\ Moved(x, p.map, {s})
            /\ p.map.length[s] = len[s] /\ p.map.evicted[s] = evicted[s] /\ Alone(p.map, s)
        BY <2>2, <2>4, <3>2, AllocateOne
      <4>2. Moved(m, p.map, Firsts(list, i))
        BY <2>1, <2>5, <4>1, MovedTwice
      <4>3. ASSUME NEW t \in Firsts(list, i), t # s
            PROVE  /\ p.map.length[t] = len[t] /\ p.map.evicted[t] = evicted[t]
                   /\ Alone(p.map, t)
        <5>1. t \in Firsts(list, i - 1) /\ t \in Seqs /\ t \in Firsts(list, n)
          <6>1. t \in Firsts(list, i - 1)
            BY <2>5, <4>3
          <6> QED BY <6>1 DEF Firsts
        <5>2. x.length[t] = len[t] /\ x.evicted[t] = evicted[t] /\ Alone(x, t)
              /\ len[t] > 0
          BY <2>1, <5>1
        <5> QED BY <4>1, <4>3, <5>1, <5>2 DEF Moved
      <4>4. Set(p.map, i)
        BY <4>1, <4>3
      <4>5. p.map \in Maps
        BY <4>2, MapsAre DEF Moved, MapOK
      <4> QED BY <2>5, <4>2, <4>4, <4>5
    <3> QED BY <3>1, <3>2
  <2> QED BY <1>2, <2>2, <2>3, <2>6
<1>5. /\ o \in Turns /\ MapOK(o.map) /\ o.done \in 0 .. n
      /\ o.raised = "none" => <<n, o.map>> \in E
  <2>1. o \in InTurn(call, m, list)
    BY DEF call
  <2> HIDE DEF E
  <2> QED BY <1>1, <1>3, <1>4, <2>1, TurnsKeep
<1>6. o.raised = "none" => Moved(m, o.map, Firsts(list, n)) /\ Set(o.map, n)
  BY <1>5
<1> QED BY <1>5, <1>6

\* append for every sequence of a list.
LEMMA AppendTurns ==
    ASSUME NEW m, MapOK(m), NEW list \in Seq(Seqs), NEW len,
           \A s \in Firsts(list, Len(list)) :
             m.length[s] > 0 /\ len[s] = m.length[s] + 1 /\ len[s] <= MaxTokens,
           NEW o \in InTurn([method |-> "append", length |-> len], m, list)
    PROVE  /\ o \in Turns /\ MapOK(o.map)
           /\ o.raised = "none" =>
                /\ Moved(m, o.map, Firsts(list, Len(list)))
                /\ \A s \in Firsts(list, Len(list)) :
                     /\ o.map.length[s] = len[s] /\ o.map.evicted[s] = m.evicted[s]
                     /\ Alone(o.map, s)
<1> DEFINE call == [method |-> "append", length |-> len]
           n == Len(list)
           Set(x, i) == \A s \in Firsts(list, i) :
                          /\ x.length[s] = len[s] /\ x.evicted[s] = m.evicted[s]
                          /\ Alone(x, s)
           E == {p \in Nat \X Maps : Moved(m, p[2], Firsts(list, p[1])) /\ Set(p[2], p[1])}
<1>1. n \in Nat
  OBVIOUS
<1>2. \A x, s : OutcomesOf(call, x, s) = IF x.length[s] < len[s]
                                         THEN AppendOutcomes(x, s) ELSE {Done(x)}
  BY DEF OutcomesOf
<1> HIDE DEF call
<1>3. <<0, m>> \in E
  <2>1. Firsts(list, 0) = {} /\ m \in Maps
    BY MapsAre DEF Firsts, MapOK
  <2>2. Moved(m, m, {})
    BY MovedNot
  <2> QED BY <2>1, <2>2
<1>4. ASSUME NEW i \in 1 .. n, NEW x \in Maps, <<i - 1, x>> \in E
      PROVE  /\ MapOK(x)
             /\ \A p \in OutcomesOf(call, x, list[i]) :
                  Safe(x, p) /\ (p.raised = "none" => <<i, p.map>> \in E)
  <2>1. Moved(m, x, Firsts(list, i - 1)) /\ Set(x, i - 1)
    BY <1>4
  <2>2. MapOK(x)
    BY <2>1 DEF Moved
  <2>3. PICK s \in Seqs : s = list[i] /\ s \in Firsts(list, n)
    BY DEF Firsts
  <2>4. m.length[s] \in Nat /\ m.length[s] > 0 /\ len[s] = m.length[s] + 1
        /\ len[s] <= MaxTokens /\ MaxTokens \in Nat
    BY <2>3, SizesAssumption DEF MapOK, MapType
  <2>5. Firsts(list, i) = Firsts(list, i - 1) \cup {s} /\ i \in Nat
    BY <2>3, FirstsStep
  <2>6. ASSUME NEW p \in OutcomesOf(call, x, s)
        PROVE  /\ Safe(x, p)
               /\ p.raised = "none" =>
                    /\ Moved(x, p.map, {s}) /\ p.map.length[s] = len[s]
                    /\ p.map.evicted[s] = m.evicted[s] /\ Alone(p.map, s)
    <3>1. CASE s \in Firsts(list, i - 1)
      <4>1. x.length[s] = len[s] /\ x.evicted[s] = m.evicted[s] /\ Alone(x, s)
        BY <2>1, <3>1
      <4>2. p = Done(x)
        BY <1>2, <2>4, <4>1
      <4>3. p.map = x /\ p.raised = "none"
        BY <4>2 DEF Done
      <4> QED BY <2>2, <4>1, <4>3, MovedNot DEF Safe, Errors
    <3>2. CASE s \notin Firsts(list, i - 1)
      <4>1. x.length[s] = m.length[s] /\ x.evicted[s] = m.evicted[s]
        BY <2>1, <3>2 DEF Moved
      <4>2. p \in AppendOutcomes(x, s)
        BY <1>2, <2>4, <4>1
      <4>3. s \in Present(x) /\ x.length[s] < MaxTokens
        BY <2>4, <4>1 DEF Present
      <4> QED BY <2>2, <2>4, <4>1, <4>2, <4>3, AppendSafe, AppendOne
    <3> QED BY <3>1, <3>2
  <2>7. ASSUME NEW p \in OutcomesOf(call, x, s), p.raised = "none"
        PROVE  <<i, p.map>> \in E
    <3>1. /\ Moved(x, p.map, {s}) /\ p.map.length[s] = len[s]
          /\ p.map.evicted[s] = m.evicted[s] /\ Alone(p.map, s)
      BY <2>6, <2>7
    <3>2. Moved(m, p.map, Firsts(list, i))
      BY <2>1, <2>5, <3>1, MovedTwice
    <3>3. ASSUME NEW t \in Firsts(list, i), t # s
          PROVE  /\ p.map.length[t] = len[t] /\ p.map.evicted[t] = m.evicted[t]
                 /\ Alone(p.map, t)
      <4>1. t \in Firsts(list, i - 1) /\ t \in Seqs /\ t \in Firsts(list, n)
        <5>1. t \in Firsts(list, i - 1)
          BY <2>5, <3>3
        <5> QED BY <5>1 DEF Firsts
      <4>2. m.length[t] \in Nat /\ m.length[t] > 0 /\ len[t] = m.length[t] + 1
        BY <4>1 DEF MapOK, MapType
      <4>3. x.length[t] = len[t] /\ x.evicted[t] = m.evicted[t] /\ Alone(x, t)
            /\ len[t] > 0
        BY <2>1, <4>1, <4>2
      <4> QED BY <3>1, <3>3, <4>1, <4>3 DEF Moved
    <3>4. Set(p.map, i)
      BY <3>1, <3>3
    <3>5. p.map \in Maps
      BY <3>2, MapsAre DEF Moved, MapOK
    <3> QED BY <2>5, <3>2, <3>4, <3>5
  <2> QED BY <2>2, <2>3, <2>6, <2>7
<1>5. /\ o \in Turns /\ MapOK(o.map)
      /\ o.raised = "none" => <<n, o.map>> \in E
  <2>1. o \in InTurn(call, m, list)
    BY DEF call
  <2> HIDE DEF E
  <2> QED BY <1>1, <1>3, <1>4, <2>1, TurnsKeep
<1>6. o.raised = "none" => Moved(m, o.map, Firsts(list, n)) /\ Set(o.map, n)
  BY <1>5
<1> QED BY <1>5, <1>6

\* Min and Max of two integers, which the library defines by CHOOSE.
LEMMA MaxOfTwo ==
    ASSUME NEW a \in Int, NEW b \in Int
    PROVE  /\ Max({a, b}) \in {a, b} /\ Max({a, b}) >= a /\ Max({a, b}) >= b
           /\ Min({a, b}) \in {a, b} /\ Min({a, b}) <= a /\ Min({a, b}) <= b
<1>1. \E x \in {a, b} : \A y \in {a, b} : x >= y
  <2>1. CASE a >= b
    BY <2>1
  <2>2. CASE ~(a >= b)
    BY <2>2
  <2> QED BY <2>1, <2>2
<1>2. \E x \in {a, b} : \A y \in {a, b} : x <= y
  <2>1. CASE a >= b
    BY <2>1
  <2>2. CASE ~(a >= b)
    BY <2>2
  <2> QED BY <2>1, <2>2
<1> QED BY <1>1, <1>2 DEF Max, Min

\* The newest block of a sequence is retained, whatever the ratio.
LEMMA EvictedBlocksBelow ==
    ASSUME NEW n \in Nat, n > 0, NEW layers \in Int
    PROVE  EvictedBlocks(n, layers) \in Nat /\ EvictedBlocks(n, layers) < NumLogicalBlocks(n)
<1>1. PICK blocks \in Nat : blocks = NumLogicalBlocks(n) /\ blocks > 0
  BY BlocksStep
<1>2. NumLayers \in Nat /\ NumLayers > 0
  BY ManagerAssumption
<1>3. PICK stay \in Nat : stay = Min({Max({layers, 0}), NumLayers})
  <2>1. Max({layers, 0}) \in Nat
    BY MaxOfTwo
  <2>2. Min({Max({layers, 0}), NumLayers}) \in {Max({layers, 0}), NumLayers}
    BY <1>2, <2>1, MaxOfTwo
  <2> QED BY <1>2, <2>1, <2>2
<1>4. PICK share \in Nat : share = (blocks * stay + NumLayers - 1) \div NumLayers
  <2>1. PICK x \in Nat : x = blocks * stay
    BY <1>1, <1>3
  <2>2. x + NumLayers - 1 \in Nat
    BY <1>2, <2>1
  <2>3. (x + NumLayers - 1) \div NumLayers \in Nat
    BY <1>2, <2>2
  <2> QED BY <2>1, <2>3
<1>5. PICK retained \in Nat : retained = Max({1, share}) /\ retained >= 1
  <2>1. 1 \in Int /\ share \in Int
    BY <1>4
  <2>2. Max({1, share}) \in {1, share} /\ Max({1, share}) >= 1
    BY <2>1, MaxOfTwo
  <2>3. Max({1, share}) \in Nat
    BY <1>4, <2>2
  <2> QED BY <2>2, <2>3
<1>6. EvictedBlocks(n, layers) = Max({blocks - retained, 0})
  <2>1. EvictedBlocks(n, layers)
          = Max({NumLogicalBlocks(n)
                  - Max({1, (NumLogicalBlocks(n) * Min({Max({layers, 0}), NumLayers})
                              + NumLayers - 1) \div NumLayers}), 0})
    BY Zenon DEF EvictedBlocks
  <2> DEFINE part(b, c) == (b * c + NumLayers - 1) \div NumLayers
  <2>2. part(blocks, stay) = share
    BY <1>4
  <2>3. EvictedBlocks(n, layers)
          = Max({NumLogicalBlocks(n)
                  - Max({1, part(NumLogicalBlocks(n), Min({Max({layers, 0}), NumLayers}))}), 0})
    BY <2>1
  <2> HIDE DEF part
  <2>4. part(NumLogicalBlocks(n), Min({Max({layers, 0}), NumLayers})) = share
    <3>1. NumLogicalBlocks(n) = blocks /\ Min({Max({layers, 0}), NumLayers}) = stay
      BY <1>1, <1>3
    <3> QED BY <2>2, <3>1
  <2> QED BY <1>1, <1>5, <2>3, <2>4, Zenon
<1>7. Max({blocks - retained, 0}) \in {blocks - retained, 0} /\ Max({blocks - retained, 0}) >= 0
  <2>1. blocks - retained \in Int /\ 0 \in Int
    OBVIOUS
  <2> QED BY <2>1, MaxOfTwo
<1> QED BY <1>1, <1>5, <1>6, <1>7

\* evict for every sequence of a list.
LEMMA EvictTurns ==
    ASSUME NEW m, MapOK(m), NEW list \in Seq(Seqs), NEW len, NEW layers \in Int,
           \A s \in Firsts(list, Len(list)) : m.length[s] > 0 /\ len[s] = m.length[s],
           NEW o \in InTurn([method |-> "evict", length |-> len, layers |-> layers], m, list)
    PROVE  /\ o \in Turns /\ MapOK(o.map)
           /\ o.raised = "none" =>
                /\ Moved(m, o.map, Firsts(list, Len(list)))
                /\ \A s \in Firsts(list, Len(list)) :
                     /\ o.map.length[s] = m.length[s]
                     /\ Alone(m, s) => Alone(o.map, s)
<1> DEFINE call == [method |-> "evict", length |-> len, layers |-> layers]
           n == Len(list)
           Set(x) == \A s \in Firsts(list, n) :
                       /\ x.length[s] = m.length[s]
                       /\ Alone(m, s) => Alone(x, s)
           E == {p \in Nat \X Maps : Moved(m, p[2], Firsts(list, n)) /\ Set(p[2])}
<1>1. n \in Nat
  OBVIOUS
<1>2. \A x, s : OutcomesOf(call, x, s)
                  = EvictOutcomes(x, s, EvictedBlocks(len[s], layers))
  BY DEF OutcomesOf
<1> HIDE DEF call
<1>3. <<0, m>> \in E
  BY MapsAre, MovedNot DEF MapOK
<1>4. ASSUME NEW i \in 1 .. n, NEW x \in Maps, <<i - 1, x>> \in E
      PROVE  /\ MapOK(x)
             /\ \A p \in OutcomesOf(call, x, list[i]) :
                  Safe(x, p) /\ (p.raised = "none" => <<i, p.map>> \in E)
  <2>1. Moved(m, x, Firsts(list, n)) /\ Set(x)
    BY <1>4
  <2>2. MapOK(x)
    BY <2>1 DEF Moved
  <2>3. PICK s \in Seqs : s = list[i] /\ s \in Firsts(list, n)
    BY DEF Firsts
  <2>4. x.length[s] \in Nat /\ x.length[s] > 0 /\ len[s] = x.length[s]
    BY <2>1, <2>2, <2>3 DEF MapOK, MapType
  <2>5. s \in Present(x)
    BY <2>4 DEF Present
  <2>6. PICK e \in Nat : e = EvictedBlocks(len[s], layers) /\ e < NumLogicalBlocks(x.length[s])
    BY <2>4, EvictedBlocksBelow
  <2>7. ASSUME NEW p \in EvictOutcomes(x, s, e)
        PROVE  Safe(x, p) /\ (p.raised = "none" => <<i, p.map>> \in E)
    <3>1. Safe(x, p)
      BY <2>2, <2>5, <2>6, EvictSafe
    <3>2. ASSUME p.raised = "none"
          PROVE  <<i, p.map>> \in E
      <4>1. /\ Moved(x, p.map, {s}) /\ p.map.length[s] = x.length[s]
            /\ Alone(x, s) => Alone(p.map, s)
        BY <2>2, <2>5, <2>6, <3>2, EvictOne
      <4>2. Moved(m, p.map, Firsts(list, n))
        BY <2>1, <2>3, <4>1, MovedTwice
      <4>3. ASSUME NEW t \in Firsts(list, n)
            PROVE  p.map.length[t] = m.length[t] /\ (Alone(m, t) => Alone(p.map, t))
        <5>1. t \in Seqs /\ m.length[t] > 0 /\ x.length[t] = m.length[t]
              /\ (Alone(m, t) => Alone(x, t))
          BY <2>1 DEF Firsts
        <5>2. CASE t = s
          BY <4>1, <5>1, <5>2
        <5>3. CASE t # s
          BY <4>1, <5>1, <5>3 DEF Moved
        <5> QED BY <5>2, <5>3
      <4>4. p.map \in Maps
        BY <4>2, MapsAre DEF Moved, MapOK
      <4> QED BY <4>2, <4>3, <4>4
    <3> QED BY <3>1, <3>2
  <2> QED BY <1>2, <2>2, <2>3, <2>6, <2>7
<1>5. /\ o \in Turns /\ MapOK(o.map)
      /\ o.raised = "none" => <<n, o.map>> \in E
  <2>1. o \in InTurn(call, m, list)
    BY DEF call
  <2> HIDE DEF E
  <2> QED BY <1>1, <1>3, <1>4, <2>1, TurnsKeep
<1>6. o.raised = "none" => Moved(m, o.map, Firsts(list, n)) /\ Set(o.map)
  BY <1>5
<1> QED BY <1>5, <1>6

\* Nothing raises if no call does in the maps that there may be.
LEMMA TurnsReturn ==
    ASSUME NEW call, NEW m, NEW list, Len(list) \in Nat, NEW E, E \subseteq Nat \X Maps,
           <<0, m>> \in E,
           \A i \in 1 .. Len(list) : \A x \in Maps : <<i - 1, x>> \in E =>
             \A p \in OutcomesOf(call, x, list[i]) : p.raised = "none" /\ <<i, p.map>> \in E,
           NEW o \in InTurn(call, m, list)
    PROVE  o.raised = "none" /\ <<Len(list), o.map>> \in E
<1> DEFINE R == {p \in Nat \X Turns : p[2].raised = "none" /\ <<p[1], p[2].map>> \in E}
           first == [map |-> m, raised |-> "none", done |-> 0]
<1>1. <<0, first>> \in R
  <2>1. first \in Turns
    BY DEF Turns, Errors
  <2> QED BY <2>1
<1>2. ASSUME NEW i \in 1 .. Len(list), NEW u \in Turns, <<i - 1, u>> \in R,
             NEW q \in NextCall(call, u, list[i])
      PROVE  <<i, q>> \in R
  <2>1. u.raised = "none" /\ <<i - 1, u.map>> \in E /\ u.map \in Maps
    BY <1>2 DEF Turns
  <2>2. u.done \in Nat
    BY DEF Turns
  <2>3. PICK p \in OutcomesOf(call, u.map, list[i]) :
          q = [map |-> p.map, raised |-> p.raised,
               done |-> IF p.raised = "none" THEN u.done + 1 ELSE u.done]
    BY <2>1 DEF NextCall
  <2>4. p.raised = "none" /\ <<i, p.map>> \in E
    BY <2>1
  <2>5. p.map \in Maps
    BY <2>4
  <2>6. q = [map |-> p.map, raised |-> "none", done |-> u.done + 1]
    BY <2>3, <2>4
  <2>7. q \in Turns
    BY <2>2, <2>5, <2>6 DEF Turns, Errors
  <2>8. q.map = p.map /\ q.raised = "none" /\ i \in Nat
    BY <2>6
  <2> QED BY <2>4, <2>7, <2>8
<1>3. R \subseteq Nat \X Turns
  OBVIOUS
<1>4. <<Len(list), o>> \in R
  <2> HIDE DEF R
  <2> QED BY <1>1, <1>2, <1>3, InTurnKeeps
<1> QED BY <1>4

\* The sequences of a list are new and come from parents in P.
NewFrom(m, list, parent, P) ==
    \A s \in Firsts(list, Len(list)) : s \notin Present(m) /\ parent[s] \in P

\* The sequences of the list have the lengths of their parents, and nobody else
\* has another.
Inherit(m, x, list, parent) ==
    \A t \in Seqs :
      x.length[t] = m.length[IF t \in Firsts(list, Len(list)) THEN parent[t] ELSE t]

\* fork of new sequences from parents in P: the children have what their parents
\* have, and no call raises.
LEMMA ForkTurns ==
    ASSUME NEW m, MapOK(m), NoTemps(m), NEW list \in Seq(Seqs),
           Distinct(list),
           NEW P \in SUBSET Present(m), NEW parent, NewFrom(m, list, parent, P),
           NEW o \in InTurn([method |-> "fork", parent |-> parent], m, list)
    PROVE  /\ o.raised = "none" /\ NoTemps(o.map)
           /\ Moved(m, o.map, P \cup Firsts(list, Len(list)))
           /\ Inherit(m, o.map, list, parent)
<1> DEFINE call == [method |-> "fork", parent |-> parent]
           n == Len(list)
           Set(x, i) == \A t \in Seqs :
                          x.length[t] = m.length[IF t \in Firsts(list, i) THEN parent[t] ELSE t]
           E == {p \in Nat \X Maps :
                   /\ NoTemps(p[2]) /\ Moved(m, p[2], P \cup Firsts(list, n))
                   /\ Set(p[2], p[1])}
<1>1. n \in Nat
  OBVIOUS
<1>2. \A x, s : OutcomesOf(call, x, s) = ForkOutcomes(x, parent[s], s)
  BY DEF OutcomesOf
<1> HIDE DEF call
<1>3. <<0, m>> \in E
  <2>1. Firsts(list, 0) = {} /\ m \in Maps
    BY MapsAre DEF Firsts, MapOK
  <2>2. Moved(m, m, P \cup Firsts(list, n))
    BY MovedNot
  <2> QED BY <2>1, <2>2
<1>4. ASSUME NEW i \in 1 .. n, NEW x \in Maps, <<i - 1, x>> \in E,
             NEW q \in OutcomesOf(call, x, list[i])
      PROVE  q.raised = "none" /\ <<i, q.map>> \in E
  <2>1. NoTemps(x) /\ Moved(m, x, P \cup Firsts(list, n)) /\ Set(x, i - 1)
    BY <1>4
  <2>2. MapOK(x)
    BY <2>1 DEF Moved
  <2>3. PICK s \in Seqs : s = list[i] /\ s \in Firsts(list, n)
    BY DEF Firsts
  <2>4. PICK p \in Seqs : p = parent[s] /\ p \in P /\ m.length[p] > 0
    BY <2>3 DEF Present, NewFrom
  <2>5. ~(m.length[s] > 0) /\ s \notin Firsts(list, i - 1)
    <3>1. \A j \in 1 .. i - 1 : list[j] # s
      BY <2>3 DEF Distinct
    <3>2. s \notin Present(m)
      BY <2>3 DEF NewFrom
    <3> QED BY <3>1, <3>2 DEF Present, Firsts
  <2>6. p \notin Firsts(list, n)
    BY <2>4 DEF NewFrom
  <2>7. p \notin Firsts(list, i - 1) /\ Firsts(list, i) = Firsts(list, i - 1) \cup {s}
    BY <2>3, <2>6, FirstsStep DEF Firsts
  <2>8. x.length[p] = m.length[p] /\ x.length[s] = m.length[s]
    BY <2>1, <2>5, <2>7
  <2>9. p \in Present(x) /\ s \notin Present(x)
    BY <2>4, <2>5, <2>8 DEF Present
  <2>10. q \in ForkOutcomes(x, p, s)
    BY <1>2, <1>4, <2>3, <2>4
  <2>11. /\ q.raised = "none" /\ Moved(x, q.map, {p, s})
         /\ q.map.length[s] = x.length[p]
         /\ \A t \in Seqs \ {s} : q.map.length[t] = x.length[t]
    <3>1. NoTemps(x)
      BY <2>1
    <3>2. MapOK(x) /\ p \in Present(x) /\ s \in Seqs /\ ~(s \in Present(x))
          /\ q \in ForkOutcomes(x, p, s)
      BY <2>2, <2>9, <2>10
    <3> HIDE DEF Set, E, n
    <3>3. q.raised = "none"
      BY <3>1, <3>2, ForkOne
    <3>4. Moved(x, q.map, {p, s})
      BY <3>1, <3>2, ForkOne
    <3>5. q.map.length[s] = x.length[p]
      BY <3>1, <3>2, ForkOne
    <3>6. SameOthers(x, q.map, s)
      BY <3>1, <3>2, ForkOne
    <3> QED BY <3>3, <3>4, <3>5, <3>6 DEF SameOthers
  <2>12. Moved(m, q.map, P \cup Firsts(list, n)) /\ NoTemps(q.map)
    <3>1. (P \cup Firsts(list, n)) \cup {p, s} \subseteq P \cup Firsts(list, n)
      BY <2>3, <2>4
    <3> QED BY <2>1, <2>11, <3>1, MovedTwice DEF Moved
  <2>13. Set(q.map, i)
    <3> SUFFICES ASSUME NEW t \in Seqs
                 PROVE  q.map.length[t] = m.length[IF t \in Firsts(list, i) THEN parent[t] ELSE t]
      OBVIOUS
    <3>1. CASE t = s
      BY <2>4, <2>7, <2>8, <2>11, <3>1
    <3>2. CASE t # s
      <4>1. t \in Firsts(list, i) <=> t \in Firsts(list, i - 1)
        BY <2>7, <3>2
      <4>2. q.map.length[t] = x.length[t]
        BY <2>11, <3>2
      <4> QED BY <2>1, <4>1, <4>2
    <3> QED BY <3>1, <3>2
  <2>14. q.map \in Maps /\ i \in Nat
    BY <2>12, MapsAre DEF Moved, MapOK
  <2> QED BY <2>11, <2>12, <2>13, <2>14
<1>5. o.raised = "none" /\ <<n, o.map>> \in E
  <2>1. o \in InTurn(call, m, list)
    BY DEF call
  <2>2. E \subseteq Nat \X Maps
    OBVIOUS
  <2> HIDE DEF E
  <2> QED BY <1>1, <1>3, <1>4, <2>1, <2>2, TurnsReturn
<1> QED BY <1>5 DEF Inherit

\* free of the sequences of a list.
LEMMA AllFreedOK ==
    ASSUME NEW m, MapOK(m), NEW list \in Seq(Seqs)
    PROVE  /\ MapOK(AllFreed(m, list))
           /\ Moved(m, AllFreed(m, list), Firsts(list, Len(list)))
           /\ \A s \in Firsts(list, Len(list)) : AllFreed(m, list).length[s] = 0
<1> DEFINE n == Len(list)
           F == [p \in (1 .. n) \X Maps |-> Freed(p[2], list[p[1]])]
           Set(x, i) == \A s \in Firsts(list, i) : x.length[s] = 0
           Q == {p \in Nat \X Maps : Moved(m, p[2], Firsts(list, p[1])) /\ Set(p[2], p[1])}
           body(g) == [i \in 0 .. n |-> IF i = 0 THEN m ELSE Freed(g[i - 1], list[i])]
<1>1. n \in Nat
  OBVIOUS
<1>2. <<0, m>> \in Q
  <2>1. Firsts(list, 0) = {} /\ m \in Maps
    BY MapsAre DEF Firsts, MapOK
  <2>2. Moved(m, m, {})
    BY MovedNot
  <2> QED BY <2>1, <2>2
<1>3. ASSUME NEW i \in 1 .. n, NEW x, <<i - 1, x>> \in Q
      PROVE  x \in Maps /\ <<i, Freed(x, list[i])>> \in Q
  <2>1. x \in Maps /\ Moved(m, x, Firsts(list, i - 1)) /\ Set(x, i - 1)
    BY <1>3
  <2>2. PICK s \in Seqs : s = list[i]
    OBVIOUS
  <2>3. PICK y : y = Freed(x, s)
    OBVIOUS
  <2>4. Moved(x, y, {s}) /\ y.length[s] = 0
    BY <2>1, <2>3, FreedOne DEF Moved
  <2>5. Firsts(list, i) = Firsts(list, i - 1) \cup {s} /\ i \in Nat
    BY <2>2, FirstsStep
  <2>6. Moved(m, y, Firsts(list, i))
    BY <2>1, <2>4, <2>5, MovedTwice
  <2>7. ASSUME NEW t \in Firsts(list, i)
        PROVE  y.length[t] = 0
    <3>1. CASE t = s
      BY <2>4, <3>1
    <3>2. CASE t # s
      <4>1. t \in Firsts(list, i - 1)
        BY <2>5, <3>2
      <4>2. t \in Seqs
        BY <4>1 DEF Firsts
      <4> QED BY <2>1, <2>4, <3>2, <4>1, <4>2 DEF Moved
    <3> QED BY <3>1, <3>2
  <2>8. y \in Maps
    BY <2>6, MapsAre DEF Moved, MapOK
  <2> QED BY <2>1, <2>2, <2>3, <2>5, <2>6, <2>7, <2>8
<1>4. \A i \in 1 .. n : \A x : <<i - 1, x>> \in Q => F[<<i, x>>] = Freed(x, list[i])
  <2> SUFFICES ASSUME NEW i \in 1 .. n, NEW x, <<i - 1, x>> \in Q
               PROVE  F[<<i, x>>] = Freed(x, list[i])
    OBVIOUS
  <2>1. <<i, x>> \in (1 .. n) \X Maps
    BY <1>3
  <2> QED BY <2>1
<1> HIDE DEF F, Q
<1>5. PICK g : g = LoopBody(g, n, m, F)
  <2>1. \E g : g = LoopBody(g, n, m, F)
    BY <1>1, LoopDefined
  <2> QED BY <2>1
<1>6. g[0] = m /\ \A i \in 1 .. n : g[i] = F[<<i, g[i - 1]>>]
  <2>1. \A i \in 0 .. n : LoopBody(g, n, m, F)[i] = IF i = 0 THEN m ELSE F[<<i, g[i - 1]>>]
    BY DEF LoopBody
  <2>2. 0 \in 0 .. n /\ \A i \in 1 .. n : i \in 0 .. n /\ i # 0
    OBVIOUS
  <2> HIDE DEF n
  <2> QED BY <1>5, <2>1, <2>2
<1>7. \A i \in 0 .. n : <<i, g[i]>> \in Q
  <2>1. ASSUME NEW i \in 1 .. n, <<i - 1, g[i - 1]>> \in Q
        PROVE  <<i, g[i]>> \in Q
    <3>1. <<i, Freed(g[i - 1], list[i])>> \in Q
      BY <1>3, <2>1
    <3>2. g[i] = Freed(g[i - 1], list[i])
      BY <1>4, <1>6, <2>1
    <3> QED BY <3>1, <3>2
  <2>2. <<0, g[0]>> \in Q
    BY <1>2, <1>6
  <2> HIDE DEF n
  <2> QED BY <1>1, <2>1, <2>2, LoopKeeps
<1>8. g = body(g)
  <2> DEFINE A(i) == F[<<i, g[i - 1]>>]
             B(i) == Freed(g[i - 1], list[i])
  <2>1. \A i \in 0 .. n : i # 0 => A(i) = B(i)
    <3> SUFFICES ASSUME NEW i \in 0 .. n, i # 0 PROVE A(i) = B(i)
      OBVIOUS
    <3>1. i \in 1 .. n /\ i - 1 \in 0 .. n
      OBVIOUS
    <3>2. <<i - 1, g[i - 1]>> \in Q
      BY <1>7, <3>1
    <3> QED BY <1>4, <3>1, <3>2
  <2> HIDE DEF A, B
  <2>2. [i \in 0 .. n |-> IF i = 0 THEN m ELSE A(i)] = [i \in 0 .. n |-> IF i = 0 THEN m ELSE B(i)]
    BY <2>1
  <2> QED BY <1>5, <2>2 DEF LoopBody, A, B
<1> DEFINE iter == CHOOSE h : h = body(h)
<1>9. iter = body(iter)
  BY <1>8
<1>10. AllFreed(m, list) = iter[n]
  BY DEF AllFreed
<1> HIDE DEF iter
<1>11. iter[0] = m /\ \A i \in 1 .. n : iter[i] = Freed(iter[i - 1], list[i])
  <2>1. \A i \in 0 .. n : body(iter)[i] = IF i = 0 THEN m ELSE Freed(iter[i - 1], list[i])
    OBVIOUS
  <2>2. 0 \in 0 .. n /\ \A i \in 1 .. n : i \in 0 .. n /\ i # 0
    OBVIOUS
  <2> HIDE DEF body, n
  <2> QED BY <1>9, <2>1, <2>2
<1>12. \A i \in 0 .. n : <<i, iter[i]>> \in Q
  <2>1. \A i \in 1 .. n : <<i - 1, iter[i - 1]>> \in Q => <<i, iter[i]>> \in Q
    BY <1>3, <1>11
  <2>2. <<0, iter[0]>> \in Q
    BY <1>2, <1>11
  <2> HIDE DEF n
  <2> QED BY <1>1, <2>1, <2>2, LoopKeeps
<1>13. <<n, iter[n]>> \in Q
  BY <1>12
<1>14. PICK x : x = iter[n]
  OBVIOUS
<1>15. Moved(m, x, Firsts(list, n)) /\ Set(x, n)
  BY <1>13, <1>14 DEF Q
<1> QED BY <1>10, <1>14, <1>15 DEF Moved

-----------------------------------------------------------------------------
(* What the calls of the manager leave.                                    *)

\* Arguments of allocate_sequence_with_evicted_prefix for the sequences of a list.
Allocatable(list, len, evicted) ==
    \A s \in Listed(list) : /\ len[s] \in 1 .. MaxTokens /\ evicted[s] \in Nat
                            /\ evicted[s] < NumLogicalBlocks(len[s])

\* Every sequence of the list is in the map, a token behind.
Behind(m, list, len) ==
    \A s \in Listed(list) : /\ m.length[s] > 0 /\ len[s] = m.length[s] + 1
                            /\ len[s] <= MaxTokens

\* Every sequence of the list is in the map, up to date.
UpToDate(m, list, len) ==
    \A s \in Listed(list) : m.length[s] > 0 /\ len[s] = m.length[s]

\* The sequences of the list have these lengths, and their last blocks alone.
HaveLengths(x, list, len) ==
    \A s \in Listed(list) : x.length[s] = len[s] /\ Alone(x, s)

HaveEvicted(x, list, evicted) == \A s \in Listed(list) : x.evicted[s] = evicted[s]

\* allocate_sequence_with_evicted_prefix for a list, undone if one of them raises.
LEMMA AllOrNothingOK ==
    ASSUME NEW m, MapOK(m), NEW list \in Seq(Seqs), NEW len, NEW evicted,
           Allocatable(list, len, evicted),
           NEW o \in AllOrNothing(m, list, len, evicted)
    PROVE  /\ MapOK(o.map)
           /\ o.raised = "none" => /\ Moved(m, o.map, Listed(list))
                                   /\ HaveLengths(o.map, list, len)
                                   /\ HaveEvicted(o.map, list, evicted)
<1> DEFINE call == [method |-> "allocate", length |-> len, evicted |-> evicted]
<1>1. PICK q \in InTurn(call, m, list) :
        o = IF q.raised = "none"
            THEN q
            ELSE [q EXCEPT !.map = AllFreed(q.map, SubSeq(list, 1, q.done))]
  BY DEF AllOrNothing
<1>2. /\ q \in Turns /\ MapOK(q.map) /\ q.done \in 0 .. Len(list)
      /\ q.raised = "none" =>
           /\ Moved(m, q.map, Firsts(list, Len(list)))
           /\ \A s \in Firsts(list, Len(list)) :
                /\ q.map.length[s] = len[s] /\ q.map.evicted[s] = evicted[s]
                /\ Alone(q.map, s)
  <2>1. \A s \in Firsts(list, Len(list)) :
             /\ len[s] \in 1 .. MaxTokens /\ evicted[s] \in Nat
             /\ evicted[s] < NumLogicalBlocks(len[s])
    BY DEF Allocatable, Listed
  <2> QED BY <1>1, <2>1, AllocateTurns
<1>3. CASE q.raised = "none"
  BY <1>1, <1>2, <1>3 DEF HaveLengths, HaveEvicted, Listed
<1>4. CASE q.raised # "none"
  <2>1. SubSeq(list, 1, q.done) \in Seq(Seqs)
    BY <1>2
  <2>2. PICK x : x = AllFreed(q.map, SubSeq(list, 1, q.done))
    OBVIOUS
  <2>3. MapOK(x)
    BY <1>2, <2>1, <2>2, AllFreedOK
  <2>4. o = [q EXCEPT !.map = x]
    BY <1>1, <1>4, <2>2
  <2>5. o.map = x /\ o.raised = q.raised
    BY <1>2, <2>4 DEF Turns
  <2> QED BY <1>4, <2>3, <2>5
<1> QED BY <1>3, <1>4

\* A manager is a record of these three, and a call gives it another map.
IsManager(bm) == bm = [map |-> bm.map, cpu |-> bm.cpu, swapped |-> bm.swapped]

Remapped(bm, x) == [map |-> x, cpu |-> bm.cpu, swapped |-> bm.swapped]

\* Changing the map of a manager.
LEMMA RemappedIs ==
    ASSUME NEW bm, IsManager(bm), NEW x
    PROVE  /\ [bm EXCEPT !.map = x] = Remapped(bm, x)
           /\ IsManager(Remapped(bm, x)) /\ Remapped(bm, x).map = x
           /\ Remapped(bm, x).cpu = bm.cpu /\ Remapped(bm, x).swapped = bm.swapped
  BY DEF IsManager, Remapped

\* The outcome of a call is the manager with the map x.
Leaves(bm, o, x) == o.mgr = Remapped(bm, x) /\ MapOK(x)

\* allocate of the block manager.
LEMMA AllocateCall ==
    ASSUME NEW bm, IsManager(bm), MapOK(bm.map), NEW list \in Seq(Seqs), NEW len,
           \A s \in Listed(list) : len[s] \in 1 .. MaxTokens,
           NEW o \in Allocate(bm, list, len)
    PROVE  \E x : /\ Leaves(bm, o, x)
                  /\ o.raised = "none" => /\ Moved(bm.map, x, Listed(list))
                                          /\ HaveLengths(x, list, len)
<1> DEFINE none == [s \in Seqs |-> 0]
<1>1. PICK q \in AllOrNothing(bm.map, list, len, none) :
        o = [mgr |-> [bm EXCEPT !.map = q.map], raised |-> q.raised]
  BY DEF Allocate
<1>2. Allocatable(list, len, none)
  <2> SUFFICES ASSUME NEW s \in Listed(list)
               PROVE  /\ len[s] \in 1 .. MaxTokens /\ none[s] \in Nat
                      /\ none[s] < NumLogicalBlocks(len[s])
    BY DEF Allocatable
  <2>1. s \in Seqs
    BY DEF Listed, Firsts
  <2>2. len[s] \in Nat /\ len[s] > 0
    BY SizesAssumption
  <2>3. NumLogicalBlocks(len[s]) \in Nat /\ NumLogicalBlocks(len[s]) > 0
    BY <2>2, BlocksStep
  <2> QED BY <2>1, <2>3
<1> HIDE DEF none
<1>3. PICK x : x = q.map
  OBVIOUS
<1>4. /\ MapOK(x)
      /\ q.raised = "none" => Moved(bm.map, x, Listed(list)) /\ HaveLengths(x, list, len)
  BY <1>1, <1>2, <1>3, AllOrNothingOK
<1>5. o.mgr = Remapped(bm, x) /\ o.raised = q.raised
  BY <1>1, <1>3, RemappedIs
<1> QED BY <1>4, <1>5 DEF Leaves

\* append_slots of the block manager.
LEMMA AppendCall ==
    ASSUME NEW bm, IsManager(bm), MapOK(bm.map), NEW list \in Seq(Seqs), NEW len,
           Behind(bm.map, list, len), NEW o \in AppendSlots(bm, list, len)
    PROVE  \E x : /\ Leaves(bm, o, x)
                  /\ o.raised = "none" => /\ Moved(bm.map, x, Listed(list))
                                          /\ HaveLengths(x, list, len)
                                          /\ HaveEvicted(x, list, bm.map.evicted)
<1> DEFINE call == [method |-> "append", length |-> len]
<1>1. PICK q \in InTurn(call, bm.map, list) :
        o = [mgr |-> [bm EXCEPT !.map = q.map], raised |-> q.raised]
  BY DEF AppendSlots
<1>2. PICK x : x = q.map
  OBVIOUS
<1>3. \A s \in Firsts(list, Len(list)) :
        bm.map.length[s] > 0 /\ len[s] = bm.map.length[s] + 1 /\ len[s] <= MaxTokens
  BY DEF Behind, Listed
<1>4. /\ MapOK(q.map)
      /\ q.raised = "none" =>
           /\ Moved(bm.map, q.map, Firsts(list, Len(list)))
           /\ \A s \in Firsts(list, Len(list)) :
                /\ q.map.length[s] = len[s] /\ q.map.evicted[s] = bm.map.evicted[s]
                /\ Alone(q.map, s)
  BY <1>1, <1>3, AppendTurns
<1>5. o.mgr = Remapped(bm, x) /\ o.raised = q.raised
  BY <1>1, <1>2, RemappedIs
<1> QED BY <1>2, <1>4, <1>5 DEF Leaves, HaveLengths, HaveEvicted, Listed

\* evict_to_cached_layer_ratio keeps the lengths and whose last block is whose.
LEMMA EvictCall ==
    ASSUME NEW bm, IsManager(bm), MapOK(bm.map), NEW list \in Seq(Seqs), NEW len,
           NEW layers \in Int, UpToDate(bm.map, list, len),
           NEW o \in EvictToCachedLayerRatio(bm, list, len, layers)
    PROVE  \E x : /\ Leaves(bm, o, x)
                  /\ o.raised = "none" =>
                       /\ Moved(bm.map, x, Listed(list))
                       /\ \A s \in Listed(list) : /\ x.length[s] = bm.map.length[s]
                                                  /\ Alone(bm.map, s) => Alone(x, s)
<1> DEFINE call == [method |-> "evict", length |-> len, layers |-> layers]
<1>1. PICK q \in InTurn(call, bm.map, list) :
        o = [mgr |-> [bm EXCEPT !.map = q.map], raised |-> q.raised]
  BY DEF EvictToCachedLayerRatio
<1>2. PICK x : x = q.map
  OBVIOUS
<1>3. \A s \in Firsts(list, Len(list)) : bm.map.length[s] > 0 /\ len[s] = bm.map.length[s]
  BY DEF UpToDate, Listed
<1>4. /\ MapOK(q.map)
      /\ q.raised = "none" =>
           /\ Moved(bm.map, q.map, Firsts(list, Len(list)))
           /\ \A s \in Firsts(list, Len(list)) :
                q.map.length[s] = bm.map.length[s] /\ (Alone(bm.map, s) => Alone(q.map, s))
  BY <1>1, <1>3, EvictTurns
<1>5. o.mgr = Remapped(bm, x) /\ o.raised = q.raised
  BY <1>1, <1>2, RemappedIs
<1> QED BY <1>2, <1>4, <1>5 DEF Leaves, Listed

\* build_partial_recompute_plans leaves the map as it found it.
LEMMA BuildCall ==
    ASSUME NEW bm, IsManager(bm), MapOK(bm.map), NEW S \in SUBSET Present(bm.map),
           NEW o \in BuildPartialRecomputePlans(bm, S)
    PROVE  Leaves(bm, o, bm.map)
<1>1. PICK q \in BuildOutcomes(bm.map, S) :
        o = [mgr |-> [bm EXCEPT !.map = q.map], raised |-> q.raised]
  BY DEF BuildPartialRecomputePlans
<1>2. q.map = bm.map
  BY BuildSafe
<1> QED BY <1>1, <1>2, RemappedIs DEF Leaves

\* fork of the block manager.
LEMMA ForkCall ==
    ASSUME NEW bm, IsManager(bm), MapOK(bm.map), NoTemps(bm.map),
           NEW list \in Seq(Seqs), Distinct(list), NEW P \in SUBSET Present(bm.map),
           NEW parent, NewFrom(bm.map, list, parent, P), NEW o \in Fork(bm, list, parent)
    PROVE  \E x : /\ Leaves(bm, o, x) /\ o = [mgr |-> Remapped(bm, x), raised |-> "none"]
                  /\ NoTemps(x) /\ Moved(bm.map, x, P \cup Listed(list))
                  /\ Inherit(bm.map, x, list, parent)
<1> DEFINE call == [method |-> "fork", parent |-> parent]
<1>1. PICK q \in InTurn(call, bm.map, list) :
        o = [mgr |-> [bm EXCEPT !.map = q.map], raised |-> q.raised]
  BY DEF Fork
<1>2. PICK x : x = q.map
  OBVIOUS
<1>3. /\ q.raised = "none" /\ NoTemps(q.map)
      /\ Moved(bm.map, q.map, P \cup Firsts(list, Len(list)))
      /\ Inherit(bm.map, q.map, list, parent)
  BY <1>1, ForkTurns
<1>4. o = [mgr |-> Remapped(bm, x), raised |-> "none"]
  BY <1>1, <1>2, <1>3, RemappedIs
<1> QED BY <1>2, <1>3, <1>4 DEF Leaves, Listed, Moved

\* free of the block manager.
LEMMA FreeCall ==
    ASSUME NEW bm, IsManager(bm), MapOK(bm.map), NEW list \in Seq(Seqs)
    PROVE  \E x : /\ Free(bm, list) = Remapped(bm, x) /\ MapOK(x)
                  /\ Moved(bm.map, x, Listed(list))
                  /\ \A s \in Listed(list) : x.length[s] = 0
<1>1. PICK x : x = AllFreed(bm.map, list)
  OBVIOUS
<1>2. /\ MapOK(x) /\ Moved(bm.map, x, Listed(list))
      /\ \A s \in Listed(list) : x.length[s] = 0
  BY <1>1, AllFreedOK DEF Listed
<1> QED BY <1>1, <1>2, RemappedIs DEF Free

-----------------------------------------------------------------------------
(* Swapping.                                                               *)

\* What the record r says of a sequence of n tokens with e evicted blocks.
Records(r, n, e) ==
    /\ r.length = n /\ r.evicted = e
    /\ \A g \in Groups : DOMAIN r.tables[g] = e .. NumLogicalBlocks(n) - 1

OnCpu(r) == \A g \in Groups : Range(r.tables[g]) \subseteq CpuBlocks

CpuTyped(bm) ==
    /\ bm.cpu \in [Groups -> SUBSET CpuBlocks]
    /\ DOMAIN bm.swapped \subseteq Seqs
    /\ \A s \in DOMAIN bm.swapped : OnCpu(bm.swapped[s])

\* Another map leaves the CPU side alone.
LEMMA RemappedCpu ==
    ASSUME NEW bm, CpuTyped(bm), NEW x
    PROVE  CpuTyped(Remapped(bm, x))
  BY DEF CpuTyped, Remapped

\* swap_out: the map forgets the sequences and the manager records them.
LEMMA SwapOutCall ==
    ASSUME NEW bm, IsManager(bm), MapOK(bm.map), CpuTyped(bm), NEW list \in Seq(Seqs),
           NEW after \in SwapOut(bm, list)
    PROVE  /\ IsManager(after) /\ MapOK(after.map) /\ CpuTyped(after)
           /\ Moved(bm.map, after.map, Listed(list))
           /\ \A s \in Listed(list) : after.map.length[s] = 0
           /\ DOMAIN after.swapped = DOMAIN bm.swapped \cup Listed(list)
           /\ \A s \in DOMAIN bm.swapped \ Listed(list) : after.swapped[s] = bm.swapped[s]
           /\ \A s \in Listed(list) :
                Records(after.swapped[s], bm.map.length[s], bm.map.evicted[s])
<1> DEFINE m == bm.map
           S == Listed(list)
           Copies(g) == Injection(Entries(m, g, "kept", S), bm.cpu[g])
           new(f, s) == IF s \in S THEN SwapRecord(bm, f, s) ELSE bm.swapped[s]
<1>1. S = {list[i] : i \in DOMAIN list} /\ S \subseteq Seqs
  BY DEF Listed, Firsts
<1>2. PICK f \in [Groups -> UNION {Copies(g) : g \in Groups}] :
        /\ \A g \in Groups : f[g] \in Copies(g)
        /\ after = [map     |-> AllFreed(m, list),
                    cpu     |-> [g \in Groups |-> bm.cpu[g] \ Range(f[g])],
                    swapped |-> [s \in DOMAIN bm.swapped \cup S |-> new(f, s)]]
  <2> HIDE DEF S
  <2> QED BY <1>1 DEF SwapOut
<1> HIDE DEF S, new, Copies
<1>3. PICK x : x = AllFreed(m, list)
  OBVIOUS
<1>4. /\ after.map = x /\ after.cpu = [g \in Groups |-> bm.cpu[g] \ Range(f[g])]
      /\ after.swapped = [s \in DOMAIN bm.swapped \cup S |-> new(f, s)]
      /\ IsManager(after)
  BY <1>2, <1>3 DEF IsManager
<1>5. MapOK(x) /\ Moved(m, x, S) /\ \A s \in S : x.length[s] = 0
  BY <1>3, AllFreedOK DEF Listed, S
<1>6. \A s \in DOMAIN bm.swapped \ S : after.swapped[s] = bm.swapped[s]
  BY <1>4 DEF new
<1>7. ASSUME NEW s \in S
      PROVE  /\ Records(after.swapped[s], m.length[s], m.evicted[s])
             /\ OnCpu(after.swapped[s])
  <2> DEFINE Own(g) == Entries(m, g, "kept", {s})
             table(g) == [l \in {k[3] : k \in Own(g)} |-> f[g][<<"kept", s, l>>]]
  <2>1. after.swapped[s] = SwapRecord(bm, f, s)
    BY <1>4, <1>7 DEF new
  <2>2. SwapRecord(bm, f, s)
          = [length |-> m.length[s], evicted |-> m.evicted[s], tables |-> [g \in Groups |-> table(g)]]
    BY DEF SwapRecord
  <2>3. ASSUME NEW g \in Groups
        PROVE  /\ DOMAIN table(g) = m.evicted[s] .. NumLogicalBlocks(m.length[s]) - 1
               /\ Range(table(g)) \subseteq CpuBlocks
    <3>1. Own(g) = KeysOf("kept", {s}, m.evicted[s] .. NumLogicalBlocks(m.length[s]) - 1)
      BY <1>1, <1>7 DEF MapOK, MapWindow
    <3>2. \A k \in Own(g) : k = <<"kept", s, k[3]>> /\ k \in Entries(m, g, "kept", S)
      BY <1>7, <3>1 DEF KeysOf, Entries
    <3>3. f[g] \in [Entries(m, g, "kept", S) -> bm.cpu[g]]
      BY <1>2 DEF Copies, Injection, IsInjective
    <3>4. \A k \in Own(g) : f[g][<<"kept", s, k[3]>>] \in bm.cpu[g]
      BY <3>2, <3>3
    <3>5. bm.cpu[g] \subseteq CpuBlocks
      BY DEF CpuTyped
    <3>6. {k[3] : k \in Own(g)} = m.evicted[s] .. NumLogicalBlocks(m.length[s]) - 1
      <4> DEFINE lo == m.evicted[s]
                 hi == NumLogicalBlocks(m.length[s]) - 1
      <4> HIDE DEF lo, hi, Own
      <4>1. \A l \in lo .. hi : <<"kept", s, l>> \in Own(g) /\ <<"kept", s, l>>[3] = l
        BY <3>1 DEF KeysOf, lo, hi
      <4>2. \A k \in Own(g) : k[3] \in lo .. hi
        BY <3>1 DEF KeysOf, lo, hi
      <4> QED BY <4>1, <4>2 DEF lo, hi
    <3> HIDE DEF Own
    <3> QED BY <3>4, <3>5, <3>6 DEF Range
  <2> HIDE DEF table
  <2> QED BY <2>1, <2>2, <2>3 DEF Records, OnCpu
<1>8. CpuTyped(after)
  <2>1. \A s \in DOMAIN after.swapped : OnCpu(after.swapped[s])
    BY <1>4, <1>6, <1>7 DEF CpuTyped
  <2>2. after.cpu \in [Groups -> SUBSET CpuBlocks]
    BY <1>4 DEF CpuTyped
  <2> QED BY <1>1, <1>4, <2>1, <2>2 DEF CpuTyped
<1> QED BY <1>4, <1>5, <1>6, <1>7, <1>8 DEF S

\* Every sequence of the list has a record that swap_in can allocate from.
Recorded(bm, list) ==
    \A s \in Listed(list) :
      /\ s \in DOMAIN bm.swapped
      /\ bm.swapped[s].length \in 1 .. MaxTokens /\ bm.swapped[s].evicted \in Nat
      /\ bm.swapped[s].evicted < NumLogicalBlocks(bm.swapped[s].length)

\* What swap_in leaves: the sequences as they were recorded.
Restored(bm, after, list) ==
    /\ Moved(bm.map, after.map, Listed(list))
    /\ \A s \in Listed(list) : /\ after.map.length[s] = bm.swapped[s].length
                               /\ after.map.evicted[s] = bm.swapped[s].evicted
    /\ \A s \in DOMAIN bm.swapped \ Listed(list) :
         s \in DOMAIN after.swapped /\ after.swapped[s] = bm.swapped[s]

\* swap_in: the map gets back what was recorded, and the records are gone.
LEMMA SwapInCall ==
    ASSUME NEW bm, IsManager(bm), MapOK(bm.map), CpuTyped(bm), NEW list \in Seq(Seqs),
           Recorded(bm, list), NEW o \in SwapIn(bm, list)
    PROVE  /\ IsManager(o.mgr) /\ MapOK(o.mgr.map) /\ CpuTyped(o.mgr)
           /\ IF o.raised = "none"
              THEN Restored(bm, o.mgr, list)
              ELSE o.mgr.swapped = bm.swapped
<1> DEFINE S == Listed(list)
           len == [s \in S |-> bm.swapped[s].length]
           evicted == [s \in S |-> bm.swapped[s].evicted]
           cpu == [g \in Groups |-> bm.cpu[g] \cup Returned(bm, S, g)]
           left == Restrict(bm.swapped, DOMAIN bm.swapped \ S)
<1>1. S = {list[i] : i \in DOMAIN list} /\ S \subseteq Seqs
  BY DEF Listed, Firsts
<1>2. PICK q \in AllOrNothing(bm.map, list, len, evicted) :
        o = IF q.raised = "none"
            THEN [mgr |-> [map |-> q.map, cpu |-> cpu, swapped |-> left], raised |-> "none"]
            ELSE [mgr |-> [bm EXCEPT !.map = q.map], raised |-> q.raised]
  <2> HIDE DEF S
  <2> QED BY <1>1 DEF SwapIn
<1>3. Allocatable(list, len, evicted)
  BY DEF Allocatable, Recorded
<1>4. \A s \in S : len[s] = bm.swapped[s].length /\ evicted[s] = bm.swapped[s].evicted
  OBVIOUS
<1> HIDE DEF len, evicted
<1>5. PICK x : x = q.map
  OBVIOUS
<1>6. /\ MapOK(x)
      /\ q.raised = "none" => /\ Moved(bm.map, x, S)
                              /\ HaveLengths(x, list, len)
                              /\ HaveEvicted(x, list, evicted)
  BY <1>3, <1>5, AllOrNothingOK
<1>7. CASE q.raised = "none"
  <2>1. /\ o.raised = "none" /\ o.mgr.map = x /\ o.mgr.cpu = cpu /\ o.mgr.swapped = left
        /\ IsManager(o.mgr)
    <3> HIDE DEF cpu, left
    <3> QED BY <1>2, <1>5, <1>7 DEF IsManager
  <2>2. DOMAIN left = DOMAIN bm.swapped \ S /\ \A s \in DOMAIN left : left[s] = bm.swapped[s]
    BY DEF Restrict
  <2>3. cpu \in [Groups -> SUBSET CpuBlocks]
    <3> SUFFICES ASSUME NEW g \in Groups
                 PROVE  bm.cpu[g] \cup Returned(bm, S, g) \in SUBSET CpuBlocks
      OBVIOUS
    <3>1. bm.cpu[g] \subseteq CpuBlocks
      BY DEF CpuTyped
    <3>2. \A s \in S : Range(bm.swapped[s].tables[g]) \subseteq CpuBlocks
      BY DEF Recorded, CpuTyped, OnCpu
    <3>3. Returned(bm, S, g) \subseteq CpuBlocks
      <4> HIDE DEF S
      <4> QED BY <3>2 DEF Returned
    <3> QED BY <3>1, <3>3
  <2> HIDE DEF cpu, left
  <2>4. CpuTyped(o.mgr)
    BY <2>1, <2>2, <2>3 DEF CpuTyped
  <2>5. Restored(bm, o.mgr, list)
    BY <1>4, <1>6, <1>7, <2>1, <2>2 DEF Restored, HaveLengths, HaveEvicted
  <2> QED BY <1>6, <2>1, <2>4, <2>5
<1>8. CASE q.raised # "none"
  <2>1. o.raised = q.raised /\ o.mgr = Remapped(bm, x)
    BY <1>2, <1>5, <1>8, RemappedIs
  <2>2. /\ IsManager(o.mgr) /\ o.mgr.map = x /\ o.mgr.swapped = bm.swapped
        /\ CpuTyped(o.mgr)
    BY <2>1, RemappedIs, RemappedCpu
  <2> QED BY <1>6, <1>8, <2>1, <2>2
<1> QED BY <1>7, <1>8

-----------------------------------------------------------------------------
(* The CPU blocks.                                                         *)

\* Every CPU block is free or holds one block of one recorded sequence.
Holding(bm, s, g) == Range(bm.swapped[s].tables[g])

CpuPart(bm, records, g) ==
    /\ bm.cpu[g] \cup UNION {Holding(bm, s, g) : s \in records} = CpuBlocks
    /\ \A s \in records :
         Holding(bm, s, g) \cap bm.cpu[g] = {} /\ IsInjective(bm.swapped[s].tables[g])
    /\ \A s, t \in records : s # t => Holding(bm, s, g) \cap Holding(bm, t, g) = {}

CpuKept(bm) == \A g \in Groups : CpuPart(bm, DOMAIN bm.swapped, g)

\* swap_out takes for each block of the sequences a free block of its own.
LEMMA SwapOutCpu ==
    ASSUME NEW bm, MapOK(bm.map), CpuKept(bm), bm.cpu \in [Groups -> SUBSET CpuBlocks],
           NEW list, Listed(list) \cap DOMAIN bm.swapped = {},
           DOMAIN list = 1 .. Len(list), NEW after \in SwapOut(bm, list)
    PROVE  CpuKept(after)
<1> DEFINE m == bm.map
           S == Listed(list)
           Copies(g) == Injection(Entries(m, g, "kept", S), bm.cpu[g])
           Own(s, g) == Entries(m, g, "kept", {s})
           table(f, s, g) == [l \in {k[3] : k \in Own(s, g)} |-> f[g][<<"kept", s, l>>]]
           records == DOMAIN bm.swapped \cup S
           Holds(s, g) == Holding(after, s, g)
<1>1. S = {list[i] : i \in DOMAIN list}
  BY DEF Listed, Firsts
<1>2. PICK f : /\ \A g \in Groups : f[g] \in Copies(g)
               /\ after = [map     |-> AllFreed(m, list),
                           cpu     |-> [g \in Groups |-> bm.cpu[g] \ Range(f[g])],
                           swapped |-> [s \in records |->
                                          IF s \in S THEN SwapRecord(bm, f, s)
                                                     ELSE bm.swapped[s]]]
  <2> HIDE DEF S
  <2> QED BY <1>1 DEF SwapOut
<1> SUFFICES ASSUME NEW g \in Groups
             PROVE  CpuPart(after, records, g)
  <2>1. DOMAIN after.swapped = records
    BY <1>2
  <2> HIDE DEF records
  <2> QED BY <2>1 DEF CpuKept
<1>3. /\ after.cpu[g] = bm.cpu[g] \ Range(f[g])
      /\ \A s \in S : after.swapped[s].tables[g] = table(f, s, g)
      /\ \A s \in DOMAIN bm.swapped : after.swapped[s] = bm.swapped[s]
  <2>1. \A s \in S : after.swapped[s] = SwapRecord(bm, f, s)
    BY <1>2
  <2>2. \A s : SwapRecord(bm, f, s).tables[g] = table(f, s, g)
    BY DEF SwapRecord
  <2>3. \A s \in DOMAIN bm.swapped : s \notin S
    OBVIOUS
  <2> HIDE DEF table, S
  <2> QED BY <1>2, <2>1, <2>2, <2>3
<1>4. /\ f[g] \in [Entries(m, g, "kept", S) -> bm.cpu[g]]
      /\ \A j, k \in Entries(m, g, "kept", S) : f[g][j] = f[g][k] => j = k
  BY <1>2 DEF Injection, IsInjective
<1>5. \A s \in S : \A k \in Own(s, g) : k = <<"kept", s, k[3]>> /\ k \in Entries(m, g, "kept", S)
  <2>1. DOMAIN m.cells[g].table \subseteq Keys
    BY DEF MapOK, MapType, CellType
  <2>2. \A s \in S : \A k \in Own(s, g) : k = <<k[1], k[2], k[3]>> /\ k[1] = "kept" /\ k[2] = s
    BY <2>1, KeyForm DEF Entries
  <2> HIDE DEF S
  <2> QED BY <2>2 DEF Entries
<1>6. \A k \in Entries(m, g, "kept", S) : k[2] \in S /\ k \in Own(k[2], g)
  BY DEF Entries
<1>7. ASSUME NEW s \in S
      PROVE  /\ Holds(s, g) = {f[g][k] : k \in Own(s, g)}
             /\ IsInjective(after.swapped[s].tables[g])
  <2>1. /\ DOMAIN table(f, s, g) = {k[3] : k \in Own(s, g)}
        /\ \A k \in Own(s, g) : table(f, s, g)[k[3]] = f[g][k]
    <3> HIDE DEF Own
    <3> QED BY <1>5
  <2>2. after.swapped[s].tables[g] = table(f, s, g)
    BY <1>3
  <2> HIDE DEF table, S
  <2>3. Holds(s, g) = {f[g][k] : k \in Own(s, g)}
    <3> HIDE DEF Own
    <3> QED BY <2>1, <2>2 DEF Range, Holding
  <2>4. ASSUME NEW a \in DOMAIN table(f, s, g), NEW b \in DOMAIN table(f, s, g),
               table(f, s, g)[a] = table(f, s, g)[b]
        PROVE  a = b
    <3> HIDE DEF Own
    <3>1. PICK j \in Own(s, g), k \in Own(s, g) : a = j[3] /\ b = k[3]
      BY <2>1
    <3>2. f[g][j] = f[g][k]
      BY <2>1, <2>4, <3>1
    <3> QED BY <1>4, <1>5, <3>1, <3>2
  <2> QED BY <2>2, <2>3, <2>4 DEF IsInjective
<1> DEFINE Before(s) == Holding(bm, s, g)
<1>8. \A s \in DOMAIN bm.swapped : Holds(s, g) = Before(s)
  BY <1>3 DEF Holding
<1>9. /\ bm.cpu[g] \cup UNION {Before(s) : s \in DOMAIN bm.swapped} = CpuBlocks
      /\ \A s \in DOMAIN bm.swapped :
           Before(s) \cap bm.cpu[g] = {} /\ IsInjective(bm.swapped[s].tables[g])
      /\ \A s, t \in DOMAIN bm.swapped : s # t => Before(s) \cap Before(t) = {}
  BY DEF CpuKept, CpuPart
<1>10. /\ Range(f[g]) = {f[g][k] : k \in Entries(m, g, "kept", S)}
       /\ Range(f[g]) \subseteq bm.cpu[g]
  BY <1>4 DEF Range
<1>11. \A s \in S : Holds(s, g) \subseteq Range(f[g])
  <2> HIDE DEF Holds, Own, S
  <2> QED BY <1>5, <1>7, <1>10
<1>12. \A b \in Range(f[g]) : \E s \in S : b \in Holds(s, g)
  <2> HIDE DEF Holds, Own, S
  <2> QED BY <1>6, <1>7, <1>10
<1>13. \A s, t \in S : s # t => Holds(s, g) \cap Holds(t, g) = {}
  <2> HIDE DEF Holds, Own, S
  <2> QED BY <1>4, <1>5, <1>7
<1> HIDE DEF S, Holds, Own, table
<1>14. after.cpu[g] \cup UNION {Holds(s, g) : s \in records} = CpuBlocks
  <2>1. \A s \in DOMAIN bm.swapped : Holds(s, g) = Before(s)
    BY <1>8
  <2> HIDE DEF Before
  <2>2. \A b \in CpuBlocks : b \in after.cpu[g] \/ \E s \in records : b \in Holds(s, g)
    <3> SUFFICES ASSUME NEW b \in CpuBlocks, b \notin after.cpu[g]
                 PROVE  \E s \in records : b \in Holds(s, g)
      OBVIOUS
    <3>1. CASE b \in Range(f[g])
      BY <1>12, <3>1
    <3>2. CASE b \notin Range(f[g])
      <4>1. b \notin bm.cpu[g]
        BY <1>3, <3>2
      <4>2. PICK s \in DOMAIN bm.swapped : b \in Before(s)
        BY <1>9, <4>1
      <4> QED BY <2>1, <4>2
    <3> QED BY <3>1, <3>2
  <2>3. after.cpu[g] \subseteq CpuBlocks /\ \A s \in records : Holds(s, g) \subseteq CpuBlocks
    BY <1>3, <1>9, <1>10, <1>11, <2>1
  <2> QED BY <2>2, <2>3
<1>15. \A s \in records : /\ Holds(s, g) \cap after.cpu[g] = {}
                          /\ IsInjective(after.swapped[s].tables[g])
  <2> SUFFICES ASSUME NEW s \in records
               PROVE  /\ Holds(s, g) \cap after.cpu[g] = {}
                      /\ IsInjective(after.swapped[s].tables[g])
    OBVIOUS
  <2>1. CASE s \in S
    BY <1>3, <1>7, <1>11, <2>1
  <2>2. CASE s \in DOMAIN bm.swapped
    BY <1>3, <1>8, <1>9, <2>2
  <2> QED BY <2>1, <2>2
<1>16. ASSUME NEW s \in records, NEW t \in records, s # t
       PROVE  Holds(s, g) \cap Holds(t, g) = {}
  <2>1. CASE s \in S /\ t \in S
    BY <1>13, <1>16, <2>1
  <2>2. CASE s \notin S /\ t \notin S
    BY <1>8, <1>9, <1>16, <2>2
  <2>3. CASE s \in S /\ t \notin S
    BY <1>8, <1>9, <1>10, <1>11, <2>3
  <2>4. CASE s \notin S /\ t \in S
    BY <1>8, <1>9, <1>10, <1>11, <2>4
  <2> QED BY <2>1, <2>2, <2>3, <2>4
<1> HIDE DEF records
<1> QED BY <1>14, <1>15, <1>16 DEF CpuPart, Holds

\* swap_in gives back the blocks of the records it takes.
LEMMA SwapInCpu ==
    ASSUME NEW bm, IsManager(bm), CpuKept(bm), NEW list, DOMAIN list = 1 .. Len(list),
           Listed(list) \subseteq DOMAIN bm.swapped, NEW o \in SwapIn(bm, list)
    PROVE  /\ CpuKept(o.mgr) /\ IsManager(o.mgr)
           /\ DOMAIN o.mgr.swapped = IF o.raised = "none"
                                     THEN DOMAIN bm.swapped \ Listed(list)
                                     ELSE DOMAIN bm.swapped
<1> DEFINE S == Listed(list)
           cpu == [g \in Groups |-> bm.cpu[g] \cup Returned(bm, S, g)]
           records == DOMAIN bm.swapped \ S
           left == Restrict(bm.swapped, records)
<1>1. S = {list[i] : i \in DOMAIN list}
  BY DEF Listed, Firsts
<1>2. PICK x, why : o = IF why = "none"
                        THEN [mgr |-> [map |-> x, cpu |-> cpu, swapped |-> left], raised |-> "none"]
                        ELSE [mgr |-> [bm EXCEPT !.map = x], raised |-> why]
  <2> HIDE DEF S
  <2> QED BY <1>1 DEF SwapIn
<1>3. CASE why # "none"
  <2>1. /\ o.raised = why /\ o.mgr = Remapped(bm, x)
    BY <1>2, <1>3, RemappedIs
  <2>2. o.mgr.cpu = bm.cpu /\ o.mgr.swapped = bm.swapped /\ IsManager(o.mgr)
    BY <2>1, RemappedIs
  <2>3. CpuKept(o.mgr)
    BY <2>2 DEF CpuKept, CpuPart, Holding
  <2> QED BY <1>3, <2>1, <2>2, <2>3
<1>4. CASE why = "none"
  <2> HIDE DEF S
  <2>1. /\ o.raised = "none" /\ o.mgr.cpu = cpu /\ o.mgr.swapped = left
        /\ DOMAIN left = records /\ \A s \in records : left[s] = bm.swapped[s]
        /\ IsManager(o.mgr)
    <3>1. DOMAIN left = records /\ \A s \in records : left[s] = bm.swapped[s]
      BY DEF Restrict
    <3> HIDE DEF cpu, left, records
    <3> QED BY <1>2, <1>4, <3>1 DEF IsManager
  <2>2. ASSUME NEW g \in Groups
        PROVE  CpuPart(o.mgr, records, g)
    <3> DEFINE Holds(s) == Holding(bm, s, g)
    <3>1. \A s \in records : o.mgr.swapped[s].tables[g] = bm.swapped[s].tables[g]
      BY <2>1
    <3>2. o.mgr.cpu[g] = bm.cpu[g] \cup UNION {Holds(s) : s \in S}
      BY <2>1 DEF Returned, Holding
    <3>3. /\ bm.cpu[g] \cup UNION {Holds(s) : s \in DOMAIN bm.swapped} = CpuBlocks
          /\ \A s \in DOMAIN bm.swapped :
               Holds(s) \cap bm.cpu[g] = {} /\ IsInjective(bm.swapped[s].tables[g])
          /\ \A s, t \in DOMAIN bm.swapped : s # t => Holds(s) \cap Holds(t) = {}
      BY DEF CpuKept, CpuPart
    <3>4. S \subseteq DOMAIN bm.swapped
      BY DEF S
    <3> HIDE DEF left, cpu
    <3>5. \A s \in records : s \in DOMAIN bm.swapped /\ s \notin S
      OBVIOUS
    <3>6. \A s \in records : Holding(o.mgr, s, g) = Holds(s)
      BY <3>1 DEF Holding
    <3>7. DOMAIN bm.swapped = records \cup S
      BY <3>4
    <3> HIDE DEF Holds, records
    <3>8. o.mgr.cpu[g] \cup UNION {Holding(o.mgr, s, g) : s \in records} = CpuBlocks
      <4>1. {Holding(o.mgr, s, g) : s \in records} = {Holds(s) : s \in records}
        BY <3>6
      <4> QED BY <3>2, <3>3, <3>7, <4>1
    <3>9. \A s \in records : /\ Holding(o.mgr, s, g) \cap o.mgr.cpu[g] = {}
                             /\ IsInjective(o.mgr.swapped[s].tables[g])
      <4>1. \A s \in records : \A t \in S : Holds(s) \cap Holds(t) = {}
        BY <3>3, <3>4, <3>5
      <4> QED BY <3>1, <3>2, <3>3, <3>5, <3>6, <4>1
    <3>10. \A s, t \in records : s # t => Holding(o.mgr, s, g) \cap Holding(o.mgr, t, g) = {}
      BY <3>3, <3>5, <3>6
    <3> QED BY <3>8, <3>9, <3>10 DEF CpuPart
  <2>3. DOMAIN o.mgr.swapped = records
    BY <2>1
  <2> HIDE DEF records, left, cpu
  <2> QED BY <2>1, <2>2, <2>3 DEF CpuKept, records, S
<1> QED BY <1>3, <1>4

\* The other calls change the map only.
SameCpu(bm, after) == IsManager(after) /\ after.cpu = bm.cpu /\ after.swapped = bm.swapped

\* Allocating, appending, evicting, planning and forking leave the CPU side alone.
LEMMA OtherCallsCpu ==
    ASSUME NEW bm, IsManager(bm), NEW list, NEW len, NEW layers, NEW parent, NEW S, NEW o,
           \/ o \in Allocate(bm, list, len)
           \/ o \in AppendSlots(bm, list, len)
           \/ o \in EvictToCachedLayerRatio(bm, list, len, layers)
           \/ o \in BuildPartialRecomputePlans(bm, S)
           \/ o \in Fork(bm, list, parent)
    PROVE  SameCpu(bm, o.mgr)
<1>1. PICK x, why : o = [mgr |-> [bm EXCEPT !.map = x], raised |-> why]
  BY DEF Allocate, AppendSlots, EvictToCachedLayerRatio, BuildPartialRecomputePlans, Fork
<1>2. o.mgr = Remapped(bm, x)
  BY <1>1, RemappedIs
<1> QED BY <1>2, RemappedIs DEF SameCpu

\* So does freeing.
LEMMA FreeCpu ==
    ASSUME NEW bm, IsManager(bm), NEW list
    PROVE  SameCpu(bm, Free(bm, list))
  BY RemappedIs DEF SameCpu, Free

\* A manager with the same CPU side.
LEMMA SameCpuKept ==
    ASSUME NEW bm, CpuKept(bm), NEW after, SameCpu(bm, after)
    PROVE  CpuKept(after)
  BY DEF CpuKept, CpuPart, Holding, SameCpu

-----------------------------------------------------------------------------
(* Sums: what MapThenSumSet adds up is the size of a set of that many dots. *)

Dots(S, f) == {p \in S \X Nat : p[2] \in 1 .. f[p[1]]}

SumBody(h, S, f) ==
    [s \in SUBSET S |-> IF s = {} THEN 0
                        ELSE f[CHOOSE x \in s : TRUE] + h[s \ {CHOOSE x \in s : TRUE}]]

\* The dots of one element, and of one more.
LEMMA DotsOne ==
    ASSUME NEW T, NEW f \in [T -> Nat], NEW s \in SUBSET T, NEW x \in T, x \notin s,
           IsFiniteSet(Dots(s, f))
    PROVE  /\ IsFiniteSet(Dots(s \cup {x}, f))
           /\ Cardinality(Dots(s \cup {x}, f)) = f[x] + Cardinality(Dots(s, f))
<1>1. PICK n \in Nat : n = f[x]
  OBVIOUS
<1> DEFINE X == {x} \X (1 .. n)
<1>2. IsFiniteSet(X) /\ Cardinality(X) = n
  <2>1. IsFiniteSet({x}) /\ Cardinality({x}) = 1
    BY FS_Singleton
  <2>2. IsFiniteSet(1 .. n) /\ Cardinality(1 .. n) = n
    BY FS_Interval
  <2>3. IsFiniteSet(X) /\ Cardinality(X) = 1 * n
    BY <2>1, <2>2, FS_Product
  <2> QED BY <2>3
<1>3. Dots(s \cup {x}, f) = X \cup Dots(s, f)
  <2>1. ASSUME NEW p \in Dots(s \cup {x}, f)
        PROVE  p \in X \cup Dots(s, f)
    BY <1>1, <2>1 DEF Dots
  <2>2. ASSUME NEW p \in X \cup Dots(s, f)
        PROVE  p \in Dots(s \cup {x}, f)
    BY <1>1, <2>2 DEF Dots
  <2> QED BY <2>1, <2>2
<1>4. X \cap Dots(s, f) = {}
  BY DEF Dots
<1> HIDE DEF X
<1>5. IsFiniteSet(X \cup Dots(s, f))
  BY <1>2, FS_Union, Zenon
<1>6. Cardinality(X \cup Dots(s, f)) = Cardinality(X) + Cardinality(Dots(s, f))
  BY <1>2, <1>4, DisjointCount
<1> QED BY <1>1, <1>2, <1>3, <1>5, <1>6

\* A function that MapThenSumSet may pick has the number of dots for its sum.
LEMMA SumIs ==
    ASSUME NEW T, NEW f \in [T -> Nat], NEW S \in SUBSET T, IsFiniteSet(S),
           NEW h, h = SumBody(h, S, f)
    PROVE  /\ IsFiniteSet(Dots(S, f)) /\ Cardinality(Dots(S, f)) \in Nat
           /\ h[S] = Cardinality(Dots(S, f))
<1> DEFINE pick == [s \in SUBSET S |-> CHOOSE x \in s : TRUE]
           Q == {p \in (SUBSET S) \X Nat :
                   IsFiniteSet(Dots(p[1], f)) /\ p[2] = Cardinality(Dots(p[1], f))}
<1>0. Picks(pick, S)
  BY DEF Picks
<1>1. Picks(pick, S) /\ \A s \in SUBSET S : pick[s] = CHOOSE x \in s : TRUE
  BY <1>0
<1>2. \A s \in SUBSET S : h[s] = IF s = {} THEN 0 ELSE f[pick[s]] + h[s \ {pick[s]}]
  <2> DEFINE V(s) == f[CHOOSE x \in s : TRUE] + h[s \ {CHOOSE x \in s : TRUE}]
  <2>1. h = [s \in SUBSET S |-> IF s = {} THEN 0 ELSE V(s)]
    BY DEF SumBody
  <2>2. \A s \in SUBSET S : V(s) = f[pick[s]] + h[s \ {pick[s]}]
    BY <1>1
  <2> HIDE DEF V, pick
  <2> QED BY <2>1, <2>2
<1> HIDE DEF pick
<1>3. <<{}, h[{}]>> \in Q
  <2>1. h[{}] = 0 /\ Dots({}, f) = {}
    BY <1>2 DEF Dots
  <2> QED BY <2>1, FS_EmptySet
<1>4. ASSUME NEW s \in SUBSET S, s # {}, <<s \ {pick[s]}, h[s \ {pick[s]}]>> \in Q
      PROVE  <<s, h[s]>> \in Q
  <2>1. PICK x \in S : x = pick[s] /\ x \in s
    BY <1>1, <1>4 DEF Picks
  <2>2. PICK t \in SUBSET T : t = s \ {x}
    OBVIOUS
  <2>3. s = t \cup {x} /\ x \notin t /\ x \in T
    BY <2>1, <2>2
  <2>4. IsFiniteSet(Dots(t, f)) /\ h[t] = Cardinality(Dots(t, f)) /\ h[t] \in Nat
    BY <1>4, <2>1, <2>2
  <2>5. IsFiniteSet(Dots(s, f)) /\ Cardinality(Dots(s, f)) = f[x] + Cardinality(Dots(t, f))
    BY <2>3, <2>4, DotsOne
  <2>6. h[s] = f[x] + h[t]
    BY <1>2, <1>4, <2>1, <2>2
  <2>7. h[s] \in Nat
    BY <2>3, <2>4, <2>6
  <2> QED BY <2>4, <2>5, <2>6, <2>7
<1> HIDE DEF Q
<1>5. <<S, h[S]>> \in Q
  <2>1. \A s \in SUBSET S : s # {} /\ <<s \ {pick[s]}, h[s \ {pick[s]}]>> \in Q
                               => <<s, h[s]>> \in Q
    BY <1>4
  <2>2. \A s \in SUBSET S : <<s, h[s]>> \in Q
    BY <1>0, <1>3, <2>1, FoldKeeps
  <2> QED BY <2>2
<1>6. IsFiniteSet(Dots(S, f)) /\ h[S] = Cardinality(Dots(S, f))
  BY <1>5 DEF Q
<1> QED BY <1>6, FS_CardinalityType

\* There is one to pick.
LEMMA SumDefined ==
    ASSUME NEW T, NEW f \in [T -> Nat], NEW S \in SUBSET T, IsFiniteSet(S)
    PROVE  \E h : h = SumBody(h, S, f)
<1> DEFINE pick == [s \in SUBSET S |-> CHOOSE x \in s : TRUE]
           F == [p \in (SUBSET S) \X Nat |-> f[CHOOSE x \in p[1] : TRUE] + p[2]]
           R == {p \in (SUBSET S) \X Nat : TRUE}
<1>0. Picks(pick, S)
  BY DEF Picks
<1>1. Picks(pick, S) /\ \A s \in SUBSET S : pick[s] = CHOOSE x \in s : TRUE
  BY <1>0
<1>2. \A s \in SUBSET S : \A n \in Nat : F[<<s, n>>] = f[pick[s]] + n
  <2> SUFFICES ASSUME NEW s \in SUBSET S, NEW n \in Nat
               PROVE  F[<<s, n>>] = f[pick[s]] + n
    OBVIOUS
  <2>1. <<s, n>> \in (SUBSET S) \X Nat
    OBVIOUS
  <2> HIDE DEF pick
  <2> QED BY <1>1, <2>1
<1> HIDE DEF pick, F
<1>3. PICK h : h = FoldBody(h, S, 0, pick, F)
  BY <1>1, FoldDefined
<1>4. h[{}] = 0 /\ \A s \in SUBSET S : s # {} => h[s] = F[<<s, h[s \ {pick[s]}]>>]
  <2>1. \A s \in SUBSET S :
          FoldBody(h, S, 0, pick, F)[s] = IF s = {} THEN 0 ELSE F[<<s, h[s \ {pick[s]}]>>]
    BY DEF FoldBody
  <2> QED BY <1>3, <2>1
<1>5. \A s \in SUBSET S : <<s, h[s]>> \in R
  <2>1. ASSUME NEW s \in SUBSET S, s # {}, <<s \ {pick[s]}, h[s \ {pick[s]}]>> \in R
        PROVE  <<s, h[s]>> \in R
    <3>1. h[s] = f[pick[s]] + h[s \ {pick[s]}]
      BY <1>2, <1>4, <2>1
    <3>2. f[pick[s]] \in Nat
      BY <1>1, <2>1 DEF Picks
    <3>3. h[s \ {pick[s]}] \in Nat
      BY <2>1
    <3>4. h[s] \in Nat
      BY <3>1, <3>2, <3>3
    <3> QED BY <3>4
  <2>2. <<{}, h[{}]>> \in R
    BY <1>4
  <2> HIDE DEF R
  <2>3. \A s \in SUBSET S : s # {} /\ <<s \ {pick[s]}, h[s \ {pick[s]}]>> \in R
                               => <<s, h[s]>> \in R
    BY <2>1
  <2> QED BY <1>0, <2>2, <2>3, FoldKeeps
<1>6. FoldBody(h, S, 0, pick, F) = SumBody(h, S, f)
  <2> DEFINE G(s) == F[<<s, h[s \ {pick[s]}]>>]
             H(s) == f[CHOOSE x \in s : TRUE] + h[s \ {CHOOSE x \in s : TRUE}]
  <2>1. \A s \in SUBSET S : s # {} => G(s) = H(s)
    <3> SUFFICES ASSUME NEW s \in SUBSET S, s # {}
                 PROVE  G(s) = H(s)
      OBVIOUS
    <3>1. s \ {pick[s]} \in SUBSET S
      OBVIOUS
    <3>2. h[s \ {pick[s]}] \in Nat
      BY <1>5, <3>1
    <3>3. G(s) = f[pick[s]] + h[s \ {pick[s]}]
      BY <1>2, <3>2
    <3>4. H(s) = f[pick[s]] + h[s \ {pick[s]}]
      BY <1>1
    <3> QED BY <3>3, <3>4
  <2> HIDE DEF G, H
  <2>2. [s \in SUBSET S |-> IF s = {} THEN 0 ELSE G(s)]
          = [s \in SUBSET S |-> IF s = {} THEN 0 ELSE H(s)]
    BY <2>1
  <2> QED BY <2>2 DEF FoldBody, SumBody, G, H
<1> QED BY <1>3, <1>6

-----------------------------------------------------------------------------
(* A loop of calls that there are blocks for does not raise.               *)

\* There are finitely many dots.
LEMMA DotsFinite ==
    ASSUME NEW T, NEW f \in [T -> Nat], NEW S \in SUBSET T, IsFiniteSet(S)
    PROVE  IsFiniteSet(Dots(S, f)) /\ Cardinality(Dots(S, f)) \in Nat
<1>1. PICK h : h = SumBody(h, S, f)
  BY SumDefined
<1> QED BY <1>1, SumIs

\* allocate for every sequence of a list: f has the blocks that each takes, in every
\* group.
LEMMA AllocateFits ==
    ASSUME NEW m, MapOK(m), NEW list \in Seq(Seqs), Distinct(list), NEW len, NEW evicted,
           Allocatable(list, len, evicted),
           \A s \in Listed(list) : s \notin Present(m),
           NEW f \in [1 .. Len(list) -> Nat],
           \A i \in 1 .. Len(list) :
             f[i] = NumLogicalBlocks(len[list[i]]) - evicted[list[i]],
           \A g \in Groups : Cardinality(Dots(1 .. Len(list), f)) <= NumFree(m, g),
           NEW o \in InTurn([method |-> "allocate", length |-> len, evicted |-> evicted],
                            m, list)
    PROVE  o.raised = "none"
<1> DEFINE call == [method |-> "allocate", length |-> len, evicted |-> evicted]
           n == Len(list)
           Rest(i) == i + 1 .. n
           E == {p \in Nat \X Maps :
                   /\ MapOK(p[2])
                   /\ \A t \in Seqs \ Firsts(list, p[1]) : p[2].length[t] = m.length[t]
                   /\ \A g \in Groups : Cardinality(Dots(Rest(p[1]), f)) <= FreeCount(p[2], g)}
<1>1. n \in Nat
  OBVIOUS
<1>2. \A x, s : OutcomesOf(call, x, s) = AllocateOutcomes(x, s, len[s], evicted[s])
  BY DEF OutcomesOf
<1> HIDE DEF call
<1>3. <<0, m>> \in E
  <2>1. m \in Maps /\ Rest(0) = 1 .. n
    BY MapsAre DEF MapOK
  <2> QED BY <2>1 DEF NumFree, FreeCount
<1>4. ASSUME NEW i \in 1 .. n, NEW x \in Maps, <<i - 1, x>> \in E,
             NEW q \in OutcomesOf(call, x, list[i])
      PROVE  q.raised = "none" /\ <<i, q.map>> \in E
  <2>1. /\ MapOK(x) /\ i \in Nat
        /\ \A t \in Seqs \ Firsts(list, i - 1) : x.length[t] = m.length[t]
        /\ \A g \in Groups : Cardinality(Dots(Rest(i - 1), f)) <= FreeCount(x, g)
    BY <1>4
  <2>2. PICK s \in Seqs : s = list[i] /\ s \in Listed(list)
    BY DEF Listed, Firsts
  <2>3. s \notin Firsts(list, i - 1) /\ s \notin Present(m)
    <3>1. \A j \in 1 .. i - 1 : j \in 1 .. n /\ j # i
      OBVIOUS
    <3> QED BY <2>2, <3>1 DEF Distinct, Firsts
  <2>4. s \notin Present(x)
    BY <2>1, <2>3 DEF Present
  <2>5. PICK e \in Nat, k \in 1 .. MaxTokens :
          e = evicted[s] /\ k = len[s] /\ e < NumLogicalBlocks(k)
    BY <2>2 DEF Allocatable
  <2>6. PICK size \in Nat : size = f[i] /\ size = NumLogicalBlocks(k) - e
    BY <2>2, <2>5
  <2>7. /\ Cardinality(Dots(Rest(i - 1), f)) = size + Cardinality(Dots(Rest(i), f))
        /\ Cardinality(Dots(Rest(i), f)) \in Nat
    <3>1. PICK a \in Int, b \in Int : a = i + 1 /\ b = n
      BY <1>1
    <3>2. PICK T, R : T = 1 .. n /\ R = a .. b
      OBVIOUS
    <3>3. R = Rest(i) /\ Rest(i - 1) = R \cup {i} /\ i \notin R /\ i \in T /\ R \in SUBSET T
      BY <3>1, <3>2
    <3>4. IsFiniteSet(R)
      BY <3>2, FS_Interval
    <3> HIDE DEF Rest, n, E
    <3>5. f \in [T -> Nat]
      BY <3>2 DEF n
    <3>6. IsFiniteSet(Dots(R, f)) /\ Cardinality(Dots(R, f)) \in Nat
      BY <3>3, <3>4, <3>5, DotsFinite
    <3>7. Cardinality(Dots(R \cup {i}, f)) = f[i] + Cardinality(Dots(R, f))
      <4>1. PICK j : j = i /\ j \in T /\ j \notin R /\ R \in SUBSET T
        BY <3>3
      <4>2. Cardinality(Dots(R \cup {j}, f)) = f[j] + Cardinality(Dots(R, f))
        BY <3>5, <3>6, <4>1, DotsOne
      <4> QED BY <4>1, <4>2
    <3> QED BY <2>6, <3>3, <3>6, <3>7
  <2>8. \A g \in Groups : FreeCount(x, g) \in Nat
    BY <2>1, FreeIs, MapCells DEF MapOK, FreeCount
  <2> HIDE DEF Rest, n, E
  <2>9. \A g \in Groups : size <= FreeCount(x, g)
    BY <2>1, <2>7, <2>8
  <2>10. q \in AllocateOutcomes(x, s, k, e)
    BY <1>2, <1>4, <2>2, <2>5
  <2>11. /\ q.raised = "none"
         /\ \A g \in Groups : FreeCount(x, g) = FreeCount(q.map, g) + size
    <3>1. MapOK(x) /\ s \in Seqs /\ s \notin Present(x) /\ q \in AllocateOutcomes(x, s, k, e)
      BY <2>1, <2>4, <2>10
    <3>2. e < NumLogicalBlocks(k) /\ size = NumLogicalBlocks(k) - e
      BY <2>5, <2>6
    <3> QED BY <2>9, <3>1, <3>2, AllocateCount, SMTT(60)
  <2>12. Moved(x, q.map, {s})
    BY <2>1, <2>5, <2>10, <2>11, AllocateOne
  <2>13. MapOK(q.map) /\ q.map \in Maps
    BY <2>12, MapsAre DEF Moved, MapOK
  <2>14. \A t \in Seqs \ Firsts(list, i) : q.map.length[t] = m.length[t]
    <3>1. Firsts(list, i) = Firsts(list, i - 1) \cup {s}
      BY <2>2, FirstsStep DEF n
    <3> QED BY <2>1, <2>12, <3>1 DEF Moved
  <2>15. \A g \in Groups : FreeCount(q.map, g) \in Nat
    BY <2>13, FreeIs, MapCells DEF MapOK, FreeCount
  <2>16. \A g \in Groups : Cardinality(Dots(Rest(i), f)) <= FreeCount(q.map, g)
    BY <2>1, <2>7, <2>8, <2>11, <2>15
  <2> QED BY <2>1, <2>11, <2>13, <2>14, <2>16 DEF E
<1>5. o.raised = "none"
  <2>1. o \in InTurn(call, m, list) /\ E \subseteq Nat \X Maps
    BY DEF call
  <2> HIDE DEF E
  <2> QED BY <1>1, <1>3, <1>4, <2>1, TurnsReturn
<1> QED BY <1>5

\* The same, undone if one raises, which does not happen.
LEMMA AllOrNothingFits ==
    ASSUME NEW m, MapOK(m), NEW list \in Seq(Seqs), Distinct(list), NEW len, NEW evicted,
           Allocatable(list, len, evicted),
           \A s \in Listed(list) : s \notin Present(m),
           NEW f \in [1 .. Len(list) -> Nat],
           \A i \in 1 .. Len(list) :
             f[i] = NumLogicalBlocks(len[list[i]]) - evicted[list[i]],
           \A g \in Groups : Cardinality(Dots(1 .. Len(list), f)) <= NumFree(m, g),
           NEW o \in AllOrNothing(m, list, len, evicted)
    PROVE  o.raised = "none"
<1> DEFINE call == [method |-> "allocate", length |-> len, evicted |-> evicted]
<1>1. \A q \in InTurn(call, m, list) : q.raised = "none"
  BY AllocateFits
<1> HIDE DEF call
<1>2. PICK q \in InTurn(call, m, list) :
        o = IF q.raised = "none"
            THEN q
            ELSE [q EXCEPT !.map = AllFreed(q.map, SubSeq(list, 1, q.done))]
  BY DEF AllOrNothing, call
<1> QED BY <1>1, <1>2

\* An append for others shares no last block.
LEMMA SharedBefore ==
    ASSUME NEW m, MapOK(m), NEW x, MapOK(x), NEW S, Sources(m, x, S),
           NEW t \in Present(m), t \notin S, x.length[t] = m.length[t], NEW g \in Groups,
           TailRefs(x, t, g) > 1
    PROVE  TailRefs(m, t, g) > 1
<1>1. PICK tail : tail = TailKey(m, t) /\ tail = TailKey(x, t)
  BY DEF TailKey
<1>2. t \in Present(x)
  BY DEF Present
<1>3. /\ CellOK(m.cells[g]) /\ CellOK(x.cells[g]) /\ tail[2] = t
      /\ tail \in DOMAIN m.cells[g].table /\ tail \in DOMAIN x.cells[g].table
  <2>1. CellOK(m.cells[g]) /\ CellOK(x.cells[g])
    BY MapCells DEF MapOK
  <2>2. TailKey(m, t)[2] = t /\ TailKey(m, t) \in DOMAIN m.cells[g].table
    BY TailFacts
  <2>3. TailKey(x, t) \in DOMAIN x.cells[g].table
    BY <1>2, TailFacts
  <2> QED BY <1>1, <2>1, <2>2, <2>3
<1>4. PICK k \in DOMAIN x.cells[g].table :
        k # tail /\ x.cells[g].table[k] = x.cells[g].table[tail]
  BY <1>1, <1>3, CountTells DEF TailRefs
<1>5. x.cells[g].table[tail] = m.cells[g].table[tail]
  BY <1>3 DEF Sources
<1>6. m.cells[g].table[tail] \notin m.cells[g].free
  BY <1>3, CountTells
<1>7. \E j \in DOMAIN m.cells[g].table : j # tail /\ m.cells[g].table[j] = m.cells[g].table[tail]
  <2>1. CASE k[2] \in S
    <3>1. PICK j \in DOMAIN m.cells[g].table :
            j[2] \in S /\ x.cells[g].table[k] = m.cells[g].table[j]
      BY <1>4, <1>5, <1>6, <2>1 DEF Sources
    <3> QED BY <1>3, <1>4, <1>5, <3>1
  <2>2. CASE k[2] \notin S
    BY <1>4, <1>5, <2>2 DEF Sources
  <2> QED BY <2>1, <2>2
<1> QED BY <1>1, <1>3, <1>7, CountTells DEF TailRefs

\* The places of a list, after the first i, of sequences that need a block in group g.
Wanting(m, list, i, g) == {j \in i + 1 .. Len(list) : Needs(m, list[j], g)}

\* append for every sequence of a list.
LEMMA AppendFits ==
    ASSUME NEW m, MapOK(m), NEW list \in Seq(Seqs), Distinct(list), NEW len,
           Behind(m, list, len),
           \A g \in Groups : Cardinality(Wanting(m, list, 0, g)) <= NumFree(m, g),
           NEW o \in InTurn([method |-> "append", length |-> len], m, list)
    PROVE  o.raised = "none"
<1> DEFINE call == [method |-> "append", length |-> len]
           n == Len(list)
           Same(x, t) == /\ x.length[t] = m.length[t]
                         /\ \A g \in Groups : TailRefs(x, t, g) > 1 => TailRefs(m, t, g) > 1
           E == {p \in Nat \X Maps :
                   /\ MapOK(p[2])
                   /\ \A t \in Listed(list) \ Firsts(list, p[1]) : Same(p[2], t)
                   /\ \A g \in Groups :
                        Cardinality(Wanting(m, list, p[1], g)) <= FreeCount(p[2], g)}
<1>1. n \in Nat
  OBVIOUS
<1>2. \A x, s : OutcomesOf(call, x, s) = IF x.length[s] < len[s]
                                         THEN AppendOutcomes(x, s) ELSE {Done(x)}
  BY DEF OutcomesOf
<1> HIDE DEF call
<1>3. <<0, m>> \in E
  <2>1. m \in Maps
    BY MapsAre DEF MapOK
  <2> QED BY <2>1 DEF NumFree, FreeCount
<1>4. ASSUME NEW i \in 1 .. n, NEW x \in Maps, <<i - 1, x>> \in E,
             NEW q \in OutcomesOf(call, x, list[i])
      PROVE  q.raised = "none" /\ <<i, q.map>> \in E
  <2>1. /\ MapOK(x) /\ i \in Nat
        /\ \A t \in Listed(list) \ Firsts(list, i - 1) : Same(x, t)
        /\ \A g \in Groups : Cardinality(Wanting(m, list, i - 1, g)) <= FreeCount(x, g)
    BY <1>4
  <2>2. PICK s \in Seqs : s = list[i] /\ s \in Listed(list)
    BY DEF Listed, Firsts
  <2>3. s \notin Firsts(list, i - 1)
    <3>1. \A j \in 1 .. i - 1 : j \in 1 .. n /\ j # i
      OBVIOUS
    <3> QED BY <2>2, <3>1 DEF Distinct, Firsts
  <2>4. Same(x, s)
    BY <2>1, <2>2, <2>3
  <2>5. /\ m.length[s] \in Nat /\ m.length[s] > 0 /\ len[s] = m.length[s] + 1
        /\ len[s] <= MaxTokens /\ MaxTokens \in Nat
    BY <2>2, SizesAssumption DEF Behind, MapOK, MapType
  <2>6. s \in Present(x) /\ x.length[s] < MaxTokens
    BY <2>4, <2>5 DEF Present
  <2>7. q \in AppendOutcomes(x, s)
    BY <1>2, <1>4, <2>2, <2>4, <2>5
  <2>8. \A g \in Groups : Needs(x, s, g) => Needs(m, s, g)
    BY <2>4 DEF Needs
  <2>9. \A g \in Groups : FreeCount(x, g) \in Nat
    BY <2>1, FreeIs, MapCells DEF MapOK, FreeCount
  <2>10. ASSUME NEW g \in Groups
         PROVE  /\ Cardinality(Wanting(m, list, i, g)) \in Nat
                /\ Cardinality(Wanting(m, list, i - 1, g))
                     = Cardinality(Wanting(m, list, i, g)) + IF Needs(m, s, g) THEN 1 ELSE 0
    <3> DEFINE W == Wanting(m, list, i, g)
    <3>1. IsFiniteSet(W)
      <4>1. IsFiniteSet(i + 1 .. n)
        BY <1>1, FS_Interval
      <4> QED BY <4>1, FS_Subset DEF Wanting
    <3>2. i \notin W
      BY DEF Wanting
    <3>3. Needs(m, s, g) => Wanting(m, list, i - 1, g) = W \cup {i}
      BY <2>2 DEF Wanting
    <3>4. ~Needs(m, s, g) => Wanting(m, list, i - 1, g) = W
      BY <2>2 DEF Wanting
    <3> HIDE DEF W
    <3>5. Cardinality(W) \in Nat /\ Cardinality(W \cup {i}) = Cardinality(W) + 1
      <4>1. PICK j : j = i /\ j \notin W
        BY <3>2
      <4>2. IsFiniteSet(W) /\ Cardinality(W) \in Nat /\ Cardinality(W \cup {j}) = Cardinality(W) + 1
        BY <3>1, <4>1, FS_AddElement, FS_CardinalityType
      <4> QED BY <4>1, <4>2
    <3>6. CASE Needs(m, s, g)
      BY <3>3, <3>5, <3>6 DEF W
    <3>7. CASE ~Needs(m, s, g)
      BY <3>4, <3>5, <3>7 DEF W
    <3> QED BY <3>6, <3>7
  <2>11. /\ q.raised = "none"
         /\ \A g \in Groups :
              FreeCount(x, g) = FreeCount(q.map, g) + IF Needs(x, s, g) THEN 1 ELSE 0
    <3>1. ASSUME NEW g \in Groups, Needs(x, s, g)
          PROVE  FreeCount(x, g) >= 1
      BY <2>1, <2>8, <2>9, <2>10, <3>1
    <3> QED BY <2>1, <2>6, <2>7, <3>1, AppendCount
  <2>12. Moved(x, q.map, {s}) /\ Sources(x, q.map, {s})
    BY <2>1, <2>6, <2>7, <2>11, AppendOne, AppendSources
  <2>13. MapOK(q.map) /\ q.map \in Maps
    BY <2>12, MapsAre DEF Moved, MapOK
  <2>14. ASSUME NEW t \in Listed(list) \ Firsts(list, i)
         PROVE  Same(q.map, t)
    <3>1. Firsts(list, i) = Firsts(list, i - 1) \cup {s}
      BY <2>2, FirstsStep
    <3>2. t \in Seqs /\ t # s /\ t \in Listed(list) \ Firsts(list, i - 1)
      <4>1. t \in Seqs
        BY DEF Listed, Firsts
      <4> HIDE DEF Same
      <4> QED BY <3>1, <4>1
    <3>6. Same(x, t)
      BY <2>1, <3>2
    <3>3. q.map.length[t] = x.length[t]
      BY <2>12, <3>2 DEF Moved
    <3>4. t \in Present(x)
      BY <3>2, <3>6 DEF Present, Behind
    <3>5. \A g \in Groups : TailRefs(q.map, t, g) > 1 => TailRefs(x, t, g) > 1
      BY <2>1, <2>12, <2>13, <3>2, <3>3, <3>4, SharedBefore
    <3> QED BY <3>2, <3>3, <3>5, <3>6
  <2>15. ASSUME NEW g \in Groups
         PROVE  Cardinality(Wanting(m, list, i, g)) <= FreeCount(q.map, g)
    <3>1. FreeCount(q.map, g) \in Nat
      BY <2>13, FreeIs, MapCells DEF MapOK, FreeCount
    <3> QED BY <2>1, <2>8, <2>9, <2>10, <2>11, <3>1
  <2> HIDE DEF Same
  <2> QED BY <2>1, <2>11, <2>13, <2>14, <2>15
<1>5. o.raised = "none"
  <2>1. o \in InTurn(call, m, list) /\ E \subseteq Nat \X Maps
    BY DEF call
  <2> HIDE DEF E
  <2> QED BY <1>1, <1>3, <1>4, <2>1, TurnsReturn
<1> QED BY <1>5

-----------------------------------------------------------------------------
(* What the manager agreed to does not raise.                              *)

\* can_allocate adds up the blocks of the list.
LEMMA CanAllocateTells ==
    ASSUME NEW bm, NEW list \in Seq(Seqs), NEW len, CanAllocate(bm, list, len) = "OK",
           NEW f \in [1 .. Len(list) -> Nat],
           \A i \in 1 .. Len(list) : f[i] = NumLogicalBlocks(len[list[i]]),
           \A g \in Groups : NumFree(bm.map, g) \in Nat
    PROVE  \A g \in Groups : Cardinality(Dots(1 .. Len(list), f)) <= NumFree(bm.map, g)
<1> DEFINE V(i) == NumLogicalBlocks(len[list[i]])
           S == DOMAIN list
           body(h) == [s \in SUBSET S |->
                         IF s = {} THEN 0
                         ELSE NumLogicalBlocks(len[list[CHOOSE x \in s : TRUE]])
                                + h[s \ {CHOOSE x \in s : TRUE}]]
<1>1. S = 1 .. Len(list) /\ IsFiniteSet(S)
  <2>1. PICK n \in Nat : n = Len(list)
    OBVIOUS
  <2>2. IsFiniteSet(1 .. n)
    BY FS_Interval
  <2> QED BY <2>1, <2>2
<1>2. f \in [S -> Nat] /\ \A i \in S : f[i] = V(i)
  BY <1>1
<1>3. \A g \in Groups : (CHOOSE h : h = body(h))[S] + Watermark <= NumFree(bm.map, g)
  BY DEF CanAllocate, MapThenSumSet, MapThenFoldSet
<1>4. ASSUME NEW h
      PROVE  body(h) = SumBody(h, S, f)
  <2> DEFINE G(s) == NumLogicalBlocks(len[list[CHOOSE x \in s : TRUE]])
                       + h[s \ {CHOOSE x \in s : TRUE}]
             H(s) == f[CHOOSE x \in s : TRUE] + h[s \ {CHOOSE x \in s : TRUE}]
  <2>1. \A s \in SUBSET S : s # {} => G(s) = H(s)
    <3> SUFFICES ASSUME NEW s \in SUBSET S, s # {}
                 PROVE  G(s) = H(s)
      OBVIOUS
    <3>1. PICK y : y = CHOOSE x \in s : TRUE
      OBVIOUS
    <3>2. y \in S
      BY <3>1
    <3> QED BY <1>2, <3>1, <3>2
  <2> HIDE DEF G, H
  <2>2. [s \in SUBSET S |-> IF s = {} THEN 0 ELSE G(s)]
          = [s \in SUBSET S |-> IF s = {} THEN 0 ELSE H(s)]
    BY <2>1
  <2> QED BY <2>2 DEF SumBody, G, H
<1> HIDE DEF body, S
<1>5. \E h : h = body(h)
  BY <1>1, <1>2, <1>4, SumDefined
<1>6. PICK h : h = body(h) /\ h = CHOOSE k : k = body(k)
  BY <1>5
<1>7. h[S] = Cardinality(Dots(S, f)) /\ Cardinality(Dots(S, f)) \in Nat
  <2>1. h = SumBody(h, S, f)
    BY <1>4, <1>6
  <2> QED BY <1>1, <1>2, <2>1, SumIs
<1> SUFFICES ASSUME NEW g \in Groups
             PROVE  Cardinality(Dots(1 .. Len(list), f)) <= NumFree(bm.map, g)
  OBVIOUS
<1>8. PICK c \in Nat, w \in Nat, k \in Nat :
        /\ c = Cardinality(Dots(S, f)) /\ w = Watermark /\ k = NumFree(bm.map, g)
        /\ h[S] + Watermark <= NumFree(bm.map, g)
  BY <1>3, <1>6, <1>7, ManagerAssumption
<1>9. c <= k
  BY <1>7, <1>8
<1> QED BY <1>1, <1>8, <1>9

\* can_swap_in adds up the blocks that were recorded for the list.
LEMMA CanSwapInTells ==
    ASSUME NEW bm, NEW list \in Seq(Seqs), CanSwapIn(bm, list) = "OK", NEW g \in Groups,
           NEW f \in [1 .. Len(list) -> Nat],
           \A i \in 1 .. Len(list) : f[i] = Cardinality(DOMAIN bm.swapped[list[i]].tables[g])
    PROVE  Cardinality(Dots(1 .. Len(list), f)) <= NumFree(bm.map, g)
<1> DEFINE V(i) == Cardinality(DOMAIN bm.swapped[list[i]].tables[g])
           S == DOMAIN list
           body(h) == [s \in SUBSET S |->
                         IF s = {} THEN 0
                         ELSE Cardinality(DOMAIN bm.swapped[list[CHOOSE x \in s : TRUE]].tables[g])
                                + h[s \ {CHOOSE x \in s : TRUE}]]
<1>1. S = 1 .. Len(list) /\ IsFiniteSet(S)
  <2>1. PICK n \in Nat : n = Len(list)
    OBVIOUS
  <2>2. IsFiniteSet(1 .. n)
    BY FS_Interval
  <2> QED BY <2>1, <2>2
<1>2. f \in [S -> Nat] /\ \A i \in S : f[i] = V(i)
  BY <1>1
<1>3. (CHOOSE h : h = body(h))[S] <= NumFree(bm.map, g)
  BY DEF CanSwapIn, MapThenSumSet, MapThenFoldSet
<1>4. ASSUME NEW h
      PROVE  body(h) = SumBody(h, S, f)
  <2> DEFINE G(s) == Cardinality(DOMAIN bm.swapped[list[CHOOSE x \in s : TRUE]].tables[g])
                       + h[s \ {CHOOSE x \in s : TRUE}]
             H(s) == f[CHOOSE x \in s : TRUE] + h[s \ {CHOOSE x \in s : TRUE}]
  <2>1. \A s \in SUBSET S : s # {} => G(s) = H(s)
    <3> SUFFICES ASSUME NEW s \in SUBSET S, s # {}
                 PROVE  G(s) = H(s)
      OBVIOUS
    <3>1. PICK y : y = CHOOSE x \in s : TRUE
      OBVIOUS
    <3>2. y \in S
      BY <3>1
    <3> QED BY <1>2, <3>1, <3>2
  <2> HIDE DEF G, H
  <2>2. [s \in SUBSET S |-> IF s = {} THEN 0 ELSE G(s)]
          = [s \in SUBSET S |-> IF s = {} THEN 0 ELSE H(s)]
    BY <2>1
  <2> QED BY <2>2 DEF SumBody, G, H
<1> HIDE DEF body, S
<1>5. \E h : h = body(h)
  BY <1>1, <1>2, <1>4, SumDefined
<1>6. PICK h : h = body(h) /\ h = CHOOSE k : k = body(k)
  BY <1>5
<1>7. h[S] = Cardinality(Dots(S, f))
  <2>1. h = SumBody(h, S, f)
    BY <1>4, <1>6
  <2> QED BY <1>1, <1>2, <2>1, SumIs
<1> QED BY <1>1, <1>3, <1>6, <1>7

\* allocate, once can_allocate agrees.
LEMMA AllocateSucceeds ==
    ASSUME NEW bm, MapOK(bm.map), NEW list \in Seq(Seqs), Distinct(list), NEW len,
           CanAllocate(bm, list, len) = "OK",
           \A s \in Listed(list) : len[s] \in 1 .. MaxTokens /\ s \notin Present(bm.map),
           NEW o \in Allocate(bm, list, len)
    PROVE  o.raised = "none"
<1> DEFINE none == [s \in Seqs |-> 0]
           f == [i \in 1 .. Len(list) |-> NumLogicalBlocks(len[list[i]])]
<1>1. \A i \in 1 .. Len(list) : list[i] \in Seqs /\ list[i] \in Listed(list)
  BY DEF Listed, Firsts
<1>2. \A s \in Listed(list) : /\ NumLogicalBlocks(len[s]) \in Nat
                              /\ 0 < NumLogicalBlocks(len[s]) /\ none[s] = 0
  <2> SUFFICES ASSUME NEW s \in Listed(list)
               PROVE  /\ NumLogicalBlocks(len[s]) \in Nat
                      /\ 0 < NumLogicalBlocks(len[s]) /\ none[s] = 0
    OBVIOUS
  <2>1. s \in Seqs
    BY DEF Listed, Firsts
  <2>2. PICK n \in Nat : n = len[s] /\ n >= 1 /\ n <= MaxTokens
    BY SizesAssumption
  <2>3. NumLogicalBlocks(n) \in Nat /\ NumLogicalBlocks(n) >= 1
    BY <2>2, BlocksStep
  <2> QED BY <2>1, <2>2, <2>3
<1>3. Allocatable(list, len, none)
  BY <1>2 DEF Allocatable
<1>4. PICK q \in AllOrNothing(bm.map, list, len, none) :
        o = [mgr |-> [bm EXCEPT !.map = q.map], raised |-> q.raised]
  BY DEF Allocate
<1>5. f \in [1 .. Len(list) -> Nat] /\ \A i \in 1 .. Len(list) : f[i] = NumLogicalBlocks(len[list[i]])
  BY <1>1, <1>2
<1>6. \A i \in 1 .. Len(list) : f[i] = NumLogicalBlocks(len[list[i]]) - none[list[i]]
  BY <1>1, <1>2, <1>5
<1>7. \A g \in Groups : NumFree(bm.map, g) \in Nat
  BY FreeIs, MapCells DEF MapOK, NumFree
<1> HIDE DEF f, none
<1>8. \A g \in Groups : Cardinality(Dots(1 .. Len(list), f)) <= NumFree(bm.map, g)
  BY <1>5, <1>7, CanAllocateTells
<1>9. q.raised = "none"
  BY <1>3, <1>4, <1>5, <1>6, <1>8, AllOrNothingFits
<1> QED BY <1>4, <1>9

\* swap_in, once can_swap_in agrees, of sequences that were recorded with the blocks
\* they had.
LEMMA SwapInSucceeds ==
    ASSUME NEW bm, MapOK(bm.map), NEW list \in Seq(Seqs), Distinct(list),
           Recorded(bm, list), CanSwapIn(bm, list) = "OK",
           \A s \in Listed(list) :
             /\ s \notin Present(bm.map)
             /\ Records(bm.swapped[s], bm.swapped[s].length, bm.swapped[s].evicted),
           NEW o \in SwapIn(bm, list)
    PROVE  o.raised = "none"
<1> DEFINE S == Listed(list)
           len == [s \in S |-> bm.swapped[s].length]
           evicted == [s \in S |-> bm.swapped[s].evicted]
           cpu == [g \in Groups |-> bm.cpu[g] \cup Returned(bm, S, g)]
           left == Restrict(bm.swapped, DOMAIN bm.swapped \ S)
           Size(s) == NumLogicalBlocks(len[s]) - evicted[s]
           f == [i \in 1 .. Len(list) |-> Size(list[i])]
<1>1. S = {list[i] : i \in DOMAIN list} /\ S \subseteq Seqs
  BY DEF Listed, Firsts
<1>2. PICK q \in AllOrNothing(bm.map, list, len, evicted) :
        o = IF q.raised = "none"
            THEN [mgr |-> [map |-> q.map, cpu |-> cpu, swapped |-> left], raised |-> "none"]
            ELSE [mgr |-> [bm EXCEPT !.map = q.map], raised |-> q.raised]
  <2> HIDE DEF S
  <2> QED BY <1>1 DEF SwapIn
<1>3. Allocatable(list, len, evicted)
  BY DEF Allocatable, Recorded
<1>4. \A s \in S : len[s] = bm.swapped[s].length /\ evicted[s] = bm.swapped[s].evicted
  OBVIOUS
<1> HIDE DEF len, evicted
<1>5. ASSUME NEW s \in S
      PROVE  /\ Size(s) \in Nat
             /\ \A g \in Groups : Cardinality(DOMAIN bm.swapped[s].tables[g]) = Size(s)
  <2>1. PICK n \in Nat, e \in Nat : n = len[s] /\ e = evicted[s] /\ n <= MaxTokens
    BY <1>3, SizesAssumption DEF Allocatable
  <2>2. PICK a \in Nat : a = NumLogicalBlocks(n)
    BY <2>1, BlocksStep
  <2>3. e < a
    BY <1>3, <2>1, <2>2 DEF Allocatable
  <2>4. PICK N \in Int : N = a - 1
    BY <2>2
  <2>5. Cardinality(e .. N) = N - e + 1
    BY <2>3, <2>4, FS_Interval
  <2>6. \A g \in Groups : DOMAIN bm.swapped[s].tables[g] = e .. N
    BY <1>4, <2>1, <2>2, <2>4 DEF Records
  <2> QED BY <2>1, <2>2, <2>3, <2>4, <2>5, <2>6
<1>6. \A i \in 1 .. Len(list) : list[i] \in S
  BY DEF Listed, Firsts
<1>7. /\ f \in [1 .. Len(list) -> Nat]
      /\ \A i \in 1 .. Len(list) : f[i] = NumLogicalBlocks(len[list[i]]) - evicted[list[i]]
      /\ \A g \in Groups : \A i \in 1 .. Len(list) :
           f[i] = Cardinality(DOMAIN bm.swapped[list[i]].tables[g])
  BY <1>5, <1>6
<1> HIDE DEF f
<1>8. \A g \in Groups : Cardinality(Dots(1 .. Len(list), f)) <= NumFree(bm.map, g)
  BY <1>7, CanSwapInTells
<1> HIDE DEF cpu, left
<1>9. q.raised = "none"
  <2>1. \A s \in Listed(list) : s \notin Present(bm.map)
    OBVIOUS
  <2>2. \A i \in 1 .. Len(list) : f[i] = NumLogicalBlocks(len[list[i]]) - evicted[list[i]]
    BY <1>7
  <2>3. f \in [1 .. Len(list) -> Nat] /\ q \in AllOrNothing(bm.map, list, len, evicted)
    BY <1>2, <1>7
  <2> HIDE DEF S
  <2> QED BY <1>3, <1>8, <2>1, <2>2, <2>3, AllOrNothingFits
<1> QED BY <1>2, <1>9

\* append_slots, once can_append_slots agrees, if a block has several slots: the
\* sequences it counts are those that need a block.
LEMMA AppendSucceeds ==
    ASSUME BlockSize > 1, NEW bm, MapOK(bm.map), NEW list \in Seq(Seqs), Distinct(list),
           NEW len, Behind(bm.map, list, len), CanAppendSlots(bm, list, len),
           NEW o \in AppendSlots(bm, list, len)
    PROVE  o.raised = "none"
<1> DEFINE m == bm.map
           needs(g) == {i \in DOMAIN list :
                          /\ len[list[i]] > m.length[list[i]]
                          /\ \/ len[list[i]] % BlockSize = 1
                             \/ NeedsCow(m, list[i], g)}
<1>1. \A g \in Groups : NumFree(m, g) >= Cardinality(needs(g))
  BY DEF CanAppendSlots
<1>2. \A g \in Groups : NumFree(m, g) \in Nat
  BY FreeIs, MapCells DEF MapOK, NumFree
<1>3. PICK n \in Nat : n = Len(list) /\ DOMAIN list = 1 .. n
  OBVIOUS
<1>4. ASSUME NEW g \in Groups
      PROVE  Cardinality(Wanting(m, list, 0, g)) <= NumFree(m, g)
  <2>1. IsFiniteSet(needs(g))
    <3>1. IsFiniteSet(1 .. n)
      BY FS_Interval
    <3>2. needs(g) \in SUBSET (1 .. n)
      BY <1>3
    <3> QED BY <3>1, <3>2, FS_Subset
  <2>2. ASSUME NEW i \in Wanting(m, list, 0, g)
        PROVE  i \in needs(g)
    <3>1. i \in DOMAIN list /\ Needs(m, list[i], g)
      BY <1>3 DEF Wanting
    <3>2. PICK s \in Seqs : s = list[i] /\ s \in Listed(list)
      BY <3>1 DEF Listed, Firsts
    <3>3. m.length[s] > 0 /\ len[s] = m.length[s] + 1 /\ len[s] <= MaxTokens
      BY <3>2 DEF Behind
    <3>4. PICK k \in Nat : k = m.length[s]
      BY <3>2 DEF MapOK, MapType
    <3>5. len[s] > m.length[s]
      BY <3>3, <3>4
    <3>6. CASE NumLogicalBlocks(k + 1) > NumLogicalBlocks(k)
      BY <3>1, <3>2, <3>3, <3>4, <3>5, <3>6, NeedsAre
    <3>7. CASE ~(NumLogicalBlocks(k + 1) > NumLogicalBlocks(k))
      <4>1. TailRefs(m, s, g) > 1
        BY <3>1, <3>2, <3>4, <3>7 DEF Needs
      <4>2. k % BlockSize # 0
        BY <3>4, <3>7, StartsBlock
      <4> QED BY <3>1, <3>2, <3>4, <3>5, <4>1, <4>2 DEF NeedsCow
    <3> QED BY <3>6, <3>7
  <2> HIDE DEF needs
  <2>3. Wanting(m, list, 0, g) \in SUBSET needs(g)
    BY <2>2
  <2>4. PICK W, N : W = Wanting(m, list, 0, g) /\ N = needs(g)
    OBVIOUS
  <2>5. Cardinality(W) <= Cardinality(N) /\ Cardinality(W) \in Nat /\ Cardinality(N) \in Nat
    BY <2>1, <2>3, <2>4, FS_Subset, FS_CardinalityType
  <2> QED BY <1>1, <1>2, <2>4, <2>5
<1>5. PICK q \in InTurn([method |-> "append", length |-> len], m, list) :
        o = [mgr |-> [bm EXCEPT !.map = q.map], raised |-> q.raised]
  BY DEF AppendSlots
<1>6. q.raised = "none"
  BY <1>4, <1>5, AppendFits
<1> QED BY <1>5, <1>6

Statuses == {"absent", "waiting", "running", "swapped", "finished", "removed"}
Live == {"waiting", "running", "swapped"}
Ids(r) == Listed(SeqsOf[r])

-----------------------------------------------------------------------------
(* The inductive invariant.                                                *)

Typed ==
    /\ IsManager(mgr) /\ MapOK(mgr.map) /\ CpuTyped(mgr)
    /\ status \in [Seqs -> Statuses]
    /\ length \in [Seqs -> 0 .. MaxTokens - 1]
    /\ prefill \subseteq Seqs
    /\ phase \in {"idle", "prefills", "running", "swapped", "metadata", "executing"}
    /\ batch \subseteq Requests /\ trying \subseteq Requests
    /\ preempted \in BOOLEAN
    /\ cached \in 0 .. NumLayers
    /\ maxSeqs \in 1 .. MaxNumSeqs

\* A swapped sequence has a record of all but its pending token, and swap_in can
\* allocate from it.
HasRecord(m, s, n) ==
    /\ n >= 2
    /\ s \in DOMAIN m.swapped
    /\ m.swapped[s].evicted \in Nat
    /\ m.swapped[s].evicted < NumLogicalBlocks(n - 1)
    /\ Records(m.swapped[s], n - 1, m.swapped[s].evicted)

RecordsKept == \A s \in Seqs : status[s] = "swapped" => HasRecord(mgr, s, length[s])

\* A sequence of request r in state st with n tokens, when b is the batch and m the
\* block map: one that waits for its next decode has a token to append.
InLine(m, s, st, n, r, b) ==
    /\ st # "running" => m.length[s] = 0
    /\ st = "running" /\ r \in b => m.length[s] = n /\ Alone(m, s)
    /\ st = "running" /\ r \notin b => m.length[s] = n - 1 /\ n >= 2
    /\ st \in Live => n >= 1

\* The sequences of a request that are not finished are in one queue.
Mates(st, r) == \A s, t \in Ids(r) : st[s] \in Live /\ st[t] \in Live => st[s] = st[t]

\* The first sequence of a request is the first there is.
FirstComes(st, r) == st[SeqsOf[r][1]] = "absent" => \A s \in Ids(r) : st[s] = "absent"

\* Sequences of no request never are.
Strangers(m, st) ==
    \A s \in Seqs : (\A r \in Requests : s \notin Ids(r)) => st[s] = "absent" /\ m.length[s] = 0

Settled(m, st, len, b) ==
    /\ NoTemps(m)
    /\ Strangers(m, st)
    /\ \A r \in Requests : Mates(st, r) /\ FirstComes(st, r)
    /\ \A r \in Requests : \A s \in Ids(r) : InLine(m, s, st[s], len[s], r, b)

\* What a call that raised half-way leaves is a map in order, and the records; that
\* the sides agree, only while the engine runs.
IInv ==
    /\ Typed
    /\ RecordsKept
    /\ fault = "none" => Settled(mgr.map, status, length, batch)
    /\ fault = "none" /\ phase = "idle" => batch = {}

-----------------------------------------------------------------------------
(* The sequences of a request.                                             *)

\* The sequences of a request, and those of another.
LEMMA IdsAre ==
    ASSUME NEW r \in Requests
    PROVE  /\ SeqsOf[r] \in Seq(Seqs) /\ Distinct(SeqsOf[r])
           /\ Ids(r) \subseteq Seqs /\ SeqsOf[r][1] \in Ids(r)
           /\ \A q \in Requests \ {r} : Ids(q) \cap Ids(r) = {}
<1>1. \A q \in Requests : SeqsOf[q] \in Seq(Seqs)
  BY SchedulerAssumption
<1>2. \A q \in Requests : ToSet(SeqsOf[q]) = Ids(q) /\ Ids(q) \subseteq Seqs
  BY <1>1, ListedIs DEF Ids
<1>3. \A q \in Requests \ {r} : Ids(q) \cap Ids(r) = {}
  BY <1>2, SchedulerAssumption
<1>4. SeqsOf[r] # <<>> /\ IsInjective(SeqsOf[r])
  BY SchedulerAssumption
<1>5. SeqsOf[r][1] \in Ids(r)
  <2>1. 1 \in 1 .. Len(SeqsOf[r])
    BY <1>1, <1>4, EmptySeq
  <2> QED BY <2>1 DEF Ids, Listed, Firsts
<1>6. Distinct(SeqsOf[r])
  <2>1. DOMAIN SeqsOf[r] = 1 .. Len(SeqsOf[r])
    BY <1>1, LenProperties
  <2> QED BY <1>4, <2>1 DEF Distinct, IsInjective
<1> QED BY <1>1, <1>2, <1>3, <1>5, <1>6

\* get_seqs(status) of a request.
LEMMA SeqsInAre ==
    ASSUME NEW r \in Requests, NEW st
    PROVE  /\ SeqsIn(r, st) \in Seq(Seqs) /\ Distinct(SeqsIn(r, st))
           /\ Listed(SeqsIn(r, st)) = {s \in Ids(r) : status[s] = st}
           /\ ToSet(SeqsIn(r, st)) = Listed(SeqsIn(r, st))
           /\ r \in Having(st) <=> \E s \in Ids(r) : status[s] = st
<1> DEFINE S == {s \in Seqs : status[s] = st}
<1>1. SeqsIn(r, st) = Only(SeqsOf[r], S)
  BY DEF SeqsIn
<1>2. /\ SeqsIn(r, st) \in Seq(Seqs) /\ Distinct(SeqsIn(r, st))
      /\ Listed(SeqsIn(r, st)) = Ids(r) \cap S
  <2> HIDE DEF S
  <2> QED BY <1>1, IdsAre, OnlyIs DEF Ids
<1>3. Listed(SeqsIn(r, st)) = {s \in Ids(r) : status[s] = st}
  BY <1>2, IdsAre
<1>4. r \in Having(st) <=> SeqsIn(r, st) # <<>>
  BY DEF Having
<1> QED BY <1>2, <1>3, <1>4, ListedIs

\* get_unfinished_seqs of a request.
LEMMA UnfinishedAre ==
    ASSUME NEW r \in Requests
    PROVE  /\ Unfinished(r) \in Seq(Seqs)
           /\ Listed(Unfinished(r)) = {s \in Ids(r) : status[s] \in Live}
           /\ ToSet(Unfinished(r)) = Listed(Unfinished(r))
<1> DEFINE S == {s \in Seqs : status[s] \in {"waiting", "running", "swapped"}}
<1>1. Unfinished(r) = Only(SeqsOf[r], S)
  BY DEF Unfinished
<1>2. Unfinished(r) \in Seq(Seqs) /\ Listed(Unfinished(r)) = Ids(r) \cap S
  <2> HIDE DEF S
  <2> QED BY <1>1, IdsAre, OnlyIs DEF Ids
<1>3. Listed(Unfinished(r)) = {s \in Ids(r) : status[s] \in Live}
  BY <1>2, IdsAre DEF Live
<1> QED BY <1>2, <1>3, ListedIs

-----------------------------------------------------------------------------
(* Steps of one request.                                                   *)

\* Only sequences S change, all of them sequences of v, and only v joins or leaves
\* the batch.
OnlyOf(v, S, st, su, len, lem, b, c) ==
    /\ S \subseteq Ids(v)
    /\ \A t \in Seqs \ S : su[t] = st[t] /\ lem[t] = len[t]
    /\ \A r \in Requests \ {v} : r \in b <=> r \in c
    /\ \A t \in Ids(v) \ S : st[t] # "running" \/ (v \in b <=> v \in c)

\* A call for other sequences leaves a sequence in line.
LEMMA InLineStays ==
    ASSUME NEW m, NEW x, NEW S, Moved(m, x, S), NEW s \in Seqs \ S, NEW st, NEW n \in Nat,
           NEW r, NEW b, NEW c, InLine(m, s, st, n, r, b), st # "running" \/ (r \in b <=> r \in c)
    PROVE  InLine(x, s, st, n, r, c)
<1>1. /\ x.length[s] = m.length[s]
      /\ m.length[s] > 0 /\ Alone(m, s) => Alone(x, s)
  BY DEF Moved
<1>2. CASE st # "running"
  BY <1>1, <1>2 DEF InLine
<1>3. CASE st = "running" /\ r \in b
  <2>1. n > 0 /\ m.length[s] = n /\ Alone(m, s)
    BY <1>3 DEF InLine, Live
  <2> QED BY <1>1, <1>3, <2>1 DEF InLine
<1>4. CASE st = "running" /\ r \notin b
  BY <1>1, <1>4 DEF InLine
<1> QED BY <1>2, <1>3, <1>4

\* A step of one request v, which changes only its sequences S, keeps all the rest
\* in line; so an action has only to say what it does to S.
LEMMA SettledStep ==
    ASSUME NEW m, NEW x, NEW st, NEW su, NEW len \in [Seqs -> Nat], NEW lem, NEW b, NEW c,
           Settled(m, st, len, b), NEW v \in Requests, NEW S, Moved(m, x, S),
           OnlyOf(v, S, st, su, len, lem, b, c), Mates(su, v), FirstComes(su, v),
           \A s \in S : InLine(x, s, su[s], lem[s], v, c)
    PROVE  Settled(x, su, lem, c)
<1>1. NoTemps(x)
  BY DEF Settled, Moved
<1>2. Strangers(x, su)
  <2> SUFFICES ASSUME NEW s \in Seqs, \A r \in Requests : s \notin Ids(r)
               PROVE  su[s] = "absent" /\ x.length[s] = 0
    BY DEF Strangers
  <2>1. s \notin S
    BY DEF OnlyOf
  <2>2. su[s] = st[s] /\ x.length[s] = m.length[s]
    BY <2>1 DEF OnlyOf, Moved
  <2>3. st[s] = "absent" /\ m.length[s] = 0
    BY DEF Settled, Strangers
  <2> QED BY <2>2, <2>3
<1>3. ASSUME NEW r \in Requests
      PROVE  /\ Mates(su, r) /\ FirstComes(su, r)
             /\ \A s \in Ids(r) : InLine(x, s, su[s], lem[s], r, c)
  <2>1. /\ Mates(st, r) /\ FirstComes(st, r)
        /\ \A s \in Ids(r) : InLine(m, s, st[s], len[s], r, b)
    BY DEF Settled
  <2>2. Ids(r) \subseteq Seqs /\ SeqsOf[r][1] \in Ids(r)
    BY IdsAre
  <2>3. ASSUME NEW s \in Ids(r) \ S
        PROVE  InLine(x, s, su[s], lem[s], r, c)
    <3>1. su[s] = st[s] /\ lem[s] = len[s] /\ len[s] \in Nat /\ s \in Seqs \ S
      BY <2>2, <2>3 DEF OnlyOf
    <3>2. InLine(m, s, st[s], len[s], r, b)
      BY <2>1, <2>3
    <3>3. st[s] # "running" \/ (r \in b <=> r \in c)
      BY <2>3 DEF OnlyOf
    <3> QED BY <3>1, <3>2, <3>3, InLineStays
  <2>4. CASE r = v
    BY <2>3, <2>4
  <2>5. CASE r # v
    <3>1. S \cap Ids(r) = {}
      BY <2>5, IdsAre DEF OnlyOf
    <3>2. \A s \in Ids(r) : su[s] = st[s]
      BY <2>2, <3>1 DEF OnlyOf
    <3>3. Mates(su, r) /\ FirstComes(su, r)
      BY <2>1, <2>2, <3>2 DEF Mates, FirstComes
    <3> QED BY <2>3, <3>1, <3>3
  <2> QED BY <2>4, <2>5
<1> QED BY <1>1, <1>2, <1>3 DEF Settled

\* All sequences of a request that are in one state move to another.
LEMMA QueueMoves ==
    ASSUME NEW v \in Requests, NEW st, Mates(st, v), FirstComes(st, v),
           NEW old \in Live, NEW new \in Statuses \ {"absent"},
           NEW S, S = {s \in Ids(v) : st[s] = old}, S # {},
           NEW su, \A s \in Seqs : su[s] = IF s \in S THEN new ELSE st[s]
    PROVE  /\ Mates(su, v) /\ FirstComes(su, v)
           /\ \A s \in Ids(v) \ S : st[s] \notin Live
<1>1. Ids(v) \subseteq Seqs /\ SeqsOf[v][1] \in Ids(v)
  BY IdsAre
<1>2. \A s \in Ids(v) \ S : st[s] \notin Live
  BY DEF Mates
<1>3. Mates(su, v)
  BY <1>1, <1>2 DEF Mates
<1>4. su[SeqsOf[v][1]] # "absent"
  <2>1. st[SeqsOf[v][1]] # "absent"
    BY <1>1 DEF FirstComes, Live
  <2> QED BY <1>1, <2>1
<1> QED BY <1>2, <1>3, <1>4 DEF FirstComes

-----------------------------------------------------------------------------
(* The actions.                                                            *)

\* Records stay right where the swapped sequences are left alone.
LEMMA RecordsStay ==
    ASSUME RecordsKept, mgr'.swapped = mgr.swapped,
           \A s \in Seqs : status'[s] = "swapped" => status[s] = "swapped" /\ length'[s] = length[s]
    PROVE  RecordsKept'
  BY DEF RecordsKept, HasRecord

\* The manager after a call that changed the map only.
LEMMA ManagerStays ==
    ASSUME Typed, NEW x, MapOK(x), mgr' = Remapped(mgr, x)
    PROVE  /\ IsManager(mgr') /\ MapOK(mgr'.map) /\ CpuTyped(mgr')
           /\ mgr'.map = x /\ mgr'.swapped = mgr.swapped
<1>1. IsManager(mgr) /\ CpuTyped(mgr)
  BY DEF Typed
<1> QED BY <1>1, RemappedIs, RemappedCpu

\* Lengths are natural numbers.
LEMMA LengthsAre ==
    ASSUME Typed
    PROVE  length \in [Seqs -> Nat] /\ MaxTokens \in Nat /\ MaxTokens >= 1
  BY SizesAssumption DEF Typed

\* add_seq_group.
LEMMA AddKeeps ==
    ASSUME IInv, NEW r \in Requests, NEW n \in PromptLengths, AddSeqGroup(r, n)
    PROVE  IInv'
<1> DEFINE first == SeqsOf[r][1]
<1>1. /\ fault = "none" /\ fault' = "none" /\ phase = "idle" /\ phase' = "idle"
      /\ status[first] = "absent" /\ mgr' = mgr /\ batch' = batch
      /\ status' = [status EXCEPT ![first] = "waiting"]
      /\ length' = [length EXCEPT ![first] = n]
      /\ prefill' = prefill \cup {first}
      /\ UNCHANGED <<trying, preempted, cached, maxSeqs>>
  BY DEF AddSeqGroup, At
<1>2. first \in Ids(r) /\ first \in Seqs /\ Ids(r) \subseteq Seqs
  BY IdsAre
<1>3. n \in 1 .. MaxTokens - 1 /\ n \in Nat
  BY SchedulerAssumption, SizesAssumption
<1>4. Typed /\ RecordsKept /\ Settled(mgr.map, status, length, batch) /\ batch = {}
  BY <1>1 DEF IInv
<1>5. Typed'
  BY <1>1, <1>2, <1>3, <1>4 DEF Typed, Statuses
<1>6. RecordsKept'
  <2>1. \A s \in Seqs : status'[s] = "swapped" => status[s] = "swapped" /\ length'[s] = length[s]
    BY <1>1, <1>2, <1>4 DEF Typed
  <2> QED BY <1>1, <1>4, <2>1, RecordsStay
<1>7. OnlyOf(r, {first}, status, status', length, length', batch, batch)
  BY <1>1, <1>2, <1>4 DEF OnlyOf, Typed
<1>8. status'[first] = "waiting" /\ length'[first] = n
      /\ \A s \in Seqs \ {first} : status'[s] = status[s]
  BY <1>1, <1>2, <1>4 DEF Typed
<1>9. Mates(status', r) /\ FirstComes(status', r)
  <2>1. \A s \in Ids(r) : status[s] = "absent"
    BY <1>1, <1>4 DEF Settled, FirstComes
  <2> HIDE DEF first
  <2>2. \A s \in Ids(r) \ {first} : status'[s] \notin Live
    BY <1>2, <1>8, <2>1 DEF Live
  <2> QED BY <1>8, <2>2 DEF Mates, FirstComes, first
<1>10. InLine(mgr.map, first, status'[first], length'[first], r, batch)
  <2>1. InLine(mgr.map, first, status[first], length[first], r, batch)
    BY <1>2, <1>4 DEF Settled
  <2> HIDE DEF first
  <2> QED BY <1>1, <1>3, <1>8, <2>1 DEF InLine
<1>11. MapOK(mgr.map) /\ length \in [Seqs -> Nat]
  BY <1>4, LengthsAre DEF Typed
<1>12. Moved(mgr.map, mgr.map, {first})
  BY <1>11, MovedNot
<1>13. Settled(mgr.map, status', length', batch)
  <2> HIDE DEF first
  <2> QED BY <1>4, <1>7, <1>9, <1>10, <1>11, <1>12, SettledStep
<1> QED BY <1>1, <1>4, <1>5, <1>6, <1>13 DEF IInv

\* abort_seq_group, after which the map has nothing of the request.
LEMMA AbortKeeps ==
    ASSUME IInv, NEW r \in Requests, AbortSeqGroup(r)
    PROVE  IInv'
<1> DEFINE list == Unfinished(r)
           S == Listed(list)
<1>1. /\ fault = "none" /\ fault' = "none" /\ phase = "idle" /\ phase' = "idle"
      /\ mgr' = Free(mgr, list) /\ batch' = batch
      /\ status' = [s \in Seqs |-> IF s \in ToSet(list) THEN "finished" ELSE status[s]]
      /\ length' = [s \in Seqs |-> IF s \in ToSet(list) THEN 0 ELSE length[s]]
      /\ prefill' = prefill \ ToSet(list)
      /\ UNCHANGED <<trying, preempted, cached, maxSeqs>>
  BY DEF AbortSeqGroup, At, SetStatus, Forget
<1>2. /\ list \in Seq(Seqs) /\ S = {s \in Ids(r) : status[s] \in Live} /\ ToSet(list) = S
      /\ Ids(r) \subseteq Seqs /\ SeqsOf[r][1] \in Ids(r)
  BY UnfinishedAre, IdsAre
<1> HIDE DEF list, S
<1>3. Typed /\ RecordsKept /\ Settled(mgr.map, status, length, batch) /\ batch = {}
  BY <1>1 DEF IInv
<1>4. PICK x : /\ mgr' = Remapped(mgr, x) /\ MapOK(x) /\ Moved(mgr.map, x, S)
               /\ \A s \in S : x.length[s] = 0
  <2>1. IsManager(mgr) /\ MapOK(mgr.map)
    BY <1>3 DEF Typed
  <2>2. \E x : /\ Free(mgr, list) = Remapped(mgr, x) /\ MapOK(x)
               /\ Moved(mgr.map, x, Listed(list))
               /\ \A s \in Listed(list) : x.length[s] = 0
    BY <1>2, <2>1, FreeCall
  <2> QED BY <1>1, <2>2 DEF S
<1>5. /\ IsManager(mgr') /\ MapOK(mgr'.map) /\ CpuTyped(mgr')
      /\ mgr'.map = x /\ mgr'.swapped = mgr.swapped
  BY <1>3, <1>4, ManagerStays
<1>6. \A s \in Seqs : /\ status'[s] = IF s \in S THEN "finished" ELSE status[s]
                      /\ length'[s] = IF s \in S THEN 0 ELSE length[s]
  BY <1>1, <1>2
<1>7. Typed'
  <2>1. status' \in [Seqs -> Statuses] /\ length' \in [Seqs -> 0 .. MaxTokens - 1]
    BY <1>1, <1>3, SizesAssumption DEF Typed, Statuses
  <2>2. prefill' \subseteq Seqs
    BY <1>1, <1>3 DEF Typed
  <2> QED BY <1>1, <1>3, <1>5, <2>1, <2>2 DEF Typed
<1>8. RecordsKept'
  BY <1>3, <1>5, <1>6, RecordsStay
<1>9. OnlyOf(r, S, status, status', length, length', batch, batch)
  BY <1>2, <1>6 DEF OnlyOf
<1>10. Mates(status', r) /\ FirstComes(status', r)
  <2>1. \A s \in Ids(r) : status'[s] \notin Live
    BY <1>2, <1>6 DEF Live
  <2>2. FirstComes(status, r)
    BY <1>3 DEF Settled
  <2>3. FirstComes(status', r)
    BY <1>2, <1>6, <2>2 DEF FirstComes, Live
  <2> QED BY <2>1, <2>3 DEF Mates
<1>11. \A s \in S : InLine(x, s, status'[s], length'[s], r, batch)
  BY <1>2, <1>4, <1>6 DEF InLine, Live
<1>12. length \in [Seqs -> Nat]
  BY <1>3, LengthsAre
<1>13. Settled(x, status', length', batch)
  BY <1>3, <1>4, <1>9, <1>10, <1>11, <1>12, SettledStep
<1> QED BY <1>1, <1>3, <1>5, <1>7, <1>8, <1>13 DEF IInv

\* A step that moves to another loop of schedule() only.
LEMMA PhaseKeeps ==
    ASSUME IInv, fault = "none", fault' = "none", batch' = batch, phase' # "idle",
           UNCHANGED <<mgr, status, length, prefill, trying>>,
           phase' \in {"idle", "prefills", "running", "swapped", "metadata", "executing"},
           preempted' \in BOOLEAN, cached' \in 0 .. NumLayers, maxSeqs' \in 1 .. MaxNumSeqs
    PROVE  IInv'
<1>1. mgr' = mgr /\ status' = status /\ length' = length /\ prefill' = prefill /\ trying' = trying
  OBVIOUS
<1>2. Typed /\ RecordsKept /\ Settled(mgr.map, status, length, batch)
  BY DEF IInv
<1>3. Typed'
  BY <1>1, <1>2 DEF Typed
<1>4. RecordsKept'
  BY <1>1, <1>2 DEF RecordsKept
<1> QED BY <1>1, <1>2, <1>3, <1>4 DEF IInv

\* schedule() begins, with what the cache-ratio policy chooses.
LEMMA ScheduleKeeps ==
    ASSUME IInv, Schedule
    PROVE  IInv'
<1> DEFINE active == Having("running") \cup Having("waiting")
<1>1. /\ fault = "none" /\ fault' = "none" /\ phase = "idle"
      /\ batch' = {} /\ UNCHANGED <<mgr, status, length, prefill, trying, preempted>>
      /\ phase' \in {"prefills", "running"}
  BY DEF Schedule, At
<1>2. batch = {} /\ Typed
  BY <1>1 DEF IInv
<1>3. NumLayers \in Nat /\ NumLayers >= 1 /\ MaxNumSeqs \in Nat /\ MaxNumSeqs >= 1
  BY ManagerAssumption, SchedulerAssumption
<1>4. NumLayers \div 2 \in 0 .. NumLayers
  <2>1. \A n \in Nat : n \div 2 \in 0 .. n
    OBVIOUS
  <2> QED BY <1>3, <2>1
<1>5. PICK choice \in PolicyChoices(Cardinality(active)) :
        maxSeqs' = choice[1] /\ cached' = choice[2]
  BY DEF Schedule
<1>6. Cardinality(active) \in Nat
  <2>1. IsFiniteSet(active)
    <3>1. active \subseteq Requests
      BY DEF Having
    <3> QED BY <3>1, FS_Subset, SchedulerAssumption
  <2> QED BY <2>1, FS_CardinalityType
<1>7. PICK n \in Nat : n = Cardinality(active)
  BY <1>6
<1>8. PolicyLayers \subseteq 1 .. NumLayers
  BY SchedulerAssumption
<1>9. maxSeqs' \in 1 .. MaxNumSeqs /\ cached' \in 0 .. NumLayers
  <2> HIDE DEF active
  <2>1. Min({MaxNumSeqs, n}) \in Int /\ Min({MaxNumSeqs, n}) <= MaxNumSeqs
    BY <1>3, <1>7, MaxOfTwo
  <2>2. CASE n <= 1
    <3>1. choice = <<MaxNumSeqs, NumLayers \div 2>>
      BY <1>5, <1>7, <2>2 DEF PolicyChoices
    <3> QED BY <1>3, <1>4, <1>5, <3>1
  <2>3. CASE n > 1
    <3>1. \/ choice \in (1 .. Min({MaxNumSeqs, n})) \X PolicyLayers
          \/ choice \in {<<MaxNumSeqs, l>> : l \in PolicyLayers \cap {NumLayers \div 2}}
      BY <1>5, <1>7, <2>3 DEF PolicyChoices
    <3>2. CASE choice \in (1 .. Min({MaxNumSeqs, n})) \X PolicyLayers
      <4>1. choice[1] \in 1 .. Min({MaxNumSeqs, n}) /\ choice[2] \in 1 .. NumLayers
        BY <1>8, <3>2
      <4> QED BY <1>3, <1>5, <2>1, <4>1
    <3>3. CASE choice \in {<<MaxNumSeqs, l>> : l \in PolicyLayers \cap {NumLayers \div 2}}
      <4>1. PICK l \in PolicyLayers : choice = <<MaxNumSeqs, l>>
        BY <3>3
      <4> QED BY <1>3, <1>5, <1>8, <4>1
    <3> QED BY <3>1, <3>2, <3>3
  <2> QED BY <2>2, <2>3
<1> QED BY <1>1, <1>2, <1>9, PhaseKeeps DEF Typed

\* A loop of schedule() ends.
LEMMA EndsKeep ==
    ASSUME IInv, EndPrefills \/ EndRunning \/ EndSwapped
    PROVE  IInv'
<1>1. /\ fault = "none" /\ fault' = "none" /\ batch' = batch
      /\ UNCHANGED <<mgr, status, length, prefill, trying, preempted, cached, maxSeqs>>
      /\ phase' \in {"running", "metadata", "swapped"}
  BY DEF EndPrefills, EndRunning, EndSwapped, At
<1>2. Typed
  BY DEF IInv
<1> QED BY <1>1, <1>2, PhaseKeeps DEF Typed

\* _allocate_and_set_running: up to date and in the batch.
LEMMA AdmitKeeps ==
    ASSUME IInv, NEW r \in Requests, AllocateAndSetRunning(r)
    PROVE  IInv'
<1> DEFINE list == SeqsIn(r, "waiting")
           S == Listed(list)
<1>1. /\ fault = "none" /\ phase = "prefills" /\ phase' = phase /\ r \in Having("waiting")
      /\ status' = [s \in Seqs |-> IF s \in ToSet(list) THEN "running" ELSE status[s]]
      /\ batch' = batch \cup {r}
      /\ UNCHANGED <<length, prefill, trying, preempted, cached, maxSeqs>>
  BY DEF AllocateAndSetRunning, At, SetStatus
<1>2. PICK o \in Allocate(mgr, list, length) :
        mgr' = o.mgr /\ fault' = IF o.raised = "none" THEN "none" ELSE "allocate"
  BY DEF AllocateAndSetRunning, Call
<1>3. /\ list \in Seq(Seqs) /\ S = {s \in Ids(r) : status[s] = "waiting"} /\ ToSet(list) = S
      /\ S # {}
  BY <1>1, SeqsInAre
<1>4. Ids(r) \subseteq Seqs /\ SeqsOf[r][1] \in Ids(r)
  BY IdsAre
<1> HIDE DEF list, S
<1>5. Typed /\ RecordsKept /\ Settled(mgr.map, status, length, batch)
  BY <1>1 DEF IInv
<1>6. \A s \in Ids(r) : InLine(mgr.map, s, status[s], length[s], r, batch)
  BY <1>5 DEF Settled
<1>7. length \in [Seqs -> 0 .. MaxTokens - 1] /\ length \in [Seqs -> Nat] /\ MaxTokens \in Nat
  BY <1>5, LengthsAre DEF Typed
<1>8. \A s \in S : length[s] \in 1 .. MaxTokens /\ length[s] >= 1
  BY <1>3, <1>4, <1>6, <1>7 DEF InLine, Live
<1>9. PICK x : /\ Leaves(mgr, o, x)
               /\ o.raised = "none" => Moved(mgr.map, x, S) /\ HaveLengths(x, list, length)
  <2>1. IsManager(mgr) /\ MapOK(mgr.map)
    BY <1>5 DEF Typed
  <2>2. \A s \in Listed(list) : length[s] \in 1 .. MaxTokens
    BY <1>8 DEF S
  <2>3. \E x : /\ Leaves(mgr, o, x)
               /\ o.raised = "none" => /\ Moved(mgr.map, x, Listed(list))
                                       /\ HaveLengths(x, list, length)
    BY <1>2, <1>3, <2>1, <2>2, AllocateCall
  <2> QED BY <2>3 DEF S
<1>10. /\ IsManager(mgr') /\ MapOK(mgr'.map) /\ CpuTyped(mgr')
       /\ mgr'.map = x /\ mgr'.swapped = mgr.swapped
  BY <1>2, <1>5, <1>9, ManagerStays DEF Leaves
<1>11. \A s \in Seqs : status'[s] = IF s \in S THEN "running" ELSE status[s]
  BY <1>1, <1>3
<1>12. Typed'
  <2>1. status' \in [Seqs -> Statuses]
    BY <1>1, <1>5 DEF Typed, Statuses
  <2> QED BY <1>1, <1>5, <1>10, <2>1 DEF Typed
<1>13. RecordsKept'
  BY <1>1, <1>5, <1>10, <1>11, RecordsStay
<1>14. ASSUME o.raised = "none"
       PROVE  Settled(x, status', length', batch')
  <2>1. Mates(status, r) /\ FirstComes(status, r)
    BY <1>5 DEF Settled
  <2>2. /\ Mates(status', r) /\ FirstComes(status', r)
        /\ \A s \in Ids(r) \ S : status[s] \notin Live
    <3>1. "waiting" \in Live /\ "running" \in Statuses \ {"absent"}
      BY DEF Live, Statuses
    <3> QED BY <1>3, <1>11, <2>1, <3>1, QueueMoves
  <2>3. OnlyOf(r, S, status, status', length, length', batch, batch')
    BY <1>1, <1>3, <1>11, <2>2 DEF OnlyOf, Live
  <2>4. ASSUME NEW s \in S
        PROVE  InLine(x, s, status'[s], length'[s], r, batch')
    <3>1. x.length[s] = length[s] /\ Alone(x, s)
      BY <1>9, <1>14 DEF HaveLengths, S
    <3>2. status'[s] = "running" /\ length'[s] = length[s] /\ r \in batch'
      BY <1>1, <1>3, <1>4, <1>11
    <3> QED BY <1>8, <3>1, <3>2 DEF InLine
  <2>5. Moved(mgr.map, x, S)
    BY <1>9, <1>14
  <2> QED BY <1>5, <1>7, <2>2, <2>3, <2>4, <2>5, SettledStep
<1>15. fault' = "none" => o.raised = "none"
  BY <1>2
<1> QED BY <1>1, <1>10, <1>12, <1>13, <1>14, <1>15 DEF IInv

\* A prompt that can never be allocated is dropped.
LEMMA IgnoreKeeps ==
    ASSUME IInv, NEW r \in Requests, IgnoreSeqGroup(r)
    PROVE  IInv'
<1> DEFINE list == SeqsIn(r, "waiting")
           S == Listed(list)
<1>1. /\ fault = "none" /\ fault' = "none" /\ phase = "prefills" /\ phase' = phase
      /\ r \in Having("waiting") /\ mgr' = mgr /\ batch' = batch
      /\ status' = [s \in Seqs |-> IF s \in ToSet(list) THEN "finished" ELSE status[s]]
      /\ length' = [s \in Seqs |-> IF s \in ToSet(list) THEN 0 ELSE length[s]]
      /\ prefill' = prefill \ ToSet(list)
      /\ UNCHANGED <<trying, preempted, cached, maxSeqs>>
  BY DEF IgnoreSeqGroup, At, SetStatus, Forget
<1>2. /\ list \in Seq(Seqs) /\ S = {s \in Ids(r) : status[s] = "waiting"} /\ ToSet(list) = S
      /\ S # {}
  BY <1>1, SeqsInAre
<1>3. Ids(r) \subseteq Seqs
  BY IdsAre
<1> HIDE DEF list, S
<1>4. Typed /\ RecordsKept /\ Settled(mgr.map, status, length, batch)
  BY <1>1 DEF IInv
<1>5. \A s \in Ids(r) : InLine(mgr.map, s, status[s], length[s], r, batch)
  BY <1>4 DEF Settled
<1>6. \A s \in Seqs : /\ status'[s] = IF s \in S THEN "finished" ELSE status[s]
                      /\ length'[s] = IF s \in S THEN 0 ELSE length[s]
  BY <1>1, <1>2
<1>7. Typed'
  <2>1. status' \in [Seqs -> Statuses] /\ length' \in [Seqs -> 0 .. MaxTokens - 1]
    BY <1>1, <1>4, SizesAssumption DEF Typed, Statuses
  <2>2. prefill' \subseteq Seqs
    BY <1>1, <1>4 DEF Typed
  <2> QED BY <1>1, <1>4, <2>1, <2>2 DEF Typed
<1>8. RecordsKept'
  BY <1>1, <1>4, <1>6, RecordsStay
<1>9. OnlyOf(r, S, status, status', length, length', batch, batch)
  BY <1>2, <1>6 DEF OnlyOf
<1>10. Mates(status', r) /\ FirstComes(status', r)
  <2>1. Mates(status, r) /\ FirstComes(status, r)
    BY <1>4 DEF Settled
  <2>2. "waiting" \in Live /\ "finished" \in Statuses \ {"absent"}
    BY DEF Live, Statuses
  <2> QED BY <1>2, <1>6, <2>1, <2>2, QueueMoves
<1>11. \A s \in S : InLine(mgr.map, s, status'[s], length'[s], r, batch)
  BY <1>2, <1>3, <1>5, <1>6 DEF InLine, Live
<1>12. MapOK(mgr.map) /\ length \in [Seqs -> Nat]
  BY <1>4, LengthsAre DEF Typed
<1>13. Moved(mgr.map, mgr.map, S)
  BY <1>12, MovedNot
<1>14. Settled(mgr.map, status', length', batch)
  BY <1>4, <1>9, <1>10, <1>11, <1>12, <1>13, SettledStep
<1> QED BY <1>1, <1>4, <1>7, <1>8, <1>14 DEF IInv

\* _append_slots: the pending token gets its slot, and its block for itself.
LEMMA DecodeKeeps ==
    ASSUME IInv, NEW r \in Requests, ScheduleRunning(r)
    PROVE  IInv'
<1> DEFINE list == SeqsIn(r, "running")
           S == Listed(list)
<1>1. /\ fault = "none" /\ phase = "running" /\ phase' = phase
      /\ r \in Having("running") /\ r \notin batch
      /\ batch' = batch \cup {r} /\ trying' = {}
      /\ UNCHANGED <<status, length, prefill, preempted, cached, maxSeqs>>
  BY DEF ScheduleRunning, At, Queued
<1>2. PICK o \in AppendSlots(mgr, list, length) :
        mgr' = o.mgr /\ fault' = IF o.raised = "none" THEN "none" ELSE "append"
  BY DEF ScheduleRunning, Call
<1>3. list \in Seq(Seqs) /\ S = {s \in Ids(r) : status[s] = "running"}
  BY SeqsInAre
<1>4. Ids(r) \subseteq Seqs
  BY IdsAre
<1> HIDE DEF list, S
<1>5. Typed /\ RecordsKept /\ Settled(mgr.map, status, length, batch)
  BY <1>1 DEF IInv
<1>6. \A s \in Ids(r) : InLine(mgr.map, s, status[s], length[s], r, batch)
  BY <1>5 DEF Settled
<1>7. length \in [Seqs -> 0 .. MaxTokens - 1] /\ length \in [Seqs -> Nat] /\ MaxTokens \in Nat
  BY <1>5, LengthsAre DEF Typed
<1>8. \A s \in S : /\ mgr.map.length[s] > 0 /\ length[s] = mgr.map.length[s] + 1
                   /\ length[s] <= MaxTokens /\ length[s] >= 1
  <2> SUFFICES ASSUME NEW s \in S
               PROVE  /\ mgr.map.length[s] > 0 /\ length[s] = mgr.map.length[s] + 1
                      /\ length[s] <= MaxTokens /\ length[s] >= 1
    OBVIOUS
  <2>1. mgr.map.length[s] = length[s] - 1 /\ length[s] >= 2
    BY <1>1, <1>3, <1>6 DEF InLine
  <2>2. length[s] \in 0 .. MaxTokens - 1
    BY <1>3, <1>4, <1>7
  <2> QED BY <1>7, <2>1, <2>2
<1>9. PICK x : /\ Leaves(mgr, o, x)
               /\ o.raised = "none" => Moved(mgr.map, x, S) /\ HaveLengths(x, list, length)
  <2>1. IsManager(mgr) /\ MapOK(mgr.map)
    BY <1>5 DEF Typed
  <2>2. Behind(mgr.map, list, length)
    BY <1>8 DEF Behind, S
  <2>3. \E x : /\ Leaves(mgr, o, x)
               /\ o.raised = "none" => /\ Moved(mgr.map, x, Listed(list))
                                       /\ HaveLengths(x, list, length)
                                       /\ HaveEvicted(x, list, mgr.map.evicted)
    BY <1>2, <1>3, <2>1, <2>2, AppendCall
  <2> QED BY <2>3 DEF S
<1>10. /\ IsManager(mgr') /\ MapOK(mgr'.map) /\ CpuTyped(mgr')
       /\ mgr'.map = x /\ mgr'.swapped = mgr.swapped
  BY <1>2, <1>5, <1>9, ManagerStays DEF Leaves
<1>11. Typed'
  BY <1>1, <1>5, <1>10 DEF Typed
<1>12. RecordsKept'
  BY <1>1, <1>5, <1>10, RecordsStay
<1>13. ASSUME o.raised = "none"
       PROVE  Settled(x, status', length', batch')
  <2>1. Mates(status', r) /\ FirstComes(status', r)
    BY <1>1, <1>5 DEF Settled
  <2>2. OnlyOf(r, S, status, status', length, length', batch, batch')
    BY <1>1, <1>3 DEF OnlyOf
  <2>3. ASSUME NEW s \in S
        PROVE  InLine(x, s, status'[s], length'[s], r, batch')
    <3>1. x.length[s] = length[s] /\ Alone(x, s)
      BY <1>9, <1>13 DEF HaveLengths, S
    <3>2. status'[s] = "running" /\ length'[s] = length[s] /\ r \in batch'
      BY <1>1, <1>3
    <3> QED BY <1>8, <3>1, <3>2 DEF InLine
  <2>4. Moved(mgr.map, x, S)
    BY <1>9, <1>13
  <2> QED BY <1>5, <1>7, <2>1, <2>2, <2>3, <2>4, SettledStep
<1>14. fault' = "none" => o.raised = "none"
  BY <1>2
<1> QED BY <1>1, <1>10, <1>11, <1>12, <1>13, <1>14 DEF IInv

\* The queue of a group that is preempted, before and after its blocks are gone.
LEMMA PreemptedSettle ==
    ASSUME Typed, Settled(mgr.map, status, length, batch), NEW v \in Requests, v \notin batch,
           v \in Having("running"),
           NEW S, S = {s \in Ids(v) : status[s] = "running"},
           NEW x, Moved(mgr.map, x, S), \A s \in S : x.length[s] = 0,
           NEW new \in {"waiting", "swapped"},
           \A s \in Seqs : status'[s] = IF s \in S THEN new ELSE status[s]
    PROVE  Settled(x, status', length, batch)
<1>1. Ids(v) \subseteq Seqs /\ S # {}
  BY IdsAre, SeqsInAre
<1>2. Mates(status', v) /\ FirstComes(status', v)
  <2>1. Mates(status, v) /\ FirstComes(status, v)
    BY DEF Settled
  <2>2. "running" \in Live /\ new \in Statuses \ {"absent"}
    BY DEF Live, Statuses
  <2> QED BY <1>1, <2>1, <2>2, QueueMoves
<1>3. OnlyOf(v, S, status, status', length, length, batch, batch)
  BY DEF OnlyOf
<1>4. ASSUME NEW s \in S
      PROVE  InLine(x, s, status'[s], length[s], v, batch)
  <2>1. InLine(mgr.map, s, status[s], length[s], v, batch) /\ status[s] = "running"
    BY DEF Settled
  <2>2. status'[s] = new /\ x.length[s] = 0 /\ length[s] \in Nat
    BY <1>1, LengthsAre
  <2> QED BY <2>1, <2>2 DEF InLine
<1>5. length \in [Seqs -> Nat]
  BY LengthsAre
<1> QED BY <1>2, <1>3, <1>4, <1>5, SettledStep

\* _preempt, by either mode: the map forgets what the queue gets back.
LEMMA PreemptKeeps ==
    ASSUME IInv, NEW r \in Requests, NEW v \in Requests, Preempt(r, v)
    PROVE  IInv'
<1> DEFINE list == SeqsIn(v, "running")
           S == Listed(list)
<1>1. /\ fault = "none" /\ phase = "running" /\ phase' = phase
      /\ v \in Having("running") /\ v \notin batch /\ trying' \subseteq Requests
      /\ batch' = batch /\ length' = length
      /\ preempted' = TRUE /\ UNCHANGED <<cached, maxSeqs>>
      /\ PreemptByRecompute(v) \/ PreemptBySwap(v)
  <2>1. v \in Queued
    BY DEF Preempt, Victims
  <2> QED BY <2>1 DEF Preempt, At, Queued
<1>2. list \in Seq(Seqs) /\ S = {s \in Ids(v) : status[s] = "running"} /\ ToSet(list) = S
  BY SeqsInAre
<1>3. Ids(v) \subseteq Seqs
  BY IdsAre
<1>4. Typed /\ RecordsKept /\ Settled(mgr.map, status, length, batch)
  BY <1>1 DEF IInv
<1>5. IsManager(mgr) /\ MapOK(mgr.map) /\ CpuTyped(mgr)
  BY <1>4 DEF Typed
<1>6. CASE fault' # "none" /\ UNCHANGED <<mgr, status, prefill>>
  <2>1. Typed'
    BY <1>1, <1>4, <1>6 DEF Typed
  <2>2. RecordsKept'
    BY <1>1, <1>4, <1>6 DEF RecordsKept
  <2> QED BY <1>6, <2>1, <2>2 DEF IInv
<1>7. CASE /\ mgr' = Free(mgr, list) /\ SetStatus(list, "waiting")
           /\ prefill' = prefill \cup ToSet(list) /\ fault' = fault
  <2> HIDE DEF list, S
  <2>1. PICK x : /\ mgr' = Remapped(mgr, x) /\ MapOK(x) /\ Moved(mgr.map, x, S)
                 /\ \A s \in S : x.length[s] = 0
    <3>1. \E x : /\ Free(mgr, list) = Remapped(mgr, x) /\ MapOK(x)
                 /\ Moved(mgr.map, x, Listed(list))
                 /\ \A s \in Listed(list) : x.length[s] = 0
      BY <1>2, <1>5, FreeCall
    <3> QED BY <1>7, <3>1 DEF S
  <2>2. /\ IsManager(mgr') /\ MapOK(mgr'.map) /\ CpuTyped(mgr')
        /\ mgr'.map = x /\ mgr'.swapped = mgr.swapped
    BY <1>4, <2>1, ManagerStays
  <2>3. /\ status' = [s \in Seqs |-> IF s \in S THEN "waiting" ELSE status[s]]
        /\ \A s \in Seqs : status'[s] = IF s \in S THEN "waiting" ELSE status[s]
    BY <1>2, <1>7 DEF SetStatus
  <2>4. Typed'
    <3>1. status' \in [Seqs -> Statuses]
      BY <1>4, <2>3 DEF Typed, Statuses
    <3>2. prefill' \subseteq Seqs
      BY <1>2, <1>3, <1>4, <1>7 DEF Typed
    <3> QED BY <1>1, <1>4, <2>2, <3>1, <3>2 DEF Typed
  <2>5. RecordsKept'
    BY <1>1, <1>4, <2>2, <2>3, RecordsStay
  <2>6. Settled(x, status', length, batch)
    BY <1>1, <1>2, <1>4, <2>1, <2>3, PreemptedSettle
  <2> QED BY <1>1, <2>2, <2>4, <2>5, <2>6 DEF IInv
<1>8. CASE /\ mgr' \in SwapOut(mgr, list) /\ SetStatus(list, "swapped")
           /\ prefill' = prefill /\ fault' = fault
  <2> HIDE DEF list, S
  <2>1. PICK x : x = mgr'.map
    OBVIOUS
  <2>2. /\ IsManager(mgr') /\ MapOK(x) /\ CpuTyped(mgr') /\ Moved(mgr.map, x, S)
        /\ \A s \in S : x.length[s] = 0
        /\ DOMAIN mgr'.swapped = DOMAIN mgr.swapped \cup S
        /\ \A s \in DOMAIN mgr.swapped \ S : mgr'.swapped[s] = mgr.swapped[s]
        /\ \A s \in S : Records(mgr'.swapped[s], mgr.map.length[s], mgr.map.evicted[s])
    BY <1>2, <1>5, <1>8, <2>1, SwapOutCall DEF S
  <2>3. /\ status' = [s \in Seqs |-> IF s \in S THEN "swapped" ELSE status[s]]
        /\ \A s \in Seqs : status'[s] = IF s \in S THEN "swapped" ELSE status[s]
    BY <1>2, <1>8 DEF SetStatus
  <2>4. Typed'
    <3>1. status' \in [Seqs -> Statuses]
      BY <1>4, <2>3 DEF Typed, Statuses
    <3> QED BY <1>1, <1>4, <1>8, <2>1, <2>2, <3>1 DEF Typed
  <2>5. RecordsKept'
    <3> SUFFICES ASSUME NEW s \in Seqs, status'[s] = "swapped"
                 PROVE  HasRecord(mgr', s, length[s])
      BY <1>1 DEF RecordsKept
    <3>1. CASE s \in S
      <4>1. mgr.map.length[s] = length[s] - 1 /\ length[s] >= 2 /\ length[s] \in Nat
        <5>1. InLine(mgr.map, s, status[s], length[s], v, batch)
          BY <1>2, <1>4, <3>1 DEF Settled
        <5> QED BY <1>1, <1>2, <1>4, <3>1, <5>1, LengthsAre DEF InLine
      <4>2. mgr.map.evicted[s] \in Nat
            /\ mgr.map.evicted[s] < NumLogicalBlocks(mgr.map.length[s])
        BY <1>5, <4>1, SequenceFacts
      <4>3. Records(mgr'.swapped[s], length[s] - 1, mgr.map.evicted[s])
            /\ s \in DOMAIN mgr'.swapped
        BY <2>2, <3>1, <4>1
      <4>4. mgr'.swapped[s].evicted = mgr.map.evicted[s]
        BY <4>3 DEF Records
      <4> QED BY <4>1, <4>2, <4>3, <4>4 DEF HasRecord
    <3>2. CASE s \notin S
      <4>1. status[s] = "swapped"
        BY <2>3, <3>2
      <4>2. HasRecord(mgr, s, length[s])
        BY <1>4, <4>1 DEF RecordsKept
      <4>3. s \in DOMAIN mgr'.swapped /\ mgr'.swapped[s] = mgr.swapped[s]
        BY <2>2, <3>2, <4>2 DEF HasRecord
      <4> QED BY <4>2, <4>3 DEF HasRecord
    <3> QED BY <3>1, <3>2
  <2>6. Settled(x, status', length, batch)
    BY <1>1, <1>2, <1>4, <2>2, <2>3, PreemptedSettle
  <2> QED BY <1>1, <2>1, <2>4, <2>5, <2>6 DEF IInv
<1>9. \/ fault' # "none" /\ UNCHANGED <<mgr, status, prefill>>
      \/ /\ mgr' = Free(mgr, list) /\ SetStatus(list, "waiting")
         /\ prefill' = prefill \cup ToSet(list) /\ fault' = fault
      \/ /\ mgr' \in SwapOut(mgr, list) /\ SetStatus(list, "swapped")
         /\ prefill' = prefill /\ fault' = fault
  <2>1. CASE PreemptByRecompute(v)
    BY <2>1 DEF PreemptByRecompute
  <2>2. CASE PreemptBySwap(v)
    BY <2>2 DEF PreemptBySwap
  <2> QED BY <1>1, <2>1, <2>2
<1> QED BY <1>6, <1>7, <1>8, <1>9

\* What comes back is what left, and one token more.
Returns ==
    \A s \in Seqs : status[s] = "swapped" /\ status'[s] = "running" /\ fault' = "none"
      => /\ mgr'.map.evicted[s] = mgr.swapped[s].evicted
         /\ mgr'.map.length[s] = mgr.swapped[s].length + 1

\* _swap_in and _append_slots after it.
LEMMA SwappedKeeps ==
    ASSUME IInv, NEW r \in Requests, ScheduleSwapped(r)
    PROVE  IInv' /\ Returns
<1> DEFINE list == SeqsIn(r, "swapped")
           S == Listed(list)
<1>1. /\ fault = "none" /\ phase = "swapped" /\ phase' = phase /\ r \in Having("swapped")
      /\ batch' = batch \cup {r}
      /\ UNCHANGED <<length, prefill, trying, preempted, cached, maxSeqs>>
  BY DEF ScheduleSwapped, At
<1>2. PICK o \in SwapIn(mgr, list) :
        IF o.raised = "none"
        THEN /\ \E p \in AppendSlots(o.mgr, list, length) : Call(p, "append after swap-in")
             /\ SetStatus(list, "running")
        ELSE Call(o, "swap_in") /\ status' = status
  BY DEF ScheduleSwapped
<1>3. /\ list \in Seq(Seqs) /\ S = {s \in Ids(r) : status[s] = "swapped"} /\ ToSet(list) = S
      /\ S # {}
  BY <1>1, SeqsInAre
<1>4. Ids(r) \subseteq Seqs
  BY IdsAre
<1> HIDE DEF list, S
<1>5. Typed /\ RecordsKept /\ Settled(mgr.map, status, length, batch)
  BY <1>1 DEF IInv
<1>6. IsManager(mgr) /\ MapOK(mgr.map) /\ CpuTyped(mgr)
  BY <1>5 DEF Typed
<1>7. length \in [Seqs -> 0 .. MaxTokens - 1] /\ length \in [Seqs -> Nat] /\ MaxTokens \in Nat
  BY <1>5, LengthsAre DEF Typed
<1>8. \A s \in S : /\ s \in DOMAIN mgr.swapped
                   /\ mgr.swapped[s].length = length[s] - 1
                   /\ length[s] >= 2 /\ length[s] \in Nat /\ length[s] <= MaxTokens
                   /\ mgr.swapped[s].evicted \in Nat
                   /\ mgr.swapped[s].evicted < NumLogicalBlocks(length[s] - 1)
  <2> SUFFICES ASSUME NEW s \in S
               PROVE  /\ s \in DOMAIN mgr.swapped
                      /\ mgr.swapped[s].length = length[s] - 1
                      /\ length[s] >= 2 /\ length[s] \in Nat /\ length[s] <= MaxTokens
                      /\ mgr.swapped[s].evicted \in Nat
                      /\ mgr.swapped[s].evicted < NumLogicalBlocks(length[s] - 1)
    OBVIOUS
  <2>1. HasRecord(mgr, s, length[s])
    BY <1>3, <1>4, <1>5 DEF RecordsKept
  <2>2. length[s] \in 0 .. MaxTokens - 1
    BY <1>3, <1>4, <1>7
  <2> QED BY <1>7, <2>1, <2>2 DEF HasRecord, Records
<1>9. Recorded(mgr, list)
  <2> SUFFICES ASSUME NEW s \in S
               PROVE  /\ s \in DOMAIN mgr.swapped
                      /\ mgr.swapped[s].length \in 1 .. MaxTokens /\ mgr.swapped[s].evicted \in Nat
                      /\ mgr.swapped[s].evicted < NumLogicalBlocks(mgr.swapped[s].length)
    BY DEF Recorded, S
  <2> QED BY <1>7, <1>8
<1>10. /\ IsManager(o.mgr) /\ MapOK(o.mgr.map) /\ CpuTyped(o.mgr)
       /\ IF o.raised = "none"
          THEN Restored(mgr, o.mgr, list)
          ELSE o.mgr.swapped = mgr.swapped
  BY <1>2, <1>3, <1>6, <1>9, SwapInCall
<1>11. CASE o.raised # "none"
  <2>1. mgr' = o.mgr /\ fault' # "none" /\ status' = status
    BY <1>2, <1>11 DEF Call
  <2>2. Typed'
    BY <1>1, <1>5, <1>10, <2>1 DEF Typed
  <2>3. RecordsKept'
    BY <1>1, <1>5, <1>10, <1>11, <2>1, RecordsStay
  <2> QED BY <2>1, <2>2, <2>3 DEF IInv, Returns
<1>12. CASE o.raised = "none"
  <2>1. PICK p \in AppendSlots(o.mgr, list, length) :
          mgr' = p.mgr /\ fault' = IF p.raised = "none" THEN "none" ELSE "append after swap-in"
    BY <1>2, <1>12 DEF Call
  <2>2. /\ status' = [s \in Seqs |-> IF s \in S THEN "running" ELSE status[s]]
        /\ \A s \in Seqs : status'[s] = IF s \in S THEN "running" ELSE status[s]
    BY <1>2, <1>3, <1>12 DEF SetStatus
  <2>3. PICK m : m = o.mgr.map
    OBVIOUS
  <2>4. /\ Moved(mgr.map, m, S)
        /\ \A s \in S : m.length[s] = mgr.swapped[s].length /\ m.evicted[s] = mgr.swapped[s].evicted
        /\ \A s \in DOMAIN mgr.swapped \ S :
             s \in DOMAIN o.mgr.swapped /\ o.mgr.swapped[s] = mgr.swapped[s]
    BY <1>10, <1>12, <2>3 DEF Restored, S
  <2>5. Behind(m, list, length)
    <3> SUFFICES ASSUME NEW s \in S
                 PROVE  m.length[s] > 0 /\ length[s] = m.length[s] + 1 /\ length[s] <= MaxTokens
      BY DEF Behind, S
    <3> QED BY <1>8, <2>4
  <2>6. PICK x : /\ Leaves(o.mgr, p, x)
                 /\ p.raised = "none" => /\ Moved(m, x, S) /\ HaveLengths(x, list, length)
                                         /\ HaveEvicted(x, list, m.evicted)
    <3>1. \E x : /\ Leaves(o.mgr, p, x)
                 /\ p.raised = "none" => /\ Moved(o.mgr.map, x, Listed(list))
                                         /\ HaveLengths(x, list, length)
                                         /\ HaveEvicted(x, list, o.mgr.map.evicted)
      BY <1>3, <1>10, <2>1, <2>3, <2>5, AppendCall
    <3> QED BY <2>3, <3>1 DEF S
  <2>7. /\ IsManager(mgr') /\ MapOK(mgr'.map) /\ CpuTyped(mgr')
        /\ mgr'.map = x /\ mgr'.swapped = o.mgr.swapped
    <3>1. mgr' = Remapped(o.mgr, x) /\ MapOK(x)
      BY <2>1, <2>6 DEF Leaves
    <3>2. mgr'.map = x /\ mgr'.swapped = o.mgr.swapped /\ IsManager(mgr')
      BY <3>1 DEF Remapped, IsManager
    <3>3. CpuTyped(mgr')
      BY <1>10, <3>1, RemappedCpu
    <3> QED BY <3>1, <3>2, <3>3
  <2>8. Typed'
    <3>1. status' \in [Seqs -> Statuses]
      BY <1>5, <2>2 DEF Typed, Statuses
    <3> QED BY <1>1, <1>5, <2>7, <3>1 DEF Typed
  <2>9. RecordsKept'
    <3> SUFFICES ASSUME NEW s \in Seqs, status'[s] = "swapped"
                 PROVE  HasRecord(mgr', s, length[s])
      BY <1>1 DEF RecordsKept
    <3>1. s \notin S /\ status[s] = "swapped"
      BY <2>2
    <3>2. HasRecord(mgr, s, length[s])
      BY <1>5, <3>1 DEF RecordsKept
    <3>3. s \in DOMAIN mgr'.swapped /\ mgr'.swapped[s] = mgr.swapped[s]
      BY <2>4, <2>7, <3>1, <3>2 DEF HasRecord
    <3> QED BY <3>2, <3>3 DEF HasRecord
  <2>10. ASSUME p.raised = "none"
         PROVE  Settled(x, status', length', batch')
    <3>1. Mates(status, r) /\ FirstComes(status, r)
      BY <1>5 DEF Settled
    <3>2. /\ Mates(status', r) /\ FirstComes(status', r)
          /\ \A s \in Ids(r) \ S : status[s] \notin Live
      <4>1. "swapped" \in Live /\ "running" \in Statuses \ {"absent"}
        BY DEF Live, Statuses
      <4> QED BY <1>3, <2>2, <3>1, <4>1, QueueMoves
    <3>3. OnlyOf(r, S, status, status', length, length', batch, batch')
      BY <1>1, <1>3, <2>2, <3>2 DEF OnlyOf, Live
    <3>4. ASSUME NEW s \in S
          PROVE  InLine(x, s, status'[s], length'[s], r, batch')
      <4>1. x.length[s] = length[s] /\ Alone(x, s)
        BY <2>6, <2>10 DEF HaveLengths, S
      <4>2. status'[s] = "running" /\ length'[s] = length[s] /\ r \in batch'
        BY <1>1, <1>3, <1>4, <2>2
      <4> QED BY <1>8, <4>1, <4>2 DEF InLine
    <3>5. Moved(mgr.map, x, S)
      <4>1. S \cup S \subseteq S /\ Moved(m, x, S)
        BY <2>6, <2>10
      <4> QED BY <2>4, <4>1, MovedTwice
    <3> QED BY <1>5, <1>7, <3>2, <3>3, <3>4, <3>5, SettledStep
  <2>11. fault' = "none" => p.raised = "none"
    BY <2>1
  <2>12. Returns
    <3> SUFFICES ASSUME NEW s \in Seqs, status[s] = "swapped", status'[s] = "running",
                        fault' = "none"
                 PROVE  /\ mgr'.map.evicted[s] = mgr.swapped[s].evicted
                        /\ mgr'.map.length[s] = mgr.swapped[s].length + 1
      BY DEF Returns
    <3>1. s \in S
      BY <2>2
    <3>2. x.length[s] = length[s] /\ x.evicted[s] = m.evicted[s]
      BY <2>6, <2>11, <3>1 DEF HaveLengths, HaveEvicted, S
    <3> QED BY <1>8, <2>4, <2>7, <3>1, <3>2
  <2> QED BY <1>1, <2>7, <2>8, <2>9, <2>10, <2>11, <2>12 DEF IInv
<1> QED BY <1>11, <1>12

\* SetToSeq lists a set of sequences.
LEMMA SetToSeqIs ==
    ASSUME NEW S \in SUBSET Seqs
    PROVE  SetToSeq(S) \in Seq(Seqs) /\ Listed(SetToSeq(S)) \subseteq S
<1>1. IsFiniteSet(S)
  BY FS_Subset, FiniteAssumption
<1>2. PICK n \in Nat : ExistsBijection(1 .. n, S)
  BY <1>1, FS_NatBijection
<1>3. Cardinality(S) = n
  BY <1>1, <1>2, FS_CountingElements
<1>4. PICK f : f \in Bijection(1 .. n, S)
  BY <1>2 DEF ExistsBijection
<1>5. f \in [1 .. n -> S] /\ IsInjective(f)
  BY <1>4 DEF Bijection, Injection, Surjection, IsInjective
<1>6. SetToSeq(S) \in [1 .. n -> S]
  BY <1>3, <1>5 DEF SetToSeq
<1>7. PICK list : list = SetToSeq(S)
  OBVIOUS
<1>8. list \in Seq(Seqs) /\ Len(list) = n
  BY <1>6, <1>7
<1>9. Listed(list) \subseteq S
  BY <1>6, <1>7, <1>8 DEF Listed, Firsts
<1> QED BY <1>7, <1>8, <1>9

\* What a step of the scheduler leaves, when the batch, the statuses and the
\* lengths stay: sequences S of the batch keep their length and their last block.
LEMMA BatchStays ==
    ASSUME Typed, Settled(mgr.map, status, length, batch), NEW S, NEW x, Moved(mgr.map, x, S),
           \A s \in S : /\ x.length[s] = mgr.map.length[s]
                        /\ Alone(mgr.map, s) => Alone(x, s)
    PROVE  Settled(x, status, length, batch)
<1>1. \A s \in Seqs : x.length[s] = mgr.map.length[s]
  BY DEF Moved
<1>2. NoTemps(x) /\ Strangers(x, status)
  BY <1>1 DEF Settled, Strangers, Moved
<1>3. ASSUME NEW r \in Requests, NEW s \in Ids(r)
      PROVE  InLine(x, s, status[s], length[s], r, batch)
  <2>1. InLine(mgr.map, s, status[s], length[s], r, batch)
    BY <1>3 DEF Settled
  <2>2. s \in Seqs
    BY <1>3, IdsAre
  <2>3. PICK n \in Nat : n = length[s]
    BY <2>2, LengthsAre
  <2>4. Alone(mgr.map, s) /\ mgr.map.length[s] > 0 => Alone(x, s)
    BY <2>2 DEF Moved
  <2>5. status[s] = "running" /\ r \in batch => mgr.map.length[s] = n /\ n > 0
    BY <2>1, <2>3 DEF InLine, Live
  <2> QED BY <1>1, <2>1, <2>2, <2>3, <2>4, <2>5 DEF InLine
<1> QED BY <1>2, <1>3 DEF Settled

\* The running sequences of requests G.
Running(G) == UNION {ToSet(SeqsIn(r, "running")) : r \in G}

\* The sequences of the batch are in the map, up to date.
LEMMA RunningAre ==
    ASSUME IInv, fault = "none", NEW G \in SUBSET batch
    PROVE  /\ Running(G) \subseteq Present(mgr.map) /\ Running(G) \subseteq Seqs
           /\ \A s \in Running(G) : mgr.map.length[s] > 0 /\ length[s] = mgr.map.length[s]
<1>1. Typed /\ Settled(mgr.map, status, length, batch)
  BY DEF IInv
<1>2. ASSUME NEW s \in Running(G)
      PROVE  s \in Seqs /\ mgr.map.length[s] > 0 /\ length[s] = mgr.map.length[s]
  <2>1. PICK r \in G : s \in ToSet(SeqsIn(r, "running"))
    BY DEF Running
  <2>2. r \in Requests /\ r \in batch
    BY <1>1 DEF Typed
  <2>3. s \in Ids(r) /\ status[s] = "running" /\ s \in Seqs
    BY <2>1, <2>2, SeqsInAre, IdsAre
  <2>4. InLine(mgr.map, s, status[s], length[s], r, batch)
    BY <1>1, <2>2, <2>3 DEF Settled
  <2>5. length[s] \in Nat
    BY <1>1, <2>3, LengthsAre
  <2> QED BY <2>2, <2>3, <2>4, <2>5 DEF InLine, Live
<1> QED BY <1>2 DEF Present

\* Eviction to the cache ratio and the plans of partial recomputes, for the batch.
LEMMA MetadataKeeps ==
    ASSUME IInv, BuildMetadata
    PROVE  IInv'
<1>1. /\ fault = "none" /\ phase' \in {"idle", "executing"} /\ (phase' = "idle" => batch = {})
      /\ preempted' = FALSE /\ cached' = NumLayers /\ maxSeqs' = MaxNumSeqs
      /\ UNCHANGED <<status, length, prefill, batch, trying>>
  BY DEF BuildMetadata, At
<1>2. Typed /\ RecordsKept /\ Settled(mgr.map, status, length, batch)
  BY <1>1 DEF IInv
<1>3. PICK D \in SUBSET batch, G \in SUBSET batch :
        \E o \in EvictToCachedLayerRatio(mgr, SetToSeq(Running(G)), length, cached) :
          \/ o.raised # "none" /\ Call(o, "evict")
          \/ mgr' = o.mgr /\ fault' # "none"
          \/ G = D /\ o.raised = "none"
             /\ \E p \in BuildPartialRecomputePlans(o.mgr, Running(D)) : Call(p, "plans")
          \/ G = D /\ o.raised = "none" /\ Call(o, "evict")
  <2> DEFINE decoding == {r \in batch : ~IsPrefill(r)}
             wide == {r \in batch \ decoding : Len(Members(r)) > 1}
  <2>1. PICK G \in IF wide = {} THEN {decoding} ELSE SUBSET decoding :
             \E o \in EvictToCachedLayerRatio(mgr, SetToSeq(Running(G)), length, cached) :
               IF o.raised # "none"
               THEN Call(o, "evict")
               ELSE IF wide # {}
               THEN mgr' = o.mgr /\ fault' = "prefill of several sequences"
               ELSE IF \E s \in Running(decoding) : o.mgr.map.evicted[s] > 0
               THEN \E p \in BuildPartialRecomputePlans(o.mgr, Running(decoding)) :
                      Call(p, "plans")
               ELSE Call(o, "evict")
    BY DEF BuildMetadata, Running
  <2>2. decoding \in SUBSET batch
    OBVIOUS
  <2> HIDE DEF decoding, wide
  <2>3. G \in SUBSET decoding /\ (wide = {} => G = decoding)
    BY <2>1
  <2>4. PICK o \in EvictToCachedLayerRatio(mgr, SetToSeq(Running(G)), length, cached) :
               IF o.raised # "none"
               THEN Call(o, "evict")
               ELSE IF wide # {}
               THEN mgr' = o.mgr /\ fault' = "prefill of several sequences"
               ELSE IF \E s \in Running(decoding) : o.mgr.map.evicted[s] > 0
               THEN \E p \in BuildPartialRecomputePlans(o.mgr, Running(decoding)) :
                      Call(p, "plans")
               ELSE Call(o, "evict")
    BY <2>1
  <2>5. \/ o.raised # "none" /\ Call(o, "evict")
        \/ mgr' = o.mgr /\ fault' # "none"
        \/ G = decoding /\ o.raised = "none"
           /\ \E p \in BuildPartialRecomputePlans(o.mgr, Running(decoding)) : Call(p, "plans")
        \/ G = decoding /\ o.raised = "none" /\ Call(o, "evict")
    BY <2>3, <2>4
  <2>6. G \in SUBSET batch
    BY <2>2, <2>3
  <2> QED BY <2>2, <2>4, <2>5, <2>6
<1>4. PICK o \in EvictToCachedLayerRatio(mgr, SetToSeq(Running(G)), length, cached) :
          \/ o.raised # "none" /\ Call(o, "evict")
          \/ mgr' = o.mgr /\ fault' # "none"
          \/ G = D /\ o.raised = "none"
             /\ \E p \in BuildPartialRecomputePlans(o.mgr, Running(D)) : Call(p, "plans")
          \/ G = D /\ o.raised = "none" /\ Call(o, "evict")
  BY <1>3
<1> DEFINE list == SetToSeq(Running(G))
<1>5. /\ Running(G) \subseteq Seqs
      /\ \A s \in Running(G) : mgr.map.length[s] > 0 /\ length[s] = mgr.map.length[s]
  BY <1>1, RunningAre
<1>6. list \in Seq(Seqs) /\ Listed(list) \subseteq Running(G)
  BY <1>5, SetToSeqIs
<1> HIDE DEF list
<1>7. PICK x : /\ Leaves(mgr, o, x)
               /\ o.raised = "none" =>
                    /\ Moved(mgr.map, x, Listed(list))
                    /\ \A s \in Listed(list) : /\ x.length[s] = mgr.map.length[s]
                                               /\ Alone(mgr.map, s) => Alone(x, s)
  <2>1. IsManager(mgr) /\ MapOK(mgr.map) /\ cached \in Int
    BY <1>2, ManagerAssumption DEF Typed
  <2>2. UpToDate(mgr.map, list, length)
    BY <1>5, <1>6 DEF UpToDate
  <2>3. o \in EvictToCachedLayerRatio(mgr, list, length, cached)
    BY DEF list
  <2>4. \E x : /\ Leaves(mgr, o, x)
               /\ o.raised = "none" =>
                    /\ Moved(mgr.map, x, Listed(list))
                    /\ \A s \in Listed(list) : /\ x.length[s] = mgr.map.length[s]
                                               /\ Alone(mgr.map, s) => Alone(x, s)
    BY <1>6, <2>1, <2>2, <2>3, EvictCall
  <2> QED BY <2>4
<1>8. MapOK(x) /\ o.mgr = Remapped(mgr, x)
  BY <1>7 DEF Leaves
<1>9. o.raised = "none" => Settled(x, status, length, batch)
  <2> SUFFICES ASSUME o.raised = "none" PROVE Settled(x, status, length, batch)
    OBVIOUS
  <2>1. /\ Moved(mgr.map, x, Listed(list))
        /\ \A s \in Listed(list) : /\ x.length[s] = mgr.map.length[s]
                                   /\ Alone(mgr.map, s) => Alone(x, s)
    BY <1>7
  <2> QED BY <1>2, <2>1, BatchStays
<1>10. mgr' = Remapped(mgr, x) /\ (fault' = "none" => o.raised = "none")
  <2>1. CASE Call(o, "evict")
    BY <1>8, <2>1 DEF Call
  <2>2. CASE mgr' = o.mgr /\ fault' # "none"
    BY <1>8, <2>2
  <2>3. CASE /\ G = D /\ o.raised = "none"
             /\ \E p \in BuildPartialRecomputePlans(o.mgr, Running(D)) : Call(p, "plans")
    <3>1. PICK p \in BuildPartialRecomputePlans(o.mgr, Running(D)) : Call(p, "plans")
      BY <2>3
    <3>2. PICK n : n = o.mgr
      OBVIOUS
    <3>3. IsManager(n) /\ n.map = x /\ Remapped(n, x) = n
      <4>1. IsManager(mgr)
        BY <1>2 DEF Typed
      <4> QED BY <1>8, <3>2, <4>1 DEF IsManager, Remapped
    <3>4. Running(D) \in SUBSET Present(x)
      <4>1. Running(D) \subseteq Seqs
        BY <1>1, RunningAre
      <4>2. ASSUME NEW s \in Running(D) PROVE x.length[s] > 0
        <5>1. s \in Seqs /\ mgr.map.length[s] > 0
          BY <1>1, RunningAre
        <5>2. x.length[s] = mgr.map.length[s]
          BY <1>7, <2>3, <5>1 DEF Moved
        <5> QED BY <5>1, <5>2
      <4> QED BY <4>1, <4>2 DEF Present
    <3>5. Leaves(n, p, n.map)
      <4>1. MapOK(n.map) /\ Running(D) \in SUBSET Present(n.map)
        BY <1>8, <3>3, <3>4
      <4>2. p \in BuildPartialRecomputePlans(n, Running(D))
        BY <3>1, <3>2
      <4> QED BY <3>3, <4>1, <4>2, BuildCall
    <3>6. p.mgr = n
      BY <3>3, <3>5 DEF Leaves
    <3> QED BY <1>8, <2>3, <3>1, <3>2, <3>6 DEF Call
  <2> QED BY <1>4, <2>1, <2>2, <2>3
<1>11. /\ IsManager(mgr') /\ MapOK(mgr'.map) /\ CpuTyped(mgr')
       /\ mgr'.map = x /\ mgr'.swapped = mgr.swapped
  BY <1>2, <1>8, <1>10, ManagerStays
<1>12. Typed'
  <2>1. NumLayers \in 0 .. NumLayers /\ MaxNumSeqs \in 1 .. MaxNumSeqs
    BY ManagerAssumption, SchedulerAssumption
  <2> QED BY <1>1, <1>2, <1>11, <2>1 DEF Typed
<1>13. RecordsKept'
  BY <1>1, <1>2, <1>11, RecordsStay
<1> QED BY <1>1, <1>9, <1>10, <1>11, <1>12, <1>13 DEF IInv

\* The first sequences of a list.
LEMMA SubSeqIs ==
    ASSUME NEW list \in Seq(Seqs), NEW n \in 0 .. Len(list)
    PROVE  /\ SubSeq(list, 1, n) \in Seq(Seqs)
           /\ Listed(SubSeq(list, 1, n)) \subseteq Listed(list)
           /\ Distinct(list) => Distinct(SubSeq(list, 1, n))
<1>1. PICK v : v = SubSeq(list, 1, n)
  OBVIOUS
<1>2. v \in Seq(Seqs) /\ Len(v) = n /\ \A i \in 1 .. n : v[i] = list[i] /\ i \in 1 .. Len(list)
  BY <1>1
<1>3. Listed(v) \subseteq Listed(list)
  BY <1>2 DEF Listed, Firsts
<1>4. Distinct(list) => Distinct(v)
  BY <1>2 DEF Distinct
<1> QED BY <1>1, <1>2, <1>3, <1>4

\* The outputs of request r: born are its new sequences, ended those that stop and
\* dropped those that beam search takes out of the group.
Grown(born, parent, s) == IF s \in ToSet(born) THEN length[parent[s]] + 1 ELSE length[s] + 1

\* fork left o, and the sequences of done are freed.
ForkedAndFreed(o, done) == Call([o EXCEPT !.mgr = Free(o.mgr, done)], "fork")

Output(r, born, parent, ended, dropped, o) ==
    LET now == ToSet(SeqsIn(r, "running")) \cup ToSet(born)
    IN  /\ parent \in [ToSet(born) -> ToSet(SeqsIn(r, "running"))]
        /\ ended \subseteq now
        /\ dropped \subseteq ended \cup ToSet(SeqsIn(r, "finished"))
        /\ r \notin Beam => dropped = {}
        /\ \A s \in now : Grown(born, parent, s) = MaxTokens => s \in ended
        /\ o \in Fork(mgr, Only(born, now \ ended), parent)
        /\ ForkedAndFreed(o, Only(SeqsIn(r, "running"), ended))
        /\ length' = [s \in Seqs |-> IF s \in ended THEN 0
                                     ELSE IF s \in now THEN Grown(born, parent, s)
                                     ELSE length[s]]
        /\ status' = [s \in Seqs |-> IF s \in dropped THEN "removed"
                                     ELSE IF s \in ended THEN "finished"
                                     ELSE IF s \in now THEN "running"
                                     ELSE status[s]]

\* ProcessOutputs, with its choices named.
LEMMA OutputIs ==
    ASSUME NEW r \in Requests, ProcessOutputs(r)
    PROVE  \E n \in 0 .. Len(SeqsIn(r, "absent")) : \E parent, ended, dropped, o :
             Output(r, SubSeq(SeqsIn(r, "absent"), 1, n), parent, ended, dropped, o)
<1> DEFINE running == SeqsIn(r, "running")
           absent == SeqsIn(r, "absent")
           Told(born) ==
             LET now == ToSet(running) \cup ToSet(born)
             IN  \E parent \in [ToSet(born) -> ToSet(running)], ended \in SUBSET now :
                 /\ \A s \in now : Grown(born, parent, s) = MaxTokens => s \in ended
                 /\ \E o \in Fork(mgr, Only(born, now \ ended), parent) :
                      Call([o EXCEPT !.mgr = Free(o.mgr, Only(running, ended))], "fork")
                 /\ length' = [s \in Seqs |-> IF s \in ended THEN 0
                                              ELSE IF s \in now THEN Grown(born, parent, s)
                                              ELSE length[s]]
                 /\ \E dropped \in IF r \in Beam
                                   THEN SUBSET (ended \cup ToSet(SeqsIn(r, "finished"))) ELSE {{}} :
                      status' = [s \in Seqs |->
                                   IF s \in dropped THEN "removed"
                                   ELSE IF s \in ended THEN "finished"
                                   ELSE IF s \in now THEN "running"
                                   ELSE status[s]]
<1>1. PICK n \in IF r \in Beam THEN 0 .. Len(absent) ELSE {Len(absent)} :
           Told(SubSeq(absent, 1, n))
  BY DEF ProcessOutputs, Grown
<1>2. absent \in Seq(Seqs)
  BY SeqsInAre
<1>3. n \in 0 .. Len(absent)
  BY <1>1, <1>2
<1> HIDE DEF Told
<1>4. PICK born : born = SubSeq(absent, 1, n) /\ Told(born)
  BY <1>1
<1> DEFINE now == ToSet(running) \cup ToSet(born)
<1>5. PICK parent \in [ToSet(born) -> ToSet(running)], ended \in SUBSET now :
         /\ \A s \in now : Grown(born, parent, s) = MaxTokens => s \in ended
         /\ \E o \in Fork(mgr, Only(born, now \ ended), parent) :
              Call([o EXCEPT !.mgr = Free(o.mgr, Only(running, ended))], "fork")
         /\ length' = [s \in Seqs |-> IF s \in ended THEN 0
                                      ELSE IF s \in now THEN Grown(born, parent, s)
                                      ELSE length[s]]
         /\ \E dropped \in IF r \in Beam
                           THEN SUBSET (ended \cup ToSet(SeqsIn(r, "finished"))) ELSE {{}} :
              status' = [s \in Seqs |->
                           IF s \in dropped THEN "removed"
                           ELSE IF s \in ended THEN "finished"
                           ELSE IF s \in now THEN "running"
                           ELSE status[s]]
  BY <1>4 DEF Told
<1>6. PICK o \in Fork(mgr, Only(born, now \ ended), parent) :
         Call([o EXCEPT !.mgr = Free(o.mgr, Only(running, ended))], "fork")
  BY <1>5
<1>7. PICK dropped \in SUBSET (ended \cup ToSet(SeqsIn(r, "finished"))) :
         /\ r \notin Beam => dropped = {}
         /\ status' = [s \in Seqs |->
                         IF s \in dropped THEN "removed"
                         ELSE IF s \in ended THEN "finished"
                         ELSE IF s \in now THEN "running"
                         ELSE status[s]]
  <2>1. {} \in SUBSET (ended \cup ToSet(SeqsIn(r, "finished")))
    OBVIOUS
  <2> QED BY <1>5, <2>1
<1>8. Output(r, born, parent, ended, dropped, o)
  BY <1>5, <1>6, <1>7 DEF Output, ForkedAndFreed
<1> QED BY <1>3, <1>4, <1>8

\* The children of kept have the lengths of their parents, and those of done none.
Lengthened(m, x, kept, done, parent) ==
    \A t \in Seqs :
      /\ t \in Listed(done) => x.length[t] = 0
      /\ t \in Listed(kept) => x.length[t] = m.length[parent[t]]
      /\ t \notin Listed(done) /\ t \notin Listed(kept) => x.length[t] = m.length[t]

\* The map after fork and free: the children that go on have what their parents
\* have, and what ended has nothing.
LEMMA OutputMap ==
    ASSUME NEW m, IsManager(m), MapOK(m.map), NoTemps(m.map),
           NEW R \in SUBSET Present(m.map), NEW kept \in Seq(Seqs), Distinct(kept), NEW parent,
           NewFrom(m.map, kept, parent, R), NEW done \in Seq(Seqs),
           Listed(done) \cap Listed(kept) = {}, Listed(done) \subseteq R,
           NEW o \in Fork(m, kept, parent), ForkedAndFreed(o, done)
    PROVE  \E x : /\ mgr' = Remapped(m, x) /\ fault' = "none"
                  /\ Moved(m.map, x, R \cup Listed(kept))
                  /\ Lengthened(m.map, x, kept, done, parent)
<1>1. PICK y : /\ o = [mgr |-> Remapped(m, y), raised |-> "none"] /\ MapOK(y)
               /\ Moved(m.map, y, R \cup Listed(kept))
               /\ Inherit(m.map, y, kept, parent)
  <2>1. \E y : /\ Leaves(m, o, y) /\ o = [mgr |-> Remapped(m, y), raised |-> "none"]
               /\ NoTemps(y) /\ Moved(m.map, y, R \cup Listed(kept))
               /\ Inherit(m.map, y, kept, parent)
    BY ForkCall
  <2> QED BY <2>1 DEF Leaves
<1>2. PICK n : n = Remapped(m, y)
  OBVIOUS
<1>3. IsManager(n) /\ n.map = y
  BY <1>2, RemappedIs
<1>4. PICK x : /\ Free(n, done) = Remapped(n, x) /\ MapOK(x)
               /\ Moved(y, x, Listed(done))
               /\ \A s \in Listed(done) : x.length[s] = 0
  <2>1. MapOK(n.map)
    BY <1>1, <1>3
  <2>2. \E x : /\ Free(n, done) = Remapped(n, x) /\ MapOK(x)
               /\ Moved(n.map, x, Listed(done))
               /\ \A s \in Listed(done) : x.length[s] = 0
    BY <1>3, <2>1, FreeCall
  <2> QED BY <1>3, <2>2
<1>5. Remapped(n, x) = Remapped(m, x)
  BY <1>2 DEF Remapped
<1>6. mgr' = Remapped(m, x) /\ fault' = "none"
  <2>1. o.mgr = n /\ [o EXCEPT !.mgr = Free(o.mgr, done)] = [mgr |-> Free(n, done), raised |-> "none"]
    <3>1. o = [mgr |-> n, raised |-> "none"]
      BY <1>1, <1>2
    <3>2. PICK z : z = Free(n, done)
      OBVIOUS
    <3>3. o.mgr = n /\ [o EXCEPT !.mgr = z] = [mgr |-> z, raised |-> "none"]
      BY <3>1
    <3>4. Free(o.mgr, done) = z
      BY <3>2, <3>3
    <3> QED BY <3>2, <3>3, <3>4
  <2>2. Call([mgr |-> Free(n, done), raised |-> "none"], "fork")
    BY <2>1 DEF ForkedAndFreed
  <2> QED BY <1>4, <1>5, <2>2 DEF Call
<1>7. Moved(m.map, x, R \cup Listed(kept))
  BY <1>1, <1>4, MovedTwice
<1>8. \A t \in Seqs : t \notin Listed(done) => x.length[t] = y.length[t]
  BY <1>4 DEF Moved
<1>9. ASSUME NEW t \in Seqs
      PROVE  /\ t \in Listed(done) => x.length[t] = 0
             /\ t \in Listed(kept) => x.length[t] = m.map.length[parent[t]]
             /\ t \notin Listed(done) /\ t \notin Listed(kept) => x.length[t] = m.map.length[t]
  <2>1. y.length[t] = m.map.length[IF t \in Listed(kept) THEN parent[t] ELSE t]
    BY <1>1 DEF Inherit, Listed
  <2> QED BY <1>4, <1>8, <2>1
<1>10. Lengthened(m.map, x, kept, done, parent)
  BY <1>9 DEF Lengthened
<1> QED BY <1>6, <1>7, <1>10

\* process_outputs for one request: every sequence that goes on, old or new, is a
\* token ahead of the map, and what ended has left it.
LEMMA OutputsKeep ==
    ASSUME IInv, NEW r \in Requests, ProcessOutputs(r)
    PROVE  IInv' /\ fault' = "none"
<1> DEFINE running == SeqsIn(r, "running")
           absent == SeqsIn(r, "absent")
           R == ToSet(running)
           F == ToSet(SeqsIn(r, "finished"))
<1>1. /\ fault = "none" /\ phase = "executing" /\ r \in batch
      /\ prefill' = prefill \ R /\ batch' = batch \ {r}
      /\ phase' = IF batch' = {} THEN "idle" ELSE "executing"
      /\ UNCHANGED <<trying, preempted, cached, maxSeqs>>
  BY DEF ProcessOutputs, At
<1>2. Typed /\ RecordsKept /\ Settled(mgr.map, status, length, batch)
  BY <1>1 DEF IInv
<1>3. PICK n \in 0 .. Len(absent) : \E parent, ended, dropped, o :
        Output(r, SubSeq(absent, 1, n), parent, ended, dropped, o)
  BY OutputIs
<1>4. PICK born : born = SubSeq(absent, 1, n)
  OBVIOUS
<1>5. PICK parent, ended, dropped, o : Output(r, born, parent, ended, dropped, o)
  BY <1>3, <1>4
<1> DEFINE B == ToSet(born)
           now == R \cup B
           kept == Only(born, now \ ended)
           done == Only(running, ended)
           S == now \cup F
<1>6. /\ running \in Seq(Seqs) /\ R = {s \in Ids(r) : status[s] = "running"}
      /\ F = {s \in Ids(r) : status[s] = "finished"}
      /\ R = Listed(running)
  BY SeqsInAre
<1>7. /\ born \in Seq(Seqs) /\ Distinct(born) /\ B = Listed(born)
      /\ \A s \in B : s \in Ids(r) /\ status[s] = "absent"
  <2>1. /\ absent \in Seq(Seqs) /\ Distinct(absent)
        /\ Listed(absent) = {s \in Ids(r) : status[s] = "absent"}
    BY SeqsInAre
  <2> HIDE DEF absent
  <2>2. /\ born \in Seq(Seqs) /\ Distinct(born) /\ Listed(born) \subseteq Listed(absent)
    BY <1>4, <2>1, SubSeqIs
  <2>3. B = Listed(born)
    BY <2>2, ListedIs
  <2> QED BY <2>1, <2>2, <2>3
<1>8. Ids(r) \subseteq Seqs /\ SeqsOf[r][1] \in Ids(r)
  BY IdsAre
<1>9. /\ parent \in [B -> R] /\ ended \subseteq now /\ dropped \subseteq ended \cup F
      /\ \A s \in now : Grown(born, parent, s) = MaxTokens => s \in ended
      /\ o \in Fork(mgr, kept, parent)
      /\ ForkedAndFreed(o, done)
      /\ length' = [s \in Seqs |-> IF s \in ended THEN 0
                                   ELSE IF s \in now THEN Grown(born, parent, s)
                                   ELSE length[s]]
      /\ status' = [s \in Seqs |-> IF s \in dropped THEN "removed"
                                   ELSE IF s \in ended THEN "finished"
                                   ELSE IF s \in now THEN "running"
                                   ELSE status[s]]
  BY <1>5 DEF Output
<1>10. /\ kept \in Seq(Seqs) /\ Distinct(kept) /\ Listed(kept) = B \ ended
       /\ done \in Seq(Seqs) /\ Listed(done) = R \cap ended
  <2> DEFINE K == now \ ended
  <2>1. kept = Only(born, K) /\ B \cap K = B \ ended
    OBVIOUS
  <2> HIDE DEF K, running, B, R, now
  <2>2. kept \in Seq(Seqs) /\ Distinct(kept) /\ Listed(kept) = B \cap K
    BY <1>7, <2>1, OnlyIs
  <2>3. done \in Seq(Seqs) /\ Listed(done) = R \cap ended
    BY <1>6, OnlyIs
  <2> QED BY <2>1, <2>2, <2>3
<1>11. \A s \in now : Grown(born, parent, s) = IF s \in B THEN length[parent[s]] + 1 ELSE length[s] + 1
  BY DEF Grown
<1> HIDE DEF running, absent, R, F, B, kept, done
<1>12. \A s \in Ids(r) : InLine(mgr.map, s, status[s], length[s], r, batch)
  BY <1>2 DEF Settled
<1>13. \A s \in R : /\ length[s] \in 0 .. MaxTokens - 1 /\ length[s] >= 1
                    /\ mgr.map.length[s] = length[s]
  <2>1. length \in [Seqs -> 0 .. MaxTokens - 1]
    BY <1>2 DEF Typed
  <2> QED BY <1>1, <1>6, <1>8, <1>12, <2>1 DEF InLine, Live
<1>14. \A s \in B \cup F : s \notin R /\ mgr.map.length[s] = 0 /\ s \in Ids(r)
  BY <1>6, <1>7, <1>12 DEF InLine
<1>15. PICK x : /\ mgr' = Remapped(mgr, x) /\ fault' = "none"
                /\ Moved(mgr.map, x, R \cup Listed(kept))
                /\ Lengthened(mgr.map, x, kept, done, parent)
  <2>1. IsManager(mgr) /\ MapOK(mgr.map) /\ NoTemps(mgr.map)
    BY <1>2 DEF Typed, Settled
  <2>2. R \in SUBSET Present(mgr.map)
    <3>1. \A s \in R : s \in Seqs /\ mgr.map.length[s] > 0
      BY <1>6, <1>8, <1>13, SizesAssumption
    <3> QED BY <3>1 DEF Present
  <2>3. NewFrom(mgr.map, kept, parent, R)
    <3> SUFFICES ASSUME NEW s \in Listed(kept)
                 PROVE  s \notin Present(mgr.map) /\ parent[s] \in R
      BY DEF NewFrom, Listed
    <3>1. s \in B
      BY <1>10
    <3> QED BY <1>9, <1>14, <3>1 DEF Present
  <2>4. Listed(done) \cap Listed(kept) = {} /\ Listed(done) \subseteq R
    BY <1>10, <1>14
  <2>5. o \in Fork(mgr, kept, parent) /\ ForkedAndFreed(o, done)
    BY <1>9
  <2>6. kept \in Seq(Seqs) /\ Distinct(kept) /\ done \in Seq(Seqs)
    BY <1>10
  <2>7. \E x : /\ mgr' = Remapped(mgr, x) /\ fault' = "none"
               /\ Moved(mgr.map, x, R \cup Listed(kept))
               /\ Lengthened(mgr.map, x, kept, done, parent)
    BY <2>1, <2>2, <2>3, <2>4, <2>5, <2>6, OutputMap
  <2> QED BY <2>7
<1>16. \A t \in Seqs :
         /\ t \in R \cap ended => x.length[t] = 0
         /\ t \in B \ ended => x.length[t] = mgr.map.length[parent[t]]
         /\ t \notin R \cap ended /\ t \notin B \ ended => x.length[t] = mgr.map.length[t]
  <2>1. Lengthened(mgr.map, x, kept, done, parent)
    BY <1>15
  <2> QED BY <1>10, <2>1 DEF Lengthened
<1>17. MapOK(x)
  BY <1>15 DEF Moved
<1>18. /\ IsManager(mgr') /\ MapOK(mgr'.map) /\ CpuTyped(mgr')
       /\ mgr'.map = x /\ mgr'.swapped = mgr.swapped
  BY <1>2, <1>15, <1>17, ManagerStays
<1>19. /\ \A s \in now \ ended : /\ status'[s] = "running" /\ length'[s] = Grown(born, parent, s)
                                 /\ s \in Ids(r) /\ s \in Seqs
       /\ \A s \in ended \cup F : /\ s \notin now \ ended /\ status'[s] \in {"removed", "finished"}
                                  /\ s \in Ids(r) /\ s \in Seqs
       /\ \A s \in Seqs \ S : status'[s] = status[s] /\ length'[s] = length[s]
       /\ \A s \in F : status'[s] # "absent"
  <2>1. now \subseteq Ids(r) /\ F \subseteq Ids(r) /\ ended \subseteq now /\ now \cap F = {}
    BY <1>6, <1>7, <1>9
  <2>2. dropped \subseteq ended \cup F /\ dropped \cap (now \ ended) = {}
    BY <1>9, <2>1
  <2>3. \A s \in F : status[s] = "finished"
    BY <1>6
  <2> HIDE DEF now
  <2>4. \A s \in Seqs : status'[s] = IF s \in dropped THEN "removed"
                                     ELSE IF s \in ended THEN "finished"
                                     ELSE IF s \in now THEN "running"
                                     ELSE status[s]
    BY <1>9
  <2>5. \A s \in Seqs : length'[s] = IF s \in ended THEN 0
                                     ELSE IF s \in now THEN Grown(born, parent, s)
                                     ELSE length[s]
    BY <1>9
  <2> QED BY <1>8, <2>1, <2>2, <2>3, <2>4, <2>5
<1>20. \A s \in now \ ended : /\ Grown(born, parent, s) \in 0 .. MaxTokens - 1
                              /\ Grown(born, parent, s) >= 2
                              /\ x.length[s] = Grown(born, parent, s) - 1
  <2> SUFFICES ASSUME NEW s \in now, s \notin ended
               PROVE  /\ Grown(born, parent, s) \in 0 .. MaxTokens - 1
                      /\ Grown(born, parent, s) >= 2
                      /\ x.length[s] = Grown(born, parent, s) - 1
    OBVIOUS
  <2>1. Grown(born, parent, s) # MaxTokens /\ s \in Seqs
    BY <1>9, <1>19
  <2>2. CASE s \in B
    <3>1. PICK p \in R : p = parent[s]
      BY <1>9, <2>2
    <3>2. Grown(born, parent, s) = length[p] + 1
      BY <1>11, <2>2, <3>1
    <3>3. x.length[s] = mgr.map.length[p]
      BY <1>16, <2>1, <2>2, <3>1
    <3> QED BY <1>13, <2>1, <3>1, <3>2, <3>3, SizesAssumption
  <2>3. CASE s \notin B
    <3>1. s \in R /\ Grown(born, parent, s) = length[s] + 1
      BY <1>11, <2>3
    <3>2. x.length[s] = mgr.map.length[s]
      BY <1>16, <2>1, <2>3
    <3> QED BY <1>13, <2>1, <3>1, <3>2, SizesAssumption
  <2> QED BY <2>2, <2>3
<1>21. Typed'
  <2>1. status' \in [Seqs -> Statuses]
    <3>1. status \in [Seqs -> Statuses]
      BY <1>2 DEF Typed
    <3> HIDE DEF now
    <3> QED BY <1>9, <3>1 DEF Statuses
  <2>2. length' \in [Seqs -> 0 .. MaxTokens - 1]
    <3>1. length \in [Seqs -> 0 .. MaxTokens - 1] /\ 0 \in 0 .. MaxTokens - 1
      BY <1>2, SizesAssumption DEF Typed
    <3> HIDE DEF now
    <3> QED BY <1>9, <1>20, <3>1
  <2>3. prefill' \subseteq Seqs /\ batch' \subseteq Requests /\ trying' \subseteq Requests
        /\ phase' \in {"idle", "executing"}
    BY <1>1, <1>2 DEF Typed
  <2> QED BY <1>1, <1>2, <1>18, <2>1, <2>2, <2>3 DEF Typed
<1>22. RecordsKept'
  <2>1. \A s \in Seqs : status'[s] = "swapped" => status[s] = "swapped" /\ length'[s] = length[s]
    <3> SUFFICES ASSUME NEW s \in Seqs, status'[s] = "swapped"
                 PROVE  status[s] = "swapped" /\ length'[s] = length[s]
      OBVIOUS
    <3> HIDE DEF now
    <3>1. s \notin now \ ended /\ s \notin ended \cup F
      BY <1>19
    <3>2. s \in Seqs \ S
      BY <3>1
    <3> QED BY <1>19, <3>2
  <2> QED BY <1>2, <1>18, <2>1, RecordsStay
<1>23. Mates(status', r) /\ FirstComes(status', r)
  <2>1. Mates(status, r) /\ FirstComes(status, r)
    BY <1>2 DEF Settled
  <2>2. CASE R = {}
    <3>1. now = {} /\ ended = {}
      BY <1>9, <2>2
    <3>2. /\ \A s \in Ids(r) : s \notin F => status'[s] = status[s]
          /\ \A s \in F : status'[s] \notin Live /\ status'[s] # "absent" /\ status[s] = "finished"
      <4>1. F \subseteq ended \cup F /\ \A s \in Ids(r) : s \notin F => s \in Seqs \ S
        BY <1>8, <3>1
      <4> HIDE DEF S, now
      <4> QED BY <1>6, <1>19, <4>1 DEF Live
    <3> QED BY <1>8, <2>1, <3>2 DEF Mates, FirstComes
  <2>3. CASE R # {}
    <3>1. \A s \in Ids(r) \ R : status[s] \notin Live
      BY <1>6, <2>1, <2>3 DEF Mates, Live
    <3>2. \A s \in Ids(r) : status'[s] \in Live => status'[s] = "running"
      <4> SUFFICES ASSUME NEW s \in Ids(r), status'[s] \in Live
                   PROVE  status'[s] = "running"
        OBVIOUS
      <4>1. s \notin ended \cup F
        BY <1>19 DEF Live
      <4>2. CASE s \in now
        <5> HIDE DEF now
        <5> QED BY <1>19, <4>1, <4>2
      <4>3. CASE s \notin now
        <5>1. s \in Seqs \ S /\ s \notin R
          BY <1>8, <4>1, <4>3
        <5>2. status'[s] = status[s]
          BY <1>19, <5>1
        <5> QED BY <3>1, <5>1, <5>2
      <4> QED BY <4>2, <4>3
    <3>3. status'[SeqsOf[r][1]] # "absent"
      <4>1. PICK f \in Seqs : f = SeqsOf[r][1]
        BY <1>8
      <4>2. status[f] # "absent"
        BY <1>6, <2>1, <2>3, <4>1 DEF FirstComes
      <4>3. status'[f] # "absent"
        <5> HIDE DEF now
        <5>1. f \in now \ ended \/ f \in ended \cup F \/ f \in Seqs \ S
          OBVIOUS
        <5> HIDE DEF S
        <5> QED BY <1>19, <4>2, <5>1
      <4> QED BY <4>1, <4>3
    <3> QED BY <3>2, <3>3 DEF Mates, FirstComes
  <2> QED BY <2>2, <2>3
<1>24. \A s \in S : InLine(x, s, status'[s], length'[s], r, batch')
  <2> SUFFICES ASSUME NEW s \in S
               PROVE  InLine(x, s, status'[s], length'[s], r, batch')
    OBVIOUS
  <2>1. CASE s \in now \ ended
    <3>1. PICK k : k = Grown(born, parent, s)
      OBVIOUS
    <3>2. /\ status'[s] = "running" /\ length'[s] = k /\ r \notin batch'
          /\ k \in 0 .. MaxTokens - 1 /\ k >= 2 /\ x.length[s] = k - 1
      <4> HIDE DEF now
      <4> QED BY <1>1, <1>19, <1>20, <2>1, <3>1
    <3> QED BY <3>2, SizesAssumption DEF InLine
  <2>2. CASE s \in ended \cup F
    <3>1. status'[s] \in {"removed", "finished"} /\ s \in Seqs
      BY <1>19, <2>2
    <3>2. x.length[s] = 0
      <4>1. CASE s \in R \cap ended
        BY <1>16, <3>1, <4>1
      <4>2. CASE s \notin R \cap ended
        <5>1. s \in B \cup F /\ s \notin B \ ended
          BY <1>9, <1>6, <1>7, <2>2, <4>2
        <5> QED BY <1>14, <1>16, <3>1, <4>2, <5>1
      <4> QED BY <4>1, <4>2
    <3> QED BY <3>1, <3>2 DEF InLine, Live
  <2> QED BY <2>1, <2>2
<1>25. OnlyOf(r, S, status, status', length, length', batch, batch')
  <2>1. S \subseteq Ids(r)
    BY <1>6, <1>7
  <2>2. \A t \in Ids(r) \ S : status[t] # "running"
    BY <1>6
  <2> HIDE DEF S, now
  <2> QED BY <1>1, <1>19, <2>1, <2>2 DEF OnlyOf
<1>26. Moved(mgr.map, x, S)
  <2>1. R \cup Listed(kept) \subseteq S
    BY <1>10
  <2> HIDE DEF S
  <2> QED BY <1>15, <2>1 DEF Moved
<1>27. Settled(x, status', length', batch')
  <2>1. length \in [Seqs -> Nat]
    BY <1>2, LengthsAre
  <2> HIDE DEF S, now
  <2> QED BY <1>2, <1>23, <1>24, <1>25, <1>26, <2>1, SettledStep
<1>28. phase' = "idle" => batch' = {}
  BY <1>1
<1> QED BY <1>15, <1>18, <1>21, <1>22, <1>27, <1>28 DEF IInv

-----------------------------------------------------------------------------
(* The theorems.                                                           *)

\* The initial state.
LEMMA InitKeeps == Init => IInv
<1> SUFFICES ASSUME Init
             PROVE  IInv
  OBVIOUS
<1>1. /\ mgr = EmptyManager /\ status = [s \in Seqs |-> "absent"]
      /\ length = [s \in Seqs |-> 0] /\ prefill = {} /\ phase = "idle" /\ batch = {}
      /\ trying = {} /\ preempted = FALSE /\ cached = NumLayers /\ maxSeqs = MaxNumSeqs
  BY DEF Init
<1>2. /\ mgr.map = EmptyMap /\ mgr.cpu = [g \in Groups |-> CpuBlocks]
      /\ DOMAIN mgr.swapped = {} /\ IsManager(mgr)
  BY <1>1 DEF EmptyManager, IsManager
<1>3. MapOK(mgr.map) /\ CpuTyped(mgr)
  <2>1. CpuTyped(mgr)
    BY <1>2 DEF CpuTyped
  <2> QED BY <1>2, <2>1, EmptyMapOK
<1>4. Typed
  <2>1. /\ NumLayers \in 0 .. NumLayers /\ MaxNumSeqs \in 1 .. MaxNumSeqs
        /\ 0 \in 0 .. MaxTokens - 1
    BY ManagerAssumption, SchedulerAssumption, SizesAssumption
  <2> QED BY <1>1, <1>2, <1>3, <2>1 DEF Typed, Statuses
<1>5. \A s \in Seqs : status[s] = "absent" /\ mgr.map.length[s] = 0
  <2>1. EmptyMap.length = [s \in Seqs |-> 0]
    BY DEF EmptyMap
  <2> QED BY <1>1, <1>2, <2>1
<1>6. RecordsKept
  BY <1>5 DEF RecordsKept
<1>7. NoTemps(mgr.map)
  <2>1. \A g \in Groups : DOMAIN mgr.map.cells[g].table = {}
    BY <1>2 DEF EmptyMap, EmptyCell
  <2> QED BY <2>1 DEF NoTemps
<1>8. Strangers(mgr.map, status)
  BY <1>5 DEF Strangers
<1>9. ASSUME NEW r \in Requests
      PROVE  /\ Mates(status, r) /\ FirstComes(status, r)
             /\ \A s \in Ids(r) : InLine(mgr.map, s, status[s], length[s], r, batch)
  <2>1. \A s \in Ids(r) : s \in Seqs
    BY IdsAre
  <2> QED BY <1>5, <2>1 DEF Mates, FirstComes, InLine, Live
<1>10. Settled(mgr.map, status, length, batch)
  BY <1>7, <1>8, <1>9 DEF Settled
<1> QED BY <1>1, <1>4, <1>6, <1>10 DEF IInv

\* Every step.
LEMMA NextKeeps == IInv /\ [Next]_vars => IInv'
<1> SUFFICES ASSUME IInv, [Next]_vars
             PROVE  IInv'
  OBVIOUS
<1>1. CASE \E r \in Requests, n \in PromptLengths : AddSeqGroup(r, n)
  BY <1>1, AddKeeps
<1>2. CASE \E r \in Requests : AbortSeqGroup(r)
  BY <1>2, AbortKeeps
<1>3. CASE Schedule
  BY <1>3, ScheduleKeeps
<1>4. CASE Iterate
  <2>1. CASE \E r \in Requests : AllocateAndSetRunning(r)
    BY <2>1, AdmitKeeps
  <2>2. CASE \E r \in Requests : IgnoreSeqGroup(r)
    BY <2>2, IgnoreKeeps
  <2>3. CASE EndPrefills \/ EndRunning \/ EndSwapped
    BY <2>3, EndsKeep
  <2>4. CASE \E r \in Requests : ScheduleRunning(r)
    BY <2>4, DecodeKeeps
  <2>5. CASE \E r, v \in Requests : Preempt(r, v)
    BY <2>5, PreemptKeeps
  <2>6. CASE \E r \in Requests : ScheduleSwapped(r)
    BY <2>6, SwappedKeeps
  <2>7. CASE BuildMetadata
    BY <2>7, MetadataKeeps
  <2>8. CASE \E r \in Requests : ProcessOutputs(r)
    BY <2>8, OutputsKeep
  <2> QED BY <1>4, <2>1, <2>2, <2>3, <2>4, <2>5, <2>6, <2>7, <2>8 DEF Iterate
<1>5. CASE UNCHANGED vars
  <2>1. /\ mgr' = mgr /\ status' = status /\ length' = length /\ prefill' = prefill
        /\ phase' = phase /\ batch' = batch /\ trying' = trying /\ preempted' = preempted
        /\ cached' = cached /\ maxSeqs' = maxSeqs /\ fault' = fault
    BY <1>5 DEF vars
  <2>2. Typed'
    BY <2>1 DEF IInv, Typed
  <2>3. RecordsKept'
    BY <2>1 DEF IInv, RecordsKept
  <2> QED BY <2>1, <2>2, <2>3 DEF IInv
<1> QED BY <1>1, <1>2, <1>3, <1>4, <1>5 DEF Next

\* The inductive invariant is one.
THEOREM Inductive == Spec => []IInv
<1> QED BY InitKeeps, NextKeeps, PTL DEF Spec

\* Types are kept by every action of the scheduler and the output processor.
THEOREM TypesKept == Spec => []TypeOK
<1>1. IInv => TypeOK
  <2> SUFFICES ASSUME Typed
               PROVE  TypeOK
    BY DEF IInv
  <2>1. MapType(mgr.map)
    BY DEF Typed, MapOK
  <2>2. /\ mgr.cpu \in [Groups -> SUBSET CpuBlocks] /\ DOMAIN mgr.swapped \subseteq Seqs
    BY DEF Typed, CpuTyped
  <2>3. status \in [Seqs -> {"absent", "waiting", "running", "swapped", "finished", "removed"}]
    BY DEF Typed, Statuses
  <2>4. length \in [Seqs -> 0 .. MaxTokens]
    <3>1. 0 .. MaxTokens - 1 \subseteq 0 .. MaxTokens
      BY SizesAssumption
    <3> QED BY <3>1 DEF Typed
  <2> QED BY <2>1, <2>2, <2>3, <2>4 DEF Typed, TypeOK
<1> QED BY <1>1, Inductive, PTL

\* The block map that scheduler and output processor drive keeps its reference
\* counts, free lists and windows exact: no GPU block leaks, whatever raises.
THEOREM MapStaysInOrder == Spec => []MapInOrder
<1>1. IInv => MapInOrder
  BY DEF IInv, Typed, MapOK, MapInOrder
<1> QED BY <1>1, Inductive, PTL

\* The block map holds the running sequences and no others, up to date for those of
\* the batch and one token behind for the others.
THEOREM SidesStayAgreed == Spec => []SidesAgree
<1>1. IInv => SidesAgree
  <2> SUFFICES ASSUME IInv, fault = "none", NEW s \in Seqs
               PROVE  mgr.map.length[s] = IF status[s] # "running" THEN 0
                                          ELSE IF RequestOf(s) \in batch THEN length[s]
                                          ELSE length[s] - 1
    BY DEF SidesAgree
  <2>1. Settled(mgr.map, status, length, batch)
    BY DEF IInv
  <2>2. CASE \E r \in Requests : s \in Ids(r)
    <3>1. PICK r \in Requests : s \in Ids(r)
      BY <2>2
    <3>2. \A q \in Requests : s \in ToSet(SeqsOf[q]) <=> q = r
      <4>1. \A q \in Requests : ToSet(SeqsOf[q]) = Ids(q)
        BY IdsAre, ListedIs DEF Ids
      <4> QED BY <3>1, <4>1, IdsAre
    <3>3. RequestOf(s) = r
      BY <3>2 DEF RequestOf
    <3>4. InLine(mgr.map, s, status[s], length[s], r, batch)
      BY <2>1, <3>1 DEF Settled
    <3> QED BY <3>3, <3>4 DEF InLine
  <2>3. CASE \A r \in Requests : s \notin Ids(r)
    BY <2>1, <2>3 DEF Settled, Strangers
  <2> QED BY <2>2, <2>3
<1> QED BY <1>1, Inductive, PTL

\* A swapped sequence has a record of all but its pending token, in every group.
THEOREM RecordsStayRight == Spec => []RecordsMatch
<1>1. IInv => RecordsMatch
  <2> SUFFICES ASSUME IInv, NEW s \in Seqs, status[s] = "swapped"
               PROVE  /\ s \in DOMAIN mgr.swapped
                      /\ mgr.swapped[s].length = length[s] - 1
                      /\ \A g \in Groups :
                           DOMAIN mgr.swapped[s].tables[g] =
                             mgr.swapped[s].evicted .. NumLogicalBlocks(length[s] - 1) - 1
    BY DEF RecordsMatch
  <2>1. HasRecord(mgr, s, length[s])
    BY DEF IInv, RecordsKept
  <2> QED BY <2>1 DEF HasRecord, Records
<1> QED BY <1>1, Inductive, PTL

\* No sequence that the model executes writes to a block that another one holds.
THEOREM WritesAlone == Spec => []NoSharedWriteSlot
<1>1. IInv => NoSharedWriteSlot
  <2> SUFFICES ASSUME IInv, fault = "none", NEW r \in batch, NEW g \in Groups,
                      NEW s \in ToSet(SeqsIn(r, "running"))
               PROVE  TailRefs(mgr.map, s, g) = 1
    BY DEF NoSharedWriteSlot
  <2>1. Typed /\ Settled(mgr.map, status, length, batch)
    BY DEF IInv
  <2>2. r \in Requests
    BY <2>1 DEF Typed
  <2>3. s \in Ids(r) /\ s \in Seqs /\ status[s] = "running"
    BY <2>2, SeqsInAre, IdsAre
  <2>4. length[s] \in Nat /\ MapOK(mgr.map)
    BY <2>1, <2>3, LengthsAre DEF Typed
  <2>5. InLine(mgr.map, s, status[s], length[s], r, batch)
    BY <2>1, <2>2, <2>3 DEF Settled
  <2>6. mgr.map.length[s] > 0 /\ Alone(mgr.map, s)
    BY <2>3, <2>4, <2>5 DEF InLine, Live
  <2>7. s \in Present(mgr.map)
    BY <2>3, <2>6 DEF Present
  <2> QED BY <2>4, <2>6, <2>7, AloneIs
<1> QED BY <1>1, Inductive, PTL

\* Only the loop over the swapped queue lets a sequence run again that is out.
Out == {"swapped", "finished", "removed"}

\* In every other step a sequence that is out stays out.
LEMMA OthersReturnNone ==
    ASSUME IInv, [Next]_vars, ~(\E r \in Requests : ScheduleSwapped(r)),
           NEW s \in Seqs, status[s] \in Out
    PROVE  status'[s] \in Out
<1>1. status \in [Seqs -> Statuses]
  BY DEF IInv, Typed
<1>2. CASE \E r \in Requests, n \in PromptLengths : AddSeqGroup(r, n)
  <2>1. PICK f : status[f] = "absent" /\ status' = [status EXCEPT ![f] = "waiting"]
    BY <1>2 DEF AddSeqGroup
  <2> QED BY <1>1, <2>1 DEF Out
<1>3. CASE \E r \in Requests : AbortSeqGroup(r) \/ IgnoreSeqGroup(r)
  <2>1. PICK list : SetStatus(list, "finished")
    BY <1>3 DEF AbortSeqGroup, IgnoreSeqGroup
  <2> QED BY <2>1 DEF SetStatus, Out
<1>4. CASE \E r \in Requests : AllocateAndSetRunning(r)
  <2>1. PICK r \in Requests : SetStatus(SeqsIn(r, "waiting"), "running")
    BY <1>4 DEF AllocateAndSetRunning
  <2>2. s \notin ToSet(SeqsIn(r, "waiting"))
    BY SeqsInAre DEF Out
  <2> QED BY <2>1, <2>2 DEF SetStatus
<1>5. CASE \E r, v \in Requests : Preempt(r, v)
  <2>1. PICK v \in Requests : PreemptBySwap(v) \/ PreemptByRecompute(v)
    BY <1>5 DEF Preempt
  <2>2. \/ status' = status
        \/ SetStatus(SeqsIn(v, "running"), "waiting")
        \/ SetStatus(SeqsIn(v, "running"), "swapped")
    BY <2>1 DEF PreemptBySwap, PreemptByRecompute
  <2>3. s \notin ToSet(SeqsIn(v, "running"))
    BY SeqsInAre DEF Out
  <2> QED BY <2>2, <2>3 DEF SetStatus
<1>6. CASE \E r \in Requests : ProcessOutputs(r)
  <2>1. PICK r \in Requests : ProcessOutputs(r)
    BY <1>6
  <2>2. PICK n \in 0 .. Len(SeqsIn(r, "absent")) : \E parent, ended, dropped, o :
          Output(r, SubSeq(SeqsIn(r, "absent"), 1, n), parent, ended, dropped, o)
    BY <2>1, OutputIs
  <2>3. PICK born : born = SubSeq(SeqsIn(r, "absent"), 1, n)
    OBVIOUS
  <2>4. PICK parent, ended, dropped, o : Output(r, born, parent, ended, dropped, o)
    BY <2>2, <2>3
  <2>5. s \notin ToSet(SeqsIn(r, "running"))
    BY <2>1, SeqsInAre DEF Out
  <2>6. s \notin ToSet(born)
    <3>1. /\ SeqsIn(r, "absent") \in Seq(Seqs)
          /\ Listed(SeqsIn(r, "absent")) = {t \in Ids(r) : status[t] = "absent"}
      BY <2>1, SeqsInAre
    <3>2. born \in Seq(Seqs) /\ Listed(born) \subseteq Listed(SeqsIn(r, "absent"))
      BY <2>3, <3>1, SubSeqIs
    <3>3. ToSet(born) = Listed(born)
      BY <3>2, ListedIs
    <3> QED BY <3>1, <3>2, <3>3 DEF Out
  <2> DEFINE now == ToSet(SeqsIn(r, "running")) \cup ToSet(born)
  <2>7. /\ s \notin now
        /\ status' = [t \in Seqs |-> IF t \in dropped THEN "removed"
                                     ELSE IF t \in ended THEN "finished"
                                     ELSE IF t \in now THEN "running"
                                     ELSE status[t]]
    BY <2>4, <2>5, <2>6 DEF Output
  <2> HIDE DEF now
  <2> QED BY <2>7 DEF Out
<1>7. CASE \/ Schedule \/ EndPrefills \/ EndRunning \/ EndSwapped \/ BuildMetadata
           \/ \E r \in Requests : ScheduleRunning(r)
           \/ UNCHANGED vars
  <2>1. status' = status
    BY <1>7 DEF Schedule, EndPrefills, EndRunning, EndSwapped, BuildMetadata, ScheduleRunning, vars
  <2> QED BY <2>1
<1> QED BY <1>2, <1>3, <1>4, <1>5, <1>6, <1>7 DEF Next, Iterate

\* What comes back from the CPU is what left, and one token more.
THEOREM SwapsRestore == Spec => SwapRestores
<1>1. IInv /\ [Next]_vars => [Returns]_vars
  <2> SUFFICES ASSUME IInv, [Next]_vars
               PROVE  Returns
    OBVIOUS
  <2>1. CASE \E r \in Requests : ScheduleSwapped(r)
    BY <2>1, SwappedKeeps
  <2>2. CASE ~(\E r \in Requests : ScheduleSwapped(r))
    BY <2>2, OthersReturnNone DEF Returns, Out
  <2> QED BY <2>1, <2>2
<1>2. Spec => [][Returns]_vars
  BY <1>1, Inductive, PTL DEF Spec
<1> QED BY <1>2, PTL DEF SwapRestores, Returns

-----------------------------------------------------------------------------
(* The CPU blocks.                                                         *)

\* A sequence with a record is swapped, or was aborted then: it runs no more, and
\* is not swapped out again.
CpuInv ==
    /\ CpuKept(mgr)
    /\ \A s \in DOMAIN mgr.swapped : status[s] \in Out

\* A step that leaves the CPU side alone.
LEMMA CpuStays ==
    ASSUME IInv, CpuInv, [Next]_vars, ~(\E r \in Requests : ScheduleSwapped(r)),
           SameCpu(mgr, mgr')
    PROVE  CpuInv'
<1>1. CpuKept(mgr')
  BY SameCpuKept DEF CpuInv
<1>2. ASSUME NEW s \in DOMAIN mgr'.swapped
      PROVE  status'[s] \in Out
  <2>1. s \in DOMAIN mgr.swapped /\ s \in Seqs
    BY <1>2 DEF SameCpu, IInv, Typed, CpuTyped
  <2> QED BY <2>1, OthersReturnNone DEF CpuInv
<1> QED BY <1>1, <1>2 DEF CpuInv

\* Preemption: by recompute it leaves the CPU side alone, by swapping it takes CPU
\* blocks for sequences that have no record.
LEMMA PreemptCpu ==
    ASSUME IInv, CpuInv, NEW r \in Requests, NEW v \in Requests, Preempt(r, v)
    PROVE  CpuInv'
<1> DEFINE list == SeqsIn(v, "running")
<1>1. IsManager(mgr) /\ MapOK(mgr.map) /\ CpuTyped(mgr) /\ status \in [Seqs -> Statuses]
  BY DEF IInv, Typed
<1>2. [Next]_vars /\ ~(\E q \in Requests : ScheduleSwapped(q))
  <2>1. Next
    BY DEF Next, Iterate
  <2> QED BY <2>1 DEF Preempt, ScheduleSwapped, At
<1>3. \/ mgr' = mgr
      \/ mgr' = Free(mgr, list)
      \/ mgr' \in SwapOut(mgr, list) /\ SetStatus(list, "swapped")
  BY DEF Preempt, PreemptByRecompute, PreemptBySwap
<1>4. CASE mgr' = mgr \/ mgr' = Free(mgr, list)
  <2>1. SameCpu(mgr, mgr')
    BY <1>1, <1>4, FreeCpu DEF SameCpu
  <2> QED BY <1>2, <2>1, CpuStays
<1>5. CASE mgr' \in SwapOut(mgr, list) /\ SetStatus(list, "swapped")
  <2>1. /\ list \in Seq(Seqs) /\ ToSet(list) = Listed(list)
        /\ \A s \in Listed(list) : s \in Seqs /\ status[s] = "running"
    BY SeqsInAre, IdsAre
  <2> HIDE DEF list
  <2>2. Listed(list) \cap DOMAIN mgr.swapped = {}
    BY <2>1 DEF CpuInv, Out
  <2>3. CpuKept(mgr')
    BY <1>1, <1>5, <2>1, <2>2, SwapOutCpu DEF CpuInv, CpuTyped
  <2>4. DOMAIN mgr'.swapped = DOMAIN mgr.swapped \cup Listed(list)
    BY <1>1, <1>5, <2>1, SwapOutCall
  <2>5. ASSUME NEW s \in DOMAIN mgr'.swapped
        PROVE  status'[s] \in Out
    <3>1. s \in Seqs
      BY <1>1, <2>1, <2>4 DEF CpuTyped
    <3>2. s \in Listed(list) \/ status[s] \in Out
      BY <2>4 DEF CpuInv
    <3> QED BY <1>5, <2>1, <3>1, <3>2 DEF SetStatus, Out
  <2> QED BY <2>3, <2>5 DEF CpuInv
<1> QED BY <1>3, <1>4, <1>5

\* Swapping in gives the blocks back; appending afterwards takes none.
LEMMA SwappedCpu ==
    ASSUME IInv, CpuInv, NEW r \in Requests, ScheduleSwapped(r)
    PROVE  CpuInv'
<1> DEFINE list == SeqsIn(r, "swapped")
<1>1. IsManager(mgr) /\ CpuTyped(mgr) /\ status \in [Seqs -> Statuses] /\ RecordsKept
  BY DEF IInv, Typed
<1>2. PICK o \in SwapIn(mgr, list) :
        IF o.raised = "none"
        THEN /\ \E p \in AppendSlots(o.mgr, list, length) : mgr' = p.mgr
             /\ SetStatus(list, "running")
        ELSE mgr' = o.mgr /\ status' = status
  BY DEF ScheduleSwapped, Call
<1>3. /\ list \in Seq(Seqs) /\ ToSet(list) = Listed(list)
      /\ \A s \in Listed(list) : s \in Seqs /\ status[s] = "swapped"
  BY SeqsInAre, IdsAre
<1> HIDE DEF list
<1>4. Listed(list) \subseteq DOMAIN mgr.swapped /\ DOMAIN list = 1 .. Len(list)
  BY <1>1, <1>3 DEF RecordsKept, HasRecord
<1>5. /\ CpuKept(o.mgr) /\ IsManager(o.mgr)
      /\ DOMAIN o.mgr.swapped = IF o.raised = "none"
                                THEN DOMAIN mgr.swapped \ Listed(list)
                                ELSE DOMAIN mgr.swapped
  BY <1>1, <1>2, <1>4, SwapInCpu DEF CpuInv
<1>6. SameCpu(o.mgr, mgr')
  <2>1. CASE o.raised = "none"
    BY <1>2, <1>5, <2>1, OtherCallsCpu
  <2>2. CASE o.raised # "none"
    BY <1>2, <1>5, <2>2 DEF SameCpu
  <2> QED BY <2>1, <2>2
<1>7. CpuKept(mgr')
  BY <1>5, <1>6, SameCpuKept
<1>8. ASSUME NEW s \in DOMAIN mgr'.swapped
      PROVE  status'[s] \in Out
  <2>1. s \in DOMAIN mgr.swapped /\ (o.raised = "none" => s \notin Listed(list)) /\ s \in Seqs
    BY <1>1, <1>5, <1>6, <1>8 DEF SameCpu, CpuTyped
  <2>2. status[s] \in Out
    BY <2>1 DEF CpuInv
  <2> QED BY <1>2, <1>3, <2>1, <2>2 DEF SetStatus
<1> QED BY <1>7, <1>8 DEF CpuInv

\* Every step keeps the CPU blocks.
LEMMA NextCpu == IInv /\ CpuInv /\ [Next]_vars => CpuInv'
<1> SUFFICES ASSUME IInv, CpuInv, [Next]_vars
             PROVE  CpuInv'
  OBVIOUS
<1>1. CASE \E r \in Requests : ScheduleSwapped(r)
  BY <1>1, SwappedCpu
<1>2. CASE \E r, v \in Requests : Preempt(r, v)
  BY <1>2, PreemptCpu
<1>3. ASSUME ~(\E r \in Requests : ScheduleSwapped(r)), ~(\E r, v \in Requests : Preempt(r, v))
      PROVE  SameCpu(mgr, mgr')
  <2>1. IsManager(mgr)
    BY DEF IInv, Typed
  <2>2. CASE mgr' = mgr
    BY <2>1, <2>2 DEF SameCpu
  <2>3. CASE \E r \in Requests : AbortSeqGroup(r)
    BY <2>1, <2>3, FreeCpu DEF AbortSeqGroup
  <2>4. CASE \E r \in Requests : AllocateAndSetRunning(r)
    BY <2>1, <2>4, OtherCallsCpu DEF AllocateAndSetRunning, Call
  <2>5. CASE \E r \in Requests : ScheduleRunning(r)
    BY <2>1, <2>5, OtherCallsCpu DEF ScheduleRunning, Call
  <2>6. CASE BuildMetadata
    <3>1. PICK list, layers, S : \E o \in EvictToCachedLayerRatio(mgr, list, length, layers) :
            mgr' = o.mgr \/ \E p \in BuildPartialRecomputePlans(o.mgr, S) : mgr' = p.mgr
      BY <2>6 DEF BuildMetadata, Call
    <3>2. PICK o \in EvictToCachedLayerRatio(mgr, list, length, layers) :
            mgr' = o.mgr \/ \E p \in BuildPartialRecomputePlans(o.mgr, S) : mgr' = p.mgr
      BY <3>1
    <3>3. SameCpu(mgr, o.mgr)
      BY <2>1, <3>2, OtherCallsCpu
    <3>4. mgr' = o.mgr \/ SameCpu(o.mgr, mgr')
      BY <3>2, <3>3, OtherCallsCpu DEF SameCpu
    <3> QED BY <3>3, <3>4 DEF SameCpu
  <2>7. CASE \E r \in Requests : ProcessOutputs(r)
    <3>1. PICK r \in Requests : \E n : \E parent, ended, dropped, o :
            Output(r, SubSeq(SeqsIn(r, "absent"), 1, n), parent, ended, dropped, o)
      BY <2>7, OutputIs
    <3>2. PICK born, parent, ended, dropped, o : Output(r, born, parent, ended, dropped, o)
      BY <3>1
    <3>3. PICK kept, done : o \in Fork(mgr, kept, parent) /\ ForkedAndFreed(o, done)
      BY <3>2 DEF Output
    <3>4. SameCpu(mgr, o.mgr)
      BY <2>1, <3>3, OtherCallsCpu
    <3>5. SameCpu(o.mgr, Free(o.mgr, done))
      BY <3>4, FreeCpu DEF SameCpu
    <3>6. mgr' = Free(o.mgr, done)
      <4>1. [o EXCEPT !.mgr = Free(o.mgr, done)].mgr = Free(o.mgr, done)
        BY <3>3 DEF Fork
      <4> QED BY <3>3, <4>1 DEF ForkedAndFreed, Call
    <3> QED BY <3>4, <3>5, <3>6 DEF SameCpu
  <2>8. CASE \/ \E r \in Requests, n \in PromptLengths : AddSeqGroup(r, n)
             \/ \E r \in Requests : IgnoreSeqGroup(r)
             \/ Schedule \/ EndPrefills \/ EndRunning \/ EndSwapped \/ UNCHANGED vars
    <3>1. mgr' = mgr
      BY <2>8 DEF AddSeqGroup, IgnoreSeqGroup, Schedule, EndPrefills, EndRunning, EndSwapped, vars
    <3> QED BY <2>2, <3>1
  <2> QED BY <1>3, <2>3, <2>4, <2>5, <2>6, <2>7, <2>8 DEF Next, Iterate
<1> QED BY <1>1, <1>2, <1>3, CpuStays

\* No CPU block is lost or used twice, however sequences are swapped, aborted and
\* brought back.
THEOREM NoCpuBlockLost == Spec => []CpuBlocksAccounted
<1>1. Init => CpuInv
  <2> SUFFICES ASSUME Init PROVE CpuInv
    OBVIOUS
  <2>1. /\ mgr.cpu = [g \in Groups |-> CpuBlocks] /\ DOMAIN mgr.swapped = {}
    BY DEF Init, EmptyManager
  <2> QED BY <2>1 DEF CpuInv, CpuKept, CpuPart
<1>2. Spec => []CpuInv
  BY <1>1, NextCpu, Inductive, PTL DEF Spec
<1>3. CpuInv => CpuBlocksAccounted
  BY DEF CpuInv, CpuKept, CpuPart, Holding, CpuBlocksAccounted
<1> QED BY <1>2, <1>3, PTL

-----------------------------------------------------------------------------
(* The sequence budget.                                                    *)

RunningBy(st) == {r \in Requests : \E s \in Ids(r) : st[s] = "running"}

Gone == {"absent", "removed"}

WidthBy(st, r) ==
    IF r \in Beam \/ \E s \in Ids(r) : st[s] \in Gone
    THEN Cardinality(Ids(r))
    ELSE Cardinality({s \in Ids(r) : st[s] \in Live})

Widths(st) == [r \in Requests |-> WidthBy(st, r)]

\* Widths are numbers.
LEMMA WidthsAre ==
    ASSUME NEW st, NEW r \in Requests
    PROVE  /\ IsFiniteSet(Ids(r)) /\ Cardinality(Ids(r)) = Len(SeqsOf[r])
           /\ WidthBy(st, r) \in Nat
<1>1. IsFiniteSet(Ids(r)) /\ Cardinality(Ids(r)) = Len(SeqsOf[r])
  BY IdsAre, DistinctLen DEF Ids
<1>2. IsFiniteSet({s \in Ids(r) : st[s] \in Live})
  BY <1>1, FS_Subset
<1> QED BY <1>1, <1>2, FS_CardinalityType DEF WidthBy

\* get_max_num_running_seqs by the statuses.
LEMMA WidthIs ==
    ASSUME NEW r \in Requests
    PROVE  MaxNumRunningSeqs(r) = WidthBy(status, r)
<1> DEFINE S == {s \in Seqs : status[s] \notin Gone}
           L == {s \in Seqs : status[s] \in Live}
<1>1. Members(r) = Only(SeqsOf[r], S) /\ Unfinished(r) = Only(SeqsOf[r], L)
  BY DEF Members, Unfinished, Gone, Live
<1> HIDE DEF S, L
<1>2. /\ Members(r) \in Seq(Seqs) /\ Distinct(Members(r)) /\ Listed(Members(r)) = Ids(r) \cap S
      /\ Unfinished(r) \in Seq(Seqs) /\ Distinct(Unfinished(r))
      /\ Listed(Unfinished(r)) = Ids(r) \cap L
  BY <1>1, IdsAre, OnlyIs DEF Ids
<1>3. /\ Len(Members(r)) = Cardinality(Ids(r) \cap S)
      /\ Len(Unfinished(r)) = Cardinality(Ids(r) \cap L)
  BY <1>2, DistinctLen
<1>4. IsFiniteSet(Ids(r)) /\ Cardinality(Ids(r)) = Len(SeqsOf[r]) /\ Ids(r) \subseteq Seqs
  BY WidthsAre, IdsAre
<1>5. Len(SeqsOf[r]) > Len(Members(r)) <=> \E s \in Ids(r) : status[s] \in Gone
  <2>1. /\ IsFiniteSet(Ids(r) \cap S) /\ Cardinality(Ids(r) \cap S) <= Cardinality(Ids(r))
        /\ Cardinality(Ids(r)) = Cardinality(Ids(r) \cap S) => Ids(r) = Ids(r) \cap S
    <3>1. Ids(r) \cap S \in SUBSET Ids(r)
      OBVIOUS
    <3> QED BY <1>4, <3>1, FS_Subset
  <2>2. Cardinality(Ids(r)) \in Nat /\ Cardinality(Ids(r) \cap S) \in Nat
    BY <1>4, <2>1, FS_CardinalityType
  <2>3. Ids(r) = Ids(r) \cap S <=> ~(\E s \in Ids(r) : status[s] \in Gone)
    BY <1>4 DEF S
  <2>4. Cardinality(Ids(r)) > Cardinality(Ids(r) \cap S) <=> Ids(r) # Ids(r) \cap S
    <3> HIDE DEF S
    <3> QED BY <2>1, <2>2
  <2> QED BY <1>3, <1>4, <2>3, <2>4
<1>6. Ids(r) \cap L = {s \in Ids(r) : status[s] \in Live}
  BY <1>4 DEF L
<1> QED BY <1>3, <1>4, <1>5, <1>6 DEF MaxNumRunningSeqs, WidthBy

\* budget.num_curr_seqs is the number of dots of the requests that run.
LEMMA NumCurrIs ==
    /\ Having("running") = RunningBy(status)
    /\ NumCurrSeqs = Cardinality(Dots(RunningBy(status), Widths(status)))
<1> DEFINE S == Having("running")
           f == [r \in S |-> MaxNumRunningSeqs(r)]
           body(h) == [s \in SUBSET S |->
                         IF s = {} THEN 0
                         ELSE MaxNumRunningSeqs(CHOOSE x \in s : TRUE) + h[s \ {CHOOSE x \in s : TRUE}]]
<1>1. S = RunningBy(status)
  <2>1. \A r \in Requests : r \in S <=> \E s \in Ids(r) : status[s] = "running"
    BY SeqsInAre
  <2> QED BY <2>1 DEF RunningBy, Having
<1>2. S \in SUBSET Requests /\ IsFiniteSet(S)
  BY SchedulerAssumption, FS_Subset DEF Having
<1>3. Widths(status) \in [Requests -> Nat] /\ \A r \in S : Widths(status)[r] = MaxNumRunningSeqs(r)
  BY <1>2, WidthsAre, WidthIs DEF Widths
<1>4. ASSUME NEW h
      PROVE  body(h) = SumBody(h, S, Widths(status))
  <2> DEFINE G(s) == MaxNumRunningSeqs(CHOOSE x \in s : TRUE) + h[s \ {CHOOSE x \in s : TRUE}]
             H(s) == Widths(status)[CHOOSE x \in s : TRUE] + h[s \ {CHOOSE x \in s : TRUE}]
  <2>1. \A s \in SUBSET S : s # {} => G(s) = H(s)
    <3> SUFFICES ASSUME NEW s \in SUBSET S, s # {}
                 PROVE  G(s) = H(s)
      OBVIOUS
    <3>1. PICK y : y = CHOOSE x \in s : TRUE
      OBVIOUS
    <3>2. y \in S
      BY <3>1
    <3> QED BY <1>3, <3>1, <3>2
  <2> HIDE DEF G, H
  <2>2. [s \in SUBSET S |-> IF s = {} THEN 0 ELSE G(s)]
          = [s \in SUBSET S |-> IF s = {} THEN 0 ELSE H(s)]
    BY <2>1
  <2> QED BY <2>2 DEF SumBody, G, H
<1>5. NumCurrSeqs = (CHOOSE h : h = body(h))[S]
  BY DEF NumCurrSeqs, MapThenSumSet, MapThenFoldSet
<1> HIDE DEF body
<1>6. \E h : h = body(h)
  BY <1>2, <1>3, <1>4, SumDefined
<1>7. PICK h : h = body(h) /\ NumCurrSeqs = h[S]
  BY <1>5, <1>6
<1>8. h[S] = Cardinality(Dots(S, Widths(status)))
  BY <1>2, <1>3, <1>4, <1>7, SumIs
<1> QED BY <1>1, <1>7, <1>8

\* A request gets no wider when no sequence of it leaves, unless it is as wide as
\* it can be, and none that ended comes back.
Narrows(st, su, r) ==
    /\ r \in Beam \/ \A s \in Ids(r) : su[s] \in Gone => st[s] \in Gone
    /\ \A s \in Ids(r) : su[s] \in Live => st[s] \in Live \cup {"absent"}

\* Narrows names enough for that.
LEMMA NarrowWidth ==
    ASSUME NEW st, NEW su, NEW r \in Requests, Narrows(st, su, r)
    PROVE  WidthBy(su, r) <= WidthBy(st, r)
<1> DEFINE L(v) == {s \in Ids(r) : v[s] \in Live}
<1>1. IsFiniteSet(Ids(r))
  BY WidthsAre
<1>2. \A v : IsFiniteSet(L(v)) /\ Cardinality(L(v)) <= Cardinality(Ids(r))
  <2> SUFFICES ASSUME NEW v
               PROVE  IsFiniteSet(L(v)) /\ Cardinality(L(v)) <= Cardinality(Ids(r))
    OBVIOUS
  <2>1. L(v) \in SUBSET Ids(r)
    OBVIOUS
  <2> HIDE DEF L
  <2> QED BY <1>1, <2>1, FS_Subset
<1>3. Cardinality(Ids(r)) \in Nat /\ \A v : Cardinality(L(v)) \in Nat
  BY <1>1, <1>2, FS_CardinalityType
<1>4. \A v : WidthBy(v, r) = IF r \in Beam \/ \E s \in Ids(r) : v[s] \in Gone
                             THEN Cardinality(Ids(r))
                             ELSE Cardinality(L(v))
  BY DEF WidthBy
<1>5. CASE r \in Beam \/ \E s \in Ids(r) : st[s] \in Gone
  <2>1. WidthBy(st, r) = Cardinality(Ids(r))
    BY <1>4, <1>5
  <2> HIDE DEF L
  <2> QED BY <1>2, <1>3, <1>4, <2>1
<1>6. CASE ~(r \in Beam \/ \E s \in Ids(r) : st[s] \in Gone)
  <2>1. WidthBy(st, r) = Cardinality(L(st)) /\ WidthBy(su, r) = Cardinality(L(su))
    BY <1>4, <1>6 DEF Narrows
  <2>2. L(su) \in SUBSET L(st)
    BY <1>6 DEF Narrows, Gone
  <2> HIDE DEF L
  <2> QED BY <1>2, <2>1, <2>2, FS_Subset
<1> QED BY <1>5, <1>6

\* The running sequences, and those that they may still fork into, in the dots of
\* the requests that run.
Within == Cardinality(Dots(RunningBy(status), Widths(status))) <= MaxNumSeqs

\* In a step that lets a request run that can_schedule admits, or none.
LEMMA WithinStays ==
    ASSUME Within, \A r \in Requests : Narrows(status, status', r),
           \/ RunningBy(status') \subseteq RunningBy(status)
           \/ \E q \in Requests : /\ RunningBy(status') \subseteq RunningBy(status) \cup {q}
                                  /\ CanSchedule(q) /\ maxSeqs <= MaxNumSeqs /\ maxSeqs \in Nat
    PROVE  Within'
<1> DEFINE R == RunningBy(status)
           f == Widths(status)
           h == Widths(status')
           D == Dots(RunningBy(status'), h)
<1>1. /\ f \in [Requests -> Nat] /\ h \in [Requests -> Nat]
      /\ \A r \in Requests : h[r] <= f[r]
  BY WidthsAre, NarrowWidth DEF Widths
<1>2. \A S \in SUBSET Requests : IsFiniteSet(S) /\ IsFiniteSet(Dots(S, f))
                                 /\ Cardinality(Dots(S, f)) \in Nat
  <2> SUFFICES ASSUME NEW S \in SUBSET Requests
               PROVE  IsFiniteSet(S) /\ IsFiniteSet(Dots(S, f)) /\ Cardinality(Dots(S, f)) \in Nat
    OBVIOUS
  <2>1. IsFiniteSet(S)
    BY SchedulerAssumption, FS_Subset
  <2> HIDE DEF f
  <2>2. PICK g : g = SumBody(g, S, f)
    BY <1>1, <2>1, SumDefined
  <2> QED BY <1>1, <2>1, <2>2, SumIs
<1>3. R \in SUBSET Requests /\ RunningBy(status') \in SUBSET Requests
  BY DEF RunningBy
<1>4. \A S \in SUBSET Requests : RunningBy(status') \subseteq S => D \in SUBSET Dots(S, f)
  <2> HIDE DEF f, h
  <2> QED BY <1>1 DEF Dots
<1>5. Cardinality(Dots(R, f)) <= MaxNumSeqs /\ MaxNumSeqs \in Nat
  BY SchedulerAssumption DEF Within
<1>6. \A S \in SUBSET Requests : RunningBy(status') \subseteq S
        => Cardinality(D) <= Cardinality(Dots(S, f)) /\ Cardinality(D) \in Nat
  <2> HIDE DEF D, f, h, R
  <2> QED BY <1>2, <1>4, FS_Subset, FS_CardinalityType
<1>7. ASSUME NEW q \in Requests, CanSchedule(q), maxSeqs <= MaxNumSeqs, maxSeqs \in Nat
      PROVE  Cardinality(Dots(R \cup {q}, f)) <= MaxNumSeqs
  <2>1. Cardinality(Dots(R, f)) + f[q] <= MaxNumSeqs
    <3>1. NumCurrSeqs = Cardinality(Dots(R, f)) /\ MaxNumRunningSeqs(q) = f[q]
      BY <1>7, NumCurrIs, WidthIs DEF Widths
    <3>2. NumCurrSeqs + MaxNumRunningSeqs(q) <= maxSeqs
      BY <1>7 DEF CanSchedule
    <3>3. Cardinality(Dots(R, f)) \in Nat /\ f[q] \in Nat
      BY <1>1, <1>2, <1>3, <1>7
    <3> HIDE DEF R, f
    <3> QED BY <1>5, <1>7, <3>1, <3>2, <3>3
  <2>2. CASE q \in R
    <3>1. R \cup {q} = R
      BY <2>2
    <3> QED BY <1>5, <3>1
  <2>3. CASE q \notin R
    <3>1. IsFiniteSet(Dots(R, f))
      BY <1>2, <1>3
    <3> HIDE DEF R, f
    <3>2. Cardinality(Dots(R \cup {q}, f)) = f[q] + Cardinality(Dots(R, f))
      BY <1>1, <1>3, <1>7, <2>3, <3>1, DotsOne
    <3>3. Cardinality(Dots(R, f)) \in Nat /\ f[q] \in Nat
      BY <1>1, <1>2, <1>3, <1>7
    <3> QED BY <2>1, <3>2, <3>3
  <2> QED BY <2>2, <2>3
<1>8. Cardinality(D) <= MaxNumSeqs
  <2>1. CASE RunningBy(status') \subseteq R
    <3> HIDE DEF D, f, h
    <3> QED BY <1>2, <1>3, <1>5, <1>6, <2>1
  <2>2. ASSUME NEW q \in Requests, RunningBy(status') \subseteq R \cup {q},
               CanSchedule(q), maxSeqs <= MaxNumSeqs, maxSeqs \in Nat
        PROVE  Cardinality(D) <= MaxNumSeqs
    <3>1. R \cup {q} \in SUBSET Requests /\ Cardinality(Dots(R \cup {q}, f)) <= MaxNumSeqs
      BY <1>3, <1>7, <2>2
    <3> HIDE DEF D, f, h, R
    <3> QED BY <1>2, <1>5, <1>6, <2>2, <3>1
  <2> QED BY <2>1, <2>2
<1> QED BY <1>8 DEF Within

\* The sequences of a list of r, all unfinished, get another status.
LEMMA QueueNarrows ==
    ASSUME status \in [Seqs -> Statuses], NEW r \in Requests, NEW list, NEW st,
           st \notin Gone, SetStatus(list, st),
           \A s \in ToSet(list) : s \in Ids(r) /\ status[s] \in Live
    PROVE  /\ \A q \in Requests : Narrows(status, status', q)
           /\ RunningBy(status') \subseteq IF st = "running"
                                           THEN RunningBy(status) \cup {r}
                                           ELSE RunningBy(status)
<1>1. \A s \in Seqs : status'[s] = IF s \in ToSet(list) THEN st ELSE status[s]
  BY DEF SetStatus
<1>2. \A q \in Requests : Ids(q) \subseteq Seqs
  BY IdsAre
<1>3. ASSUME NEW q \in Requests
      PROVE  Narrows(status, status', q)
  <2>1. \A s \in Ids(q) : status'[s] \in Gone => status[s] \in Gone
    BY <1>1, <1>2
  <2>2. \A s \in Ids(q) : status'[s] \in Live => status[s] \in Live
    BY <1>1, <1>2
  <2> QED BY <2>1, <2>2 DEF Narrows
<1>4. ASSUME NEW q \in RunningBy(status'), q \notin RunningBy(status)
      PROVE  st = "running" /\ q = r
  <2>1. q \in Requests
    BY <1>4 DEF RunningBy
  <2>2. PICK s \in Ids(q) : status'[s] = "running"
    BY <1>4 DEF RunningBy
  <2>3. s \in Seqs /\ status[s] # "running"
    BY <1>2, <1>4, <2>1, <2>2 DEF RunningBy
  <2>4. s \in ToSet(list) /\ st = "running"
    BY <1>1, <2>2, <2>3
  <2>5. q = r
    BY <2>1, <2>2, <2>4, IdsAre
  <2> QED BY <2>4, <2>5
<1> QED BY <1>3, <1>4

\* Outputs: the children of a request that runs run, and only beam search takes
\* sequences out of a request, which is as wide as it can be then.
LEMMA OutputsNarrow ==
    ASSUME IInv, NEW r \in Requests, ProcessOutputs(r)
    PROVE  /\ \A q \in Requests : Narrows(status, status', q)
           /\ RunningBy(status') \subseteq RunningBy(status)
<1>1. PICK n \in 0 .. Len(SeqsIn(r, "absent")) : \E parent, ended, dropped, o :
        Output(r, SubSeq(SeqsIn(r, "absent"), 1, n), parent, ended, dropped, o)
  BY OutputIs
<1>2. PICK born : born = SubSeq(SeqsIn(r, "absent"), 1, n)
  OBVIOUS
<1>3. PICK parent, ended, dropped, o : Output(r, born, parent, ended, dropped, o)
  BY <1>1, <1>2
<1> DEFINE running == ToSet(SeqsIn(r, "running"))
           now == running \cup ToSet(born)
<1>4. running = {s \in Ids(r) : status[s] = "running"}
  BY SeqsInAre
<1>5. \A s \in ToSet(born) : s \in Ids(r) /\ status[s] = "absent"
  <2>1. /\ SeqsIn(r, "absent") \in Seq(Seqs)
        /\ Listed(SeqsIn(r, "absent")) = {t \in Ids(r) : status[t] = "absent"}
    BY SeqsInAre
  <2>2. born \in Seq(Seqs) /\ Listed(born) \subseteq Listed(SeqsIn(r, "absent"))
    BY <1>2, <2>1, SubSeqIs
  <2>3. ToSet(born) = Listed(born)
    BY <2>2, ListedIs
  <2> QED BY <2>1, <2>2, <2>3
<1>6. ToSet(SeqsIn(r, "finished")) = {s \in Ids(r) : status[s] = "finished"}
  BY SeqsInAre
<1>7. /\ \A s \in ToSet(born) : parent[s] \in running
      /\ ended \subseteq now
      /\ \A s \in dropped : s \in now \/ s \in ToSet(SeqsIn(r, "finished"))
      /\ r \notin Beam => dropped = {}
      /\ status' = [s \in Seqs |-> IF s \in dropped THEN "removed"
                                   ELSE IF s \in ended THEN "finished"
                                   ELSE IF s \in now THEN "running"
                                   ELSE status[s]]
  BY <1>3 DEF Output
<1>8. \A s \in now : s \in Ids(r) /\ status[s] \in {"running", "absent"}
  BY <1>4, <1>5
<1>9. \A s \in dropped : s \in Ids(r)
  BY <1>6, <1>7, <1>8
<1> HIDE DEF now
<1>10. \A q \in Requests : Ids(q) \subseteq Seqs
  BY IdsAre
<1>11. ASSUME NEW q \in Requests
       PROVE  Narrows(status, status', q)
  <2>1. \A s \in Ids(q) : s \in dropped => q = r
    BY <1>9, IdsAre
  <2>2. q \in Beam \/ \A s \in Ids(q) : s \notin dropped
    BY <1>7, <2>1
  <2>3. q \in Beam \/ \A s \in Ids(q) : status'[s] \in Gone => status[s] \in Gone
    BY <1>7, <1>10, <2>2 DEF Gone
  <2>4. \A s \in Ids(q) : status'[s] \in Live => status[s] \in Live \cup {"absent"}
    BY <1>7, <1>8, <1>10 DEF Live
  <2> QED BY <2>3, <2>4 DEF Narrows
<1>12. ASSUME NEW q \in RunningBy(status')
       PROVE  q \in RunningBy(status)
  <2>1. q \in Requests
    BY <1>12 DEF RunningBy
  <2>2. PICK s \in Ids(q) : status'[s] = "running"
    BY <1>12 DEF RunningBy
  <2>3. s \in now \/ status[s] = "running"
    BY <1>7, <1>10, <2>1, <2>2
  <2>4. CASE s \in now
    <3>1. q = r
      BY <1>8, <2>1, <2>2, <2>4, IdsAre
    <3>2. running # {}
      BY <1>7, <2>4 DEF now
    <3> QED BY <1>4, <3>1, <3>2 DEF RunningBy
  <2> QED BY <2>1, <2>2, <2>3, <2>4 DEF RunningBy
<1> QED BY <1>11, <1>12

\* Every step keeps within the limit.
LEMMA NextWithin == IInv /\ Within /\ [Next]_vars => Within'
<1> SUFFICES ASSUME IInv, Within, [Next]_vars
             PROVE  Within'
  OBVIOUS
<1>1. status \in [Seqs -> Statuses] /\ maxSeqs <= MaxNumSeqs /\ maxSeqs \in Nat
  BY SchedulerAssumption DEF IInv, Typed
<1>2. \A r \in Requests, st \in Statuses :
        \A s \in ToSet(SeqsIn(r, st)) : s \in Ids(r) /\ status[s] = st
  BY SeqsInAre
<1>3. CASE \E r \in Requests, n \in PromptLengths : AddSeqGroup(r, n)
  <2>1. PICK f : status[f] = "absent" /\ status' = [status EXCEPT ![f] = "waiting"]
    BY <1>3 DEF AddSeqGroup
  <2>2. \A r \in Requests : \A s \in Ids(r) :
          /\ status'[s] \in Gone => status[s] \in Gone
          /\ status'[s] \in Live => status[s] \in Live \cup {"absent"}
          /\ status'[s] = "running" => status[s] = "running"
    BY <1>1, <2>1, IdsAre DEF Gone
  <2>3. RunningBy(status') \subseteq RunningBy(status)
    BY <2>2 DEF RunningBy
  <2>4. \A r \in Requests : Narrows(status, status', r)
    BY <2>2 DEF Narrows
  <2> QED BY <2>3, <2>4, WithinStays
<1>4. CASE \E r \in Requests : AbortSeqGroup(r)
  <2>1. PICK r \in Requests : SetStatus(Unfinished(r), "finished")
    BY <1>4 DEF AbortSeqGroup
  <2>2. \A s \in ToSet(Unfinished(r)) : s \in Ids(r) /\ status[s] \in Live
    BY UnfinishedAre
  <2>3. /\ \A q \in Requests : Narrows(status, status', q)
        /\ RunningBy(status') \subseteq RunningBy(status)
    BY <1>1, <2>1, <2>2, QueueNarrows DEF Gone
  <2> QED BY <2>3, WithinStays
<1>5. CASE \E r \in Requests : IgnoreSeqGroup(r)
  <2>1. PICK r \in Requests : SetStatus(SeqsIn(r, "waiting"), "finished")
    BY <1>5 DEF IgnoreSeqGroup
  <2>2. \A s \in ToSet(SeqsIn(r, "waiting")) : s \in Ids(r) /\ status[s] \in Live
    BY <1>2 DEF Live, Statuses
  <2>3. /\ \A q \in Requests : Narrows(status, status', q)
        /\ RunningBy(status') \subseteq RunningBy(status)
    BY <1>1, <2>1, <2>2, QueueNarrows DEF Gone
  <2> QED BY <2>3, WithinStays
<1>6. CASE \E r, v \in Requests : Preempt(r, v)
  <2>1. PICK v \in Requests : \/ status' = status
                              \/ SetStatus(SeqsIn(v, "running"), "waiting")
                              \/ SetStatus(SeqsIn(v, "running"), "swapped")
    BY <1>6 DEF Preempt, PreemptBySwap, PreemptByRecompute
  <2>2. \A s \in ToSet(SeqsIn(v, "running")) : s \in Ids(v) /\ status[s] \in Live
    BY <1>2 DEF Live, Statuses
  <2>3. CASE status' = status
    <3>1. \A q \in Requests : Narrows(status, status', q)
      BY <2>3 DEF Narrows
    <3> QED BY <2>3, <3>1, WithinStays
  <2>4. CASE status' # status
    <3>1. PICK st \in {"waiting", "swapped"} : SetStatus(SeqsIn(v, "running"), st)
      BY <2>1, <2>4
    <3>2. /\ \A q \in Requests : Narrows(status, status', q)
          /\ RunningBy(status') \subseteq RunningBy(status)
      BY <1>1, <2>2, <3>1, QueueNarrows DEF Gone
    <3> QED BY <3>2, WithinStays
  <2> QED BY <2>3, <2>4
<1>7. CASE \E r \in Requests : AllocateAndSetRunning(r) \/ ScheduleSwapped(r)
  <2>1. PICK r \in Requests : /\ CanSchedule(r)
                              /\ \/ status' = status
                                 \/ SetStatus(SeqsIn(r, "waiting"), "running")
                                 \/ SetStatus(SeqsIn(r, "swapped"), "running")
    BY <1>7 DEF AllocateAndSetRunning, ScheduleSwapped
  <2>2. CASE status' = status
    <3>1. \A q \in Requests : Narrows(status, status', q)
      BY <2>2 DEF Narrows
    <3> QED BY <2>2, <3>1, WithinStays
  <2>3. CASE status' # status
    <3>1. PICK st \in {"waiting", "swapped"} : SetStatus(SeqsIn(r, st), "running")
      BY <2>1, <2>3
    <3>2. \A s \in ToSet(SeqsIn(r, st)) : s \in Ids(r) /\ status[s] \in Live
      BY <1>2, <3>1 DEF Live, Statuses
    <3>3. /\ \A q \in Requests : Narrows(status, status', q)
          /\ RunningBy(status') \subseteq RunningBy(status) \cup {r}
      BY <1>1, <3>1, <3>2, QueueNarrows DEF Gone
    <3> QED BY <1>1, <2>1, <3>3, WithinStays
  <2> QED BY <2>2, <2>3
<1>8. CASE \E r \in Requests : ProcessOutputs(r)
  BY <1>8, OutputsNarrow, WithinStays
<1>9. CASE \/ Schedule \/ EndPrefills \/ EndRunning \/ EndSwapped \/ BuildMetadata
           \/ \E r \in Requests : ScheduleRunning(r)
           \/ UNCHANGED vars
  <2>1. status' = status
    BY <1>9 DEF Schedule, EndPrefills, EndRunning, EndSwapped, BuildMetadata, ScheduleRunning, vars
  <2>2. \A q \in Requests : Narrows(status, status', q)
    BY <2>1 DEF Narrows
  <2> QED BY <2>1, <2>2, WithinStays
<1> QED BY <1>3, <1>4, <1>5, <1>6, <1>7, <1>8, <1>9 DEF Next, Iterate

\* The requests that run never take more than max_num_seqs, their children counted
\* that are not born: what schedule() asserts when it has filled its batch.
THEOREM BudgetKept == Spec => []WithinLimit
<1>1. Init => Within
  <2> SUFFICES ASSUME Init PROVE Within
    OBVIOUS
  <2>1. RunningBy(status) = {}
    BY IdsAre DEF Init, RunningBy
  <2>2. Dots(RunningBy(status), Widths(status)) = {}
    BY <2>1 DEF Dots
  <2> QED BY <2>2, FS_EmptySet, SchedulerAssumption DEF Within
<1>2. Spec => []Within
  BY <1>1, NextWithin, Inductive, PTL DEF Spec
<1>3. Within => WithinLimit
  BY NumCurrIs DEF Within, WithinLimit
<1> QED BY <1>2, <1>3, PTL

-----------------------------------------------------------------------------
(* What the manager agreed to.                                             *)

\* Admission does not raise.
LEMMA AdmitSucceeds ==
    ASSUME IInv, NEW r \in Requests, AllocateAndSetRunning(r)
    PROVE  fault' = "none"
<1> DEFINE list == SeqsIn(r, "waiting")
<1>1. fault = "none" /\ CanAllocate(mgr, list, length) = "OK"
  BY DEF AllocateAndSetRunning, At
<1>2. PICK o \in Allocate(mgr, list, length) :
        fault' = IF o.raised = "none" THEN "none" ELSE "allocate"
  BY DEF AllocateAndSetRunning, Call
<1>3. /\ list \in Seq(Seqs) /\ Distinct(list)
      /\ Listed(list) = {s \in Ids(r) : status[s] = "waiting"}
  BY SeqsInAre
<1>4. Ids(r) \subseteq Seqs
  BY IdsAre
<1> HIDE DEF list
<1>5. /\ MapOK(mgr.map)
      /\ \A s \in Ids(r) : InLine(mgr.map, s, status[s], length[s], r, batch)
  BY <1>1 DEF IInv, Typed, Settled
<1>6. length \in [Seqs -> 0 .. MaxTokens - 1]
  BY DEF IInv, Typed
<1>7. \A s \in Listed(list) : length[s] \in 1 .. MaxTokens /\ s \notin Present(mgr.map)
  <2> SUFFICES ASSUME NEW s \in Listed(list)
               PROVE  length[s] \in 1 .. MaxTokens /\ s \notin Present(mgr.map)
    OBVIOUS
  <2>1. s \in Ids(r) /\ s \in Seqs /\ status[s] = "waiting"
    BY <1>3, <1>4
  <2>2. mgr.map.length[s] = 0 /\ length[s] >= 1
    BY <1>5, <2>1 DEF InLine, Live
  <2>3. length[s] \in 0 .. MaxTokens - 1
    BY <1>6, <2>1
  <2>4. s \notin Present(mgr.map)
    BY <2>2 DEF Present
  <2> QED BY <2>2, <2>3, <2>4, SizesAssumption
<1>8. o.raised = "none"
  BY <1>1, <1>2, <1>3, <1>5, <1>7, AllocateSucceeds
<1> QED BY <1>2, <1>8

\* Decoding does not raise.
LEMMA DecodeSucceeds ==
    ASSUME BlockSize > 1, IInv, NEW r \in Requests, ScheduleRunning(r)
    PROVE  fault' = "none"
<1> DEFINE list == SeqsIn(r, "running")
<1>1. fault = "none" /\ r \notin batch /\ CanAppendSlots(mgr, list, length)
  BY DEF ScheduleRunning, At, Queued
<1>2. PICK o \in AppendSlots(mgr, list, length) :
        fault' = IF o.raised = "none" THEN "none" ELSE "append"
  BY DEF ScheduleRunning, Call
<1>3. /\ list \in Seq(Seqs) /\ Distinct(list)
      /\ Listed(list) = {s \in Ids(r) : status[s] = "running"}
  BY SeqsInAre
<1>4. Ids(r) \subseteq Seqs
  BY IdsAre
<1> HIDE DEF list
<1>5. /\ MapOK(mgr.map)
      /\ \A s \in Ids(r) : InLine(mgr.map, s, status[s], length[s], r, batch)
  BY <1>1 DEF IInv, Typed, Settled
<1>6. length \in [Seqs -> 0 .. MaxTokens - 1]
  BY DEF IInv, Typed
<1>7. Behind(mgr.map, list, length)
  <2> SUFFICES ASSUME NEW s \in Listed(list)
               PROVE  /\ mgr.map.length[s] > 0 /\ length[s] = mgr.map.length[s] + 1
                      /\ length[s] <= MaxTokens
    BY DEF Behind
  <2>1. s \in Ids(r) /\ s \in Seqs /\ status[s] = "running"
    BY <1>3, <1>4
  <2>2. mgr.map.length[s] = length[s] - 1 /\ length[s] >= 2
    BY <1>1, <1>5, <2>1 DEF InLine
  <2>3. length[s] \in 0 .. MaxTokens - 1
    BY <1>6, <2>1
  <2> QED BY <2>2, <2>3, SizesAssumption
<1>8. o.raised = "none"
  BY <1>1, <1>2, <1>3, <1>5, <1>7, AppendSucceeds
<1> QED BY <1>2, <1>8

\* Coming back from the CPU, the allocation does not raise; the append after it may.
LEMMA SwapInReturns ==
    ASSUME IInv, NEW r \in Requests, ScheduleSwapped(r)
    PROVE  fault' \in {"none", "append after swap-in"}
<1> DEFINE list == SeqsIn(r, "swapped")
<1>1. fault = "none" /\ CanSwapIn(mgr, list) = "OK"
  BY DEF ScheduleSwapped, At
<1>2. PICK o \in SwapIn(mgr, list) :
        IF o.raised = "none"
        THEN \E p \in AppendSlots(o.mgr, list, length) : Call(p, "append after swap-in")
        ELSE Call(o, "swap_in")
  BY DEF ScheduleSwapped
<1>3. /\ list \in Seq(Seqs) /\ Distinct(list)
      /\ Listed(list) = {s \in Ids(r) : status[s] = "swapped"}
  BY SeqsInAre
<1>4. Ids(r) \subseteq Seqs
  BY IdsAre
<1> HIDE DEF list
<1>5. /\ MapOK(mgr.map) /\ RecordsKept
      /\ \A s \in Ids(r) : InLine(mgr.map, s, status[s], length[s], r, batch)
  BY <1>1 DEF IInv, Typed, Settled
<1>6. length \in [Seqs -> 0 .. MaxTokens - 1]
  BY DEF IInv, Typed
<1>7. ASSUME NEW s \in Listed(list)
      PROVE  /\ s \in DOMAIN mgr.swapped
             /\ mgr.swapped[s].length \in 1 .. MaxTokens /\ mgr.swapped[s].evicted \in Nat
             /\ mgr.swapped[s].evicted < NumLogicalBlocks(mgr.swapped[s].length)
             /\ s \notin Present(mgr.map)
             /\ Records(mgr.swapped[s], mgr.swapped[s].length, mgr.swapped[s].evicted)
  <2>1. s \in Ids(r) /\ s \in Seqs /\ status[s] = "swapped"
    BY <1>3, <1>4
  <2>2. HasRecord(mgr, s, length[s])
    BY <1>5, <2>1 DEF RecordsKept
  <2>3. length[s] \in 0 .. MaxTokens - 1 /\ length[s] >= 2
    BY <1>6, <2>1, <2>2 DEF HasRecord
  <2>4. mgr.swapped[s].length = length[s] - 1
    BY <2>2 DEF HasRecord, Records
  <2>5. mgr.swapped[s].length \in 1 .. MaxTokens
    BY <2>3, <2>4, SizesAssumption
  <2>6. mgr.map.length[s] = 0
    BY <1>5, <2>1 DEF InLine
  <2>7. s \notin Present(mgr.map)
    BY <2>6 DEF Present
  <2> QED BY <2>2, <2>4, <2>5, <2>7 DEF HasRecord
<1>8. Recorded(mgr, list)
  BY <1>7 DEF Recorded
<1>9. o.raised = "none"
  <2>1. \A s \in Listed(list) :
          /\ s \notin Present(mgr.map)
          /\ Records(mgr.swapped[s], mgr.swapped[s].length, mgr.swapped[s].evicted)
    BY <1>7
  <2> QED BY <1>1, <1>2, <1>3, <1>5, <1>8, <2>1, SwapInSucceeds
<1> QED BY <1>2, <1>9 DEF Call

\* Every step.
LEMMA NextSucceeds ==
    BlockSize > 1 /\ IInv /\ CheckedCallsSucceed /\ [Next]_vars => CheckedCallsSucceed'
<1> SUFFICES ASSUME BlockSize > 1, IInv, CheckedCallsSucceed, [Next]_vars
             PROVE  fault' \notin {"allocate", "append", "swap_in", "fork"}
  BY DEF CheckedCallsSucceed
<1>1. CASE \/ \E r \in Requests, n \in PromptLengths : AddSeqGroup(r, n)
           \/ \E r \in Requests : AbortSeqGroup(r) \/ IgnoreSeqGroup(r)
           \/ Schedule \/ EndPrefills \/ EndRunning \/ EndSwapped
           \/ UNCHANGED vars
  <2>1. fault' = fault
    BY <1>1 DEF AddSeqGroup, AbortSeqGroup, IgnoreSeqGroup, Schedule, EndPrefills, EndRunning,
                EndSwapped, vars
  <2> QED BY <2>1 DEF CheckedCallsSucceed
<1>2. CASE \E r \in Requests : AllocateAndSetRunning(r)
  BY <1>2, AdmitSucceeds
<1>3. CASE \E r \in Requests : ScheduleRunning(r)
  BY <1>3, DecodeSucceeds
<1>4. CASE \E r, v \in Requests : Preempt(r, v)
  <2>1. PICK v \in Requests : fault = "none" /\ (PreemptBySwap(v) \/ PreemptByRecompute(v))
    BY <1>4 DEF Preempt, At
  <2>2. fault' \in {"none", "recompute of several sequences", "CPU swap space"}
    BY <2>1 DEF PreemptBySwap, PreemptByRecompute
  <2> QED BY <2>2
<1>5. CASE \E r \in Requests : ScheduleSwapped(r)
  <2>1. fault' \in {"none", "append after swap-in"}
    BY <1>5, SwapInReturns
  <2> QED BY <2>1
<1>6. CASE BuildMetadata
  <2>1. fault' \in {"none", "evict", "plans", "prefill of several sequences"}
    BY <1>6 DEF BuildMetadata, Call
  <2> QED BY <2>1
<1>7. CASE \E r \in Requests : ProcessOutputs(r)
  BY <1>7, OutputsKeep
<1> QED BY <1>1, <1>2, <1>3, <1>4, <1>5, <1>6, <1>7 DEF Next, Iterate

\* What can_allocate, can_append_slots and can_swap_in agree to does not raise, nor
\* does fork, when a block has several slots: can_append_slots looks for lengths that
\* are one more than a multiple of the block size, which with blocks of one slot no
\* length is.
THEOREM ChecksSuffice ==
    ASSUME BlockSize > 1
    PROVE  Spec => []CheckedCallsSucceed
<1>1. Init => CheckedCallsSucceed
  BY DEF Init, CheckedCallsSucceed
<1>2. IInv /\ CheckedCallsSucceed /\ [Next]_vars => CheckedCallsSucceed'
  BY NextSucceeds
<1> QED BY <1>1, <1>2, Inductive, PTL DEF Spec

=============================================================================
