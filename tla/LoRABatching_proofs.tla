------------------------- MODULE LoRABatching_proofs -------------------------
(***************************************************************************)
(* For every number of requests, adapters, slots and places in CPU memory: *)
(* no batch needs more adapters than there are slots, the caches and the   *)
(* slots agree, a batch gets all of its adapters, and each row reads the   *)
(* slot of its own.                                                        *)
(***************************************************************************)
EXTENDS LoRABatching, Folding_proofs

Fits(S) == IsFiniteSet(S) /\ Cardinality(S) <= MaxLoras

Types ==
    /\ status \in [Requests -> {"absent", "waiting", "running", "swapped"}]
    /\ adapter \in [Requests -> LoRAs \cup {Base}]

\* curr_loras is right where a group may still join.  While decodes are scheduled
\* a preemption takes adapters out of it that the batch has, but nothing joins
\* after one.
CurrRight ==
    phase \in {"prefills", "swapped"} \/ (phase = "running" /\ ~preempted) =>
        Fits(curr) /\ LoRAsOf(Having("running")) \subseteq curr

\* BatchFits needs that the running groups fit, of which the next decode batch is
\* made.
IInv ==
    /\ Types
    /\ batch \subseteq Having("running")
    /\ phase = "idle" => batch = {}
    /\ Fits(LoRAsOf(Having("running")))
    /\ CurrRight

\* What fits the slots, fits with fewer adapters.
LEMMA SubsetFits ==
    ASSUME NEW S, NEW T, T \subseteq S, Fits(S)
    PROVE  Fits(T)
<1>1. IsFiniteSet(T) /\ Cardinality(T) <= Cardinality(S)
  BY FS_Subset DEF Fits
<1>2. Cardinality(S) \in Nat /\ Cardinality(T) \in Nat
  BY <1>1, FS_CardinalityType DEF Fits
<1> QED BY <1>1, <1>2, LoRAAssumption DEF Fits

\* What one more group adds to a set of adapters in which it has a place.
LEMMA OneMore ==
    ASSUME Fits(curr), NEW r \in Requests, HasSpace(r)
    PROVE  Fits(curr \cup LoRAsOf({r}))
<1>1. LoRAsOf({r}) = {adapter[r]} \ {Base}
  BY DEF LoRAsOf
<1>2. CASE adapter[r] \in curr \cup {Base}
  <2>1. curr \cup LoRAsOf({r}) = curr
    BY <1>1, <1>2
  <2> QED BY <2>1
<1>3. CASE adapter[r] \notin curr \cup {Base}
  <2>1. curr \cup LoRAsOf({r}) = curr \cup {adapter[r]}
    BY <1>1, <1>3
  <2>2. IsFiniteSet(curr \cup {adapter[r]})
        /\ Cardinality(curr \cup {adapter[r]}) = Cardinality(curr) + 1
    BY <1>3, FS_AddElement DEF Fits
  <2>3. Cardinality(curr) < MaxLoras /\ Cardinality(curr) \in Nat
    BY <1>3, FS_CardinalityType DEF HasSpace, Fits
  <2>4. Cardinality(curr \cup {adapter[r]}) <= MaxLoras
    BY <2>2, <2>3, LoRAAssumption
  <2> QED BY <2>1, <2>2, <2>4 DEF Fits
<1> QED BY <1>2, <1>3

\* The invariant holds at the start.
LEMMA InitInv == Init => IInv
<1> SUFFICES ASSUME Init PROVE IInv
  OBVIOUS
<1>1. LoRAsOf(Having("running")) = {} /\ Types
  BY DEF Init, LoRAsOf, Having, Types
<1>2. Fits({})
  BY FS_EmptySet, LoRAAssumption DEF Fits
<1> QED BY <1>1, <1>2 DEF Init, IInv, CurrRight, Having

\* Admission of a request keeps it.
LEMMA JoinInv ==
    ASSUME IInv, NEW r \in Requests, phase \in {"prefills", "swapped"}, Join(r)
    PROVE  IInv'
<1>1. Types' /\ batch' \subseteq Having("running")' /\ phase' # "idle"
  BY DEF IInv, Types, Join, Having
<1>2. LoRAsOf(Having("running"))' \subseteq curr'
  <2>1. LoRAsOf(Having("running")) \subseteq curr
    BY DEF IInv, CurrRight
  <2> QED BY <2>1 DEF LoRAsOf, Having, IInv, Types, Join
<1>3. Fits(curr)'
  BY OneMore DEF IInv, CurrRight, Join, Fits
<1>4. Fits(LoRAsOf(Having("running"))')
  BY <1>2, <1>3, SubsetFits DEF Fits
<1> QED BY <1>1, <1>2, <1>3, <1>4 DEF IInv, CurrRight, Fits

\* Steps after which no more adapters run than before, and no group joins.
LEMMA FewerRun ==
    ASSUME IInv, Types', batch' \subseteq Having("running")', CurrRight',
           phase' = "idle" => batch' = {},
           LoRAsOf(Having("running"))' \subseteq LoRAsOf(Having("running"))
    PROVE  IInv'
<1>1. Fits(LoRAsOf(Having("running"))')
  BY SubsetFits DEF IInv
<1> QED BY <1>1 DEF IInv, Fits

\* Every step keeps it.
LEMMA NextInv == IInv /\ [Next]_vars => IInv'
<1> SUFFICES ASSUME IInv, [Next]_vars PROVE IInv'
  OBVIOUS
<1> USE DEF At
<1>1. CASE UNCHANGED vars
  BY <1>1 DEF vars, IInv, Types, CurrRight, Fits, LoRAsOf, Having
<1>2. ASSUME NEW r \in Requests, NEW a \in Requestable[r], AddSeqGroup(r, a)
      PROVE  IInv'
  <2>1. a \in LoRAs \cup {Base}
    BY BatchingAssumption
  <2>2. Types' /\ Having("running")' = Having("running")
    BY <1>2, <2>1 DEF AddSeqGroup, IInv, Types, Having
  <2>3. LoRAsOf(Having("running"))' \subseteq LoRAsOf(Having("running"))
    BY <1>2, <2>2 DEF AddSeqGroup, LoRAsOf, Having, IInv, Types
  <2> QED BY <1>2, <2>2, <2>3, FewerRun DEF AddSeqGroup, CurrRight, IInv
<1>3. ASSUME NEW r \in Requests, AbortSeqGroup(r)
      PROVE  IInv'
  <2>1. Types' /\ batch' = batch
    BY <1>3 DEF AbortSeqGroup, IInv, Types
  <2>2. LoRAsOf(Having("running"))' \subseteq LoRAsOf(Having("running"))
    BY <1>3 DEF AbortSeqGroup, LoRAsOf, Having, IInv, Types
  <2> QED BY <1>3, <2>1, <2>2, FewerRun DEF AbortSeqGroup, CurrRight, IInv
<1>4. ASSUME NEW a \in Managed, EngineAddLora(a) \/ EngineRemoveLora(a)
      PROVE  IInv'
  BY <1>4 DEF EngineAddLora, EngineRemoveLora, IInv, Types, CurrRight, Fits, LoRAsOf, Having
<1>5. CASE Schedule
  BY <1>5 DEF Schedule, IInv, Types, CurrRight, Fits, LoRAsOf, Having
<1>6. ASSUME NEW r \in Requests, SchedulePrefill(r) \/ ScheduleSwapped(r)
      PROVE  IInv'
  BY <1>6, JoinInv DEF SchedulePrefill, ScheduleSwapped
<1>7. CASE EndPrefills
  BY <1>7 DEF EndPrefills, IInv, Types, CurrRight, Fits, LoRAsOf, Having
<1>8. ASSUME NEW r \in Requests, ScheduleRunning(r)
      PROVE  IInv'
  <2>1. LoRAsOf({r}) \subseteq LoRAsOf(Having("running"))
    BY <1>8 DEF ScheduleRunning, IsNext, Queued, LoRAsOf
  <2>2. ~preempted => curr' = curr
    BY <1>8, <2>1 DEF ScheduleRunning, IInv, CurrRight
  <2> QED BY <1>8, <2>2 DEF ScheduleRunning, IsNext, Queued, IInv, Types, CurrRight, Fits,
            LoRAsOf, Having
<1>9. ASSUME NEW r \in Requests, NEW v \in Requests, NEW to \in {"waiting", "swapped"},
             Preempt(r, v, to)
      PROVE  IInv'
  <2>1. CASE LoRAsOf({r}) \subseteq curr
    <3>1. v \notin batch
      BY <1>9 DEF Preempt, IsNext, Queued
    <3>2. Types' /\ batch' \subseteq Having("running")' /\ CurrRight' /\ phase' # "idle"
      BY <1>9, <2>1, <3>1 DEF Preempt, IInv, Types, Having, CurrRight
    <3>3. LoRAsOf(Having("running"))' \subseteq LoRAsOf(Having("running"))
      BY <1>9, <2>1 DEF Preempt, LoRAsOf, Having, IInv, Types
    <3> QED BY <3>2, <3>3, FewerRun
  <2>2. CASE ~(LoRAsOf({r}) \subseteq curr)
    BY <1>9, <2>2 DEF Preempt, IInv, Types, CurrRight, Fits, LoRAsOf, Having
  <2> QED BY <2>1, <2>2
<1>10. CASE EndRunning
  BY <1>10 DEF EndRunning, AfterScheduling, IInv, Types, CurrRight, Fits, LoRAsOf, Having
<1>11. CASE EndSwapped
  BY <1>11 DEF EndSwapped, AfterScheduling, IInv, Types, CurrRight, Fits, LoRAsOf, Having
<1>12. ASSUME NEW order \in SetToSeqs(LoRAsOf(batch)), Execute(order)
       PROVE  IInv'
  BY <1>12 DEF Execute, IInv, Types, CurrRight, Fits, LoRAsOf, Having
<1>13. ASSUME NEW ended \in SUBSET batch, ProcessOutputs(ended)
       PROVE  IInv'
  <2>1. Types' /\ batch' = {} /\ CurrRight'
    BY <1>13 DEF ProcessOutputs, IInv, Types, CurrRight
  <2>2. LoRAsOf(Having("running"))' \subseteq LoRAsOf(Having("running"))
    BY <1>13 DEF ProcessOutputs, LoRAsOf, Having, IInv, Types
  <2> QED BY <2>1, <2>2, FewerRun
<1> QED
  BY <1>1, <1>2, <1>3, <1>4, <1>5, <1>6, <1>7, <1>8, <1>9, <1>10, <1>11, <1>12, <1>13
     DEF Next

\* It implies that batches fit.
LEMMA InvImpliesFits == IInv => BatchFits
<1> SUFFICES ASSUME IInv PROVE BatchFits
  OBVIOUS
<1>1. LoRAsOf(batch) \subseteq LoRAsOf(Having("running"))
  BY DEF IInv, LoRAsOf
<1> QED BY <1>1, SubsetFits DEF IInv, BatchFits, Fits

\* The scheduler's curr_loras keeps each batch within the worker's slots, so that
\* _apply_loras never refuses one.
THEOREM BatchesFit == Spec => []BatchFits
<1> QED BY InitInv, NextInv, InvImpliesFits, PTL DEF Spec

-----------------------------------------------------------------------------
(* LRU caches: what the list operations do to a cache, and to the adapters *)
(* D that were used last.                                                  *)

Caches == {s \in Seq(LoRAs) : IsInjective(s)}

\* Whatever was used after a member of D is in D.
Latest(s, D) ==
    /\ D \subseteq Range(s)
    /\ \A i, j \in DOMAIN s : s[i] \in D /\ i < j => s[j] \in D

\* RemoveFirst takes the one place of e out and keeps the order.
LEMMA RemovedAt ==
    ASSUME NEW s \in Caches, NEW e \in Range(s)
    PROVE  \E p \in 1 .. Len(s) :
             /\ s[p] = e
             /\ RemoveFirst(s, e) = [i \in 1 .. Len(s) - 1 |-> IF i < p THEN s[i] ELSE s[i + 1]]
<1> DEFINE I == {i \in 1 .. Len(s) : s[i] = e}
<1>1. s \in Seq(LoRAs) /\ Len(s) \in Nat
  BY DEF Caches
<1>2. I \in SUBSET (1 .. Len(s)) /\ I # {}
  BY <1>1 DEF Range
<1>3. PICK p : p = Min(I)
  OBVIOUS
<1>4. p \in I
  BY <1>1, <1>2, <1>3, Extremes DEF Min
<1>5. RemoveFirst(s, e) = RemoveAt(s, p)
  BY <1>2, <1>3 DEF RemoveFirst, SelectInSeq
<1>6. RemoveAt(s, p) = [i \in 1 .. Len(s) - 1 |-> IF i < p THEN s[i] ELSE s[i + 1]]
  <2>1. PICK n \in Nat : n = Len(s)
    BY <1>1
  <2>2. p \in 1 .. n
    BY <1>4, <2>1
  <2>3. PICK u : u = SubSeq(s, 1, p - 1)
    OBVIOUS
  <2>4. PICK v : v = SubSeq(s, p + 1, n)
    OBVIOUS
  <2>5. u \in Seq(LoRAs) /\ Len(u) = p - 1 /\ \A i \in 1 .. p - 1 : u[i] = s[i]
    BY <1>1, <2>1, <2>2, <2>3
  <2>6. v \in Seq(LoRAs) /\ Len(v) = n - p /\ \A i \in 1 .. n - p : v[i] = s[i + p]
    BY <1>1, <2>1, <2>2, <2>4
  <2>7. PICK w : w = u \o v
    OBVIOUS
  <2>8. w \in Seq(LoRAs) /\ Len(w) = n - 1 /\ DOMAIN w = 1 .. n - 1
    <3>1. w \in Seq(LoRAs) /\ Len(w) = Len(u) + Len(v)
      <4>1. u \in Seq(LoRAs) /\ v \in Seq(LoRAs)
        BY <2>5, <2>6
      <4> QED BY <2>7, <4>1
    <3>2. Len(w) = n - 1
      BY <2>2, <2>5, <2>6, <3>1
    <3> QED BY <3>1, <3>2
  <2>9. \A i \in 1 .. n - 1 : w[i] = IF i < p THEN s[i] ELSE s[i + 1]
    <3> SUFFICES ASSUME NEW i \in 1 .. n - 1
                 PROVE  w[i] = IF i < p THEN s[i] ELSE s[i + 1]
      OBVIOUS
    <3>1. CASE i < p
      BY <2>2, <2>5, <2>6, <2>7, <3>1
    <3>2. CASE ~(i < p)
      <4>1. i - (p - 1) \in 1 .. n - p /\ (i - (p - 1)) + p = i + 1
        BY <2>2, <3>2
      <4>2. w[i] = v[i - (p - 1)]
        BY <2>2, <2>5, <2>6, <2>7, <3>2
      <4> QED BY <2>6, <3>2, <4>1, <4>2
    <3> QED BY <3>1, <3>2
  <2>10. w = [i \in 1 .. n - 1 |-> IF i < p THEN s[i] ELSE s[i + 1]]
    <3>1. w = [i \in 1 .. n - 1 |-> w[i]]
      BY <2>8
    <3> QED BY <2>9, <3>1
  <2> QED BY <2>1, <2>3, <2>4, <2>7, <2>10 DEF RemoveAt
<1> QED BY <1>4, <1>5, <1>6

\* A cache without one adapter.
LEMMA RemovedFrom ==
    ASSUME NEW s \in Caches, NEW e
    PROVE  /\ RemoveFirst(s, e) \in Caches
           /\ Range(RemoveFirst(s, e)) = Range(s) \ {e}
           /\ Len(RemoveFirst(s, e)) = IF e \in Range(s) THEN Len(s) - 1 ELSE Len(s)
           /\ \A D : Latest(s, D) => Latest(RemoveFirst(s, e), D \ {e})
<1>1. s \in Seq(LoRAs) /\ Len(s) \in Nat /\ IsInjective(s) /\ DOMAIN s = 1 .. Len(s)
  BY DEF Caches
<1>2. CASE e \notin Range(s)
  <2>1. RemoveFirst(s, e) = s
    BY <1>1, <1>2 DEF RemoveFirst, Range
  <2> QED BY <1>2, <2>1 DEF Latest
<1>3. CASE e \in Range(s)
  <2>1. PICK p \in 1 .. Len(s) :
          /\ s[p] = e
          /\ RemoveFirst(s, e) = [i \in 1 .. Len(s) - 1 |-> IF i < p THEN s[i] ELSE s[i + 1]]
    BY <1>3, RemovedAt
  <2>2. PICK t : t = [i \in 1 .. Len(s) - 1 |-> IF i < p THEN s[i] ELSE s[i + 1]]
    OBVIOUS
  <2>3. PICK n \in Nat : n = Len(s) /\ n >= 1
    <3>1. Len(s) \in Nat /\ Len(s) >= 1
      BY <1>1, <2>1
    <3> QED BY <3>1
  <2>4. t \in Seq(LoRAs) /\ Len(t) = n - 1 /\ DOMAIN t = 1 .. n - 1
    BY <1>1, <2>2, <2>3
  <2>5. \A i \in 1 .. n - 1 : t[i] = IF i < p THEN s[i] ELSE s[i + 1]
    BY <2>2, <2>3
  <2>6. \A i, j \in 1 .. n : s[i] = s[j] => i = j
    BY <1>1, <2>3 DEF IsInjective
  <2>7. IsInjective(t)
    BY <2>1, <2>3, <2>4, <2>5, <2>6 DEF IsInjective
  <2>8. \A i \in 1 .. n - 1 : t[i] # e /\ t[i] \in Range(s)
    <3> SUFFICES ASSUME NEW i \in 1 .. n - 1
                 PROVE  t[i] # e /\ t[i] \in Range(s)
      OBVIOUS
    <3>1. PICK j \in 1 .. n : j = (IF i < p THEN i ELSE i + 1) /\ j # p
      BY <2>3
    <3>2. t[i] = s[j]
      BY <2>5, <3>1
    <3>3. s[j] # e
      BY <2>1, <2>3, <2>6, <3>1
    <3>4. s[j] \in Range(s)
      BY <1>1, <2>3, <3>1 DEF Range
    <3> QED BY <3>2, <3>3, <3>4
  <2>9. \A j \in 1 .. n : s[j] # e => \E i \in 1 .. n - 1 : t[i] = s[j]
    <3> SUFFICES ASSUME NEW j \in 1 .. n, s[j] # e
                 PROVE  \E i \in 1 .. n - 1 : t[i] = s[j]
      OBVIOUS
    <3>1. CASE j < p
      BY <2>1, <2>3, <2>5, <3>1
    <3>2. CASE ~(j < p)
      <4>1. j - 1 \in 1 .. n - 1 /\ ~(j - 1 < p)
        BY <2>1, <2>3, <3>2
      <4>2. t[j - 1] = s[j]
        BY <2>5, <4>1
      <4> QED BY <4>1, <4>2
    <3> QED BY <3>1, <3>2
  <2>10. Range(t) = Range(s) \ {e}
    <3>1. Range(t) = {t[i] : i \in 1 .. n - 1} /\ Range(s) = {s[i] : i \in 1 .. n}
      BY <1>1, <2>3, <2>4 DEF Range
    <3>2. \A x \in Range(s) : \E i \in 1 .. n : x = s[i]
      BY <3>1
    <3>3. \A i \in 1 .. n - 1 : t[i] \in Range(s) \ {e}
      BY <2>8
    <3>4. \A x \in Range(s) \ {e} : x \in Range(t)
      BY <2>9, <3>1, <3>2
    <3> QED BY <3>1, <3>3, <3>4
  <2>11. ASSUME NEW D, Latest(s, D)
         PROVE  Latest(t, D \ {e})
    <3>1. D \ {e} \subseteq Range(t)
      BY <2>10, <2>11 DEF Latest
    <3>2. ASSUME NEW i \in 1 .. n - 1, NEW j \in 1 .. n - 1, t[i] \in D \ {e}, i < j
          PROVE  t[j] \in D \ {e}
      <4>1. \E k, l \in 1 .. n : k < l /\ t[i] = s[k] /\ t[j] = s[l]
        <5>1. /\ i \in 1 .. n /\ i + 1 \in 1 .. n /\ j \in 1 .. n /\ j + 1 \in 1 .. n
              /\ i + 1 < j + 1 /\ i < j + 1
          BY <2>3, <3>2
        <5> QED BY <2>1, <2>3, <2>5, <3>2, <5>1
      <4>2. t[j] \in D
        BY <1>1, <2>3, <2>11, <3>2, <4>1 DEF Latest
      <4> QED BY <2>8, <4>2
    <3> QED BY <2>4, <3>1, <3>2 DEF Latest
  <2>12. RemoveFirst(s, e) = t
    BY <2>1, <2>2
  <2>13. t \in Caches
    BY <2>4, <2>7 DEF Caches
  <2> HIDE DEF Caches
  <2>14. Len(t) = Len(s) - 1
    BY <2>3, <2>4
  <2> QED BY <1>3, <2>10, <2>11, <2>12, <2>13, <2>14
<1> QED BY <1>2, <1>3

\* A cache with one adapter more.
LEMMA AppendedTo ==
    ASSUME NEW s \in Caches, NEW a \in LoRAs \ Range(s)
    PROVE  /\ Append(s, a) \in Caches
           /\ Range(Append(s, a)) = Range(s) \cup {a}
           /\ Len(Append(s, a)) = Len(s) + 1
           /\ \A D : Latest(s, D) => Latest(Append(s, a), D \cup {a})
<1>1. s \in Seq(LoRAs) /\ IsInjective(s) /\ DOMAIN s = 1 .. Len(s)
  BY DEF Caches
<1>2. PICK n \in Nat : n = Len(s)
  <2>1. Len(s) \in Nat
    BY <1>1
  <2> QED BY <2>1
<1>3. PICK t : t = Append(s, a)
  OBVIOUS
<1>4. t \in Seq(LoRAs) /\ Len(t) = n + 1 /\ DOMAIN t = 1 .. n + 1
  BY <1>1, <1>2, <1>3
<1>5. t[n + 1] = a /\ \A i \in 1 .. n : t[i] = s[i]
  BY <1>1, <1>2, <1>3
<1>6. \A i \in 1 .. n + 1 : i \in 1 .. n \/ i = n + 1
  OBVIOUS
<1>7. \A i \in 1 .. n : s[i] # a
  BY <1>1, <1>2 DEF Range
<1>8. IsInjective(t)
  <2>1. \A i, j \in 1 .. n : s[i] = s[j] => i = j
    BY <1>1, <1>2 DEF IsInjective
  <2> QED BY <1>4, <1>5, <1>6, <1>7, <2>1 DEF IsInjective
<1>9. Range(t) = Range(s) \cup {a}
  <2>1. Range(t) = {t[i] : i \in 1 .. n + 1} /\ Range(s) = {s[i] : i \in 1 .. n}
    BY <1>1, <1>2, <1>4 DEF Range
  <2>2. n + 1 \in 1 .. n + 1 /\ \A i \in 1 .. n : i \in 1 .. n + 1
    OBVIOUS
  <2> QED BY <1>5, <1>6, <2>1, <2>2
<1>10. ASSUME NEW D, Latest(s, D)
       PROVE  Latest(t, D \cup {a})
  <2>1. D \cup {a} \subseteq Range(t)
    BY <1>9, <1>10 DEF Latest
  <2>2. ASSUME NEW i \in 1 .. n + 1, NEW j \in 1 .. n + 1, t[i] \in D \cup {a}, i < j
        PROVE  t[j] \in D \cup {a}
    <3>1. CASE j = n + 1
      BY <1>5, <3>1
    <3>2. CASE j \in 1 .. n
      <4>1. i \in 1 .. n
        BY <2>2, <3>2
      <4>2. s[i] \in D
        BY <1>5, <1>7, <2>2, <4>1
      <4>3. s[j] \in D
        BY <1>1, <1>2, <1>10, <2>2, <3>2, <4>1, <4>2 DEF Latest
      <4> QED BY <1>5, <3>2, <4>3
    <3> QED BY <1>6, <3>1, <3>2
  <2> QED BY <1>4, <2>1, <2>2 DEF Latest
<1>11. t \in Caches
  BY <1>4, <1>8 DEF Caches
<1> HIDE DEF Caches
<1>12. Len(t) = Len(s) + 1
  BY <1>2, <1>4
<1> QED BY <1>3, <1>9, <1>10, <1>11, <1>12

\* A cache without its oldest adapter.
LEMMA TailOf ==
    ASSUME NEW s \in Caches, s # <<>>
    PROVE  /\ Tail(s) \in Caches
           /\ Range(Tail(s)) = Range(s) \ {Head(s)}
           /\ Len(Tail(s)) = Len(s) - 1
           /\ \A D : Latest(s, D) => Latest(Tail(s), D \ {Head(s)})
<1>1. s \in Seq(LoRAs) /\ IsInjective(s) /\ DOMAIN s = 1 .. Len(s)
  BY DEF Caches
<1>2. PICK n \in Nat : n = Len(s) /\ n >= 1
  <2>1. Len(s) \in Nat /\ Len(s) >= 1
    BY <1>1
  <2> QED BY <2>1
<1>3. PICK t : t = Tail(s)
  OBVIOUS
<1>4. t \in Seq(LoRAs) /\ Len(t) = n - 1 /\ DOMAIN t = 1 .. n - 1 /\ Head(s) = s[1]
  BY <1>1, <1>2, <1>3
<1>5. \A i \in 1 .. n - 1 : t[i] = s[i + 1] /\ i + 1 \in 1 .. n /\ i + 1 # 1
  BY <1>1, <1>2, <1>3
<1>6. \A i, j \in 1 .. n : s[i] = s[j] => i = j
  BY <1>1, <1>2 DEF IsInjective
<1>7. IsInjective(t)
  <2> SUFFICES ASSUME NEW i \in 1 .. n - 1, NEW j \in 1 .. n - 1, t[i] = t[j]
               PROVE  i = j
    BY <1>4 DEF IsInjective
  <2>1. i + 1 = j + 1
    BY <1>5, <1>6
  <2> QED BY <2>1
<1>8. \A j \in 1 .. n : j = 1 \/ (j - 1 \in 1 .. n - 1 /\ t[j - 1] = s[j])
  <2> SUFFICES ASSUME NEW j \in 1 .. n, j # 1
               PROVE  j - 1 \in 1 .. n - 1 /\ t[j - 1] = s[j]
    OBVIOUS
  <2>1. j - 1 \in 1 .. n - 1 /\ (j - 1) + 1 = j
    BY <1>2
  <2> QED BY <1>5, <2>1
<1>9. Range(t) = Range(s) \ {Head(s)}
  <2>1. Range(t) = {t[i] : i \in 1 .. n - 1} /\ Range(s) = {s[i] : i \in 1 .. n}
    BY <1>1, <1>2, <1>4 DEF Range
  <2>2. 1 \in 1 .. n
    BY <1>2
  <2>3. \A i \in 1 .. n - 1 : t[i] \in Range(s) \ {s[1]}
    BY <1>5, <1>6, <2>1, <2>2
  <2>4. \A j \in 1 .. n : s[j] # s[1] => s[j] \in Range(t)
    BY <1>8, <2>1
  <2> QED BY <1>4, <2>1, <2>3, <2>4
<1>10. ASSUME NEW D, Latest(s, D)
       PROVE  Latest(t, D \ {Head(s)})
  <2>1. D \ {Head(s)} \subseteq Range(t)
    BY <1>9, <1>10 DEF Latest
  <2>2. ASSUME NEW i \in 1 .. n - 1, NEW j \in 1 .. n - 1, t[i] \in D, i < j
        PROVE  t[j] \in D
    <3>1. i + 1 < j + 1 /\ i + 1 \in 1 .. n /\ j + 1 \in 1 .. n
      BY <1>5, <2>2
    <3>2. s[i + 1] \in D
      BY <1>5, <2>2
    <3> QED BY <1>1, <1>2, <1>5, <1>10, <3>1, <3>2 DEF Latest
  <2>3. \A j \in 1 .. n - 1 : t[j] # Head(s)
    BY <1>4, <1>9 DEF Range
  <2> QED BY <1>4, <2>1, <2>2, <2>3 DEF Latest
<1>11. t \in Caches
  BY <1>4, <1>7 DEF Caches
<1> HIDE DEF Caches
<1>12. Len(t) = Len(s) - 1
  BY <1>2, <1>4
<1> QED BY <1>3, <1>9, <1>10, <1>11, <1>12

\* The adapter used first is not one of D, if the cache has more than D.
LEMMA HeadIsOld ==
    ASSUME NEW s \in Caches, NEW D, IsFiniteSet(D), Latest(s, D), Len(s) > Cardinality(D)
    PROVE  s # <<>> /\ Head(s) \in Range(s) \ D
<1>1. s \in Seq(LoRAs) /\ IsInjective(s) /\ DOMAIN s = 1 .. Len(s)
  BY DEF Caches
<1>2. Cardinality(D) \in Nat
  BY FS_CardinalityType
<1>3. PICK n \in Nat : n = Len(s) /\ n >= 1
  <2>1. Len(s) \in Nat /\ Len(s) >= 1
    BY <1>1, <1>2
  <2> QED BY <2>1
<1>4. s # <<>> /\ Head(s) = s[1] /\ 1 \in DOMAIN s
  BY <1>1, <1>3
<1>5. SUFFICES ASSUME s[1] \in D PROVE FALSE
  BY <1>4 DEF Range
<1>6. \A j \in 1 .. n : j = 1 \/ 1 < j
  OBVIOUS
<1>7. \A j \in 1 .. n : s[j] \in D
  BY <1>1, <1>3, <1>4, <1>5, <1>6 DEF Latest
<1>8. s \in [1 .. n -> D]
  BY <1>1, <1>3, <1>7
<1>9. s \in Injection(1 .. n, D)
  BY <1>1, <1>8 DEF Injection, IsInjective
<1>10. Cardinality(1 .. n) <= Cardinality(D)
  BY <1>9, FS_Injection
<1>11. Cardinality(1 .. n) = n
  <2>1. Cardinality(1 .. n) = IF 1 > n THEN 0 ELSE n - 1 + 1
    BY FS_Interval
  <2> QED BY <1>3, <2>1
<1> QED BY <1>2, <1>3, <1>10, <1>11

-----------------------------------------------------------------------------
(* The manager. *)

Managers(l, x) ==
    [registered : Caches, active : Caches, slots : [Slots -> LoRAs \cup {Free}],
     last : {l}, indices : {x}]

\* SlotsAgree but for the types and the count, which follows from the first part.
Agree(n) ==
    /\ \A i, j \in Slots : n.slots[i] # Free /\ n.slots[i] = n.slots[j] => i = j
    /\ Range(n.active) = Range(n.slots) \ {Free}
    /\ Range(n.active) \subseteq Range(n.registered)
    /\ Range(n.registered) \cap Unloadable = {}
    /\ Len(n.registered) <= MaxCpuLoras

\* As many slots are used as adapters are active.
LEMMA SlotsUsed ==
    ASSUME NEW l, NEW x, NEW n \in Managers(l, x), Agree(n)
    PROVE  Cardinality({i \in Slots : n.slots[i] # Free}) = Len(n.active)
<1> DEFINE U == {i \in Slots : n.slots[i] # Free}
           A == Range(n.active)
           f == [i \in U |-> n.slots[i]]
<1>1. n.active \in Seq(LoRAs) /\ IsInjective(n.active) /\ DOMAIN n.active = 1 .. Len(n.active)
  BY DEF Managers, Caches
<1>2. PICK k \in Nat : k = Len(n.active)
  <2>1. Len(n.active) \in Nat
    BY <1>1
  <2> QED BY <2>1
<1>3. n.slots \in [Slots -> LoRAs \cup {Free}] /\ A = Range(n.slots) \ {Free}
  BY DEF Managers, Agree
<1>4. IsFiniteSet(U)
  <2>1. IsFiniteSet(Slots)
    BY LoRAAssumption, FS_Interval DEF Slots
  <2> QED BY <2>1, FS_Subset
<1>5. f \in Bijection(U, A)
  <2>1. \A i \in U : n.slots[i] \in A
    BY <1>3 DEF Range
  <2>2. f \in Injection(U, A)
    BY <2>1 DEF Injection, IsInjective, Agree
  <2>3. \A a \in A : \E i \in U : f[i] = a
    BY <1>3 DEF Range
  <2> QED BY <2>2, <2>3 DEF Bijection, Surjection, Injection
<1>6. IsFiniteSet(A) /\ Cardinality(A) = Cardinality(U)
  BY <1>4, <1>5, FS_Bijection DEF ExistsBijection
<1>7. n.active \in Bijection(1 .. k, A)
  <2>1. n.active \in [1 .. k -> A]
    BY <1>1, <1>2 DEF Range
  <2>2. \A a \in A : \E i \in 1 .. k : n.active[i] = a
    BY <1>1, <1>2 DEF Range
  <2> QED BY <1>1, <2>1, <2>2 DEF Bijection, Surjection, Injection, IsInjective
<1>8. Cardinality(A) = k
  BY <1>7, FS_CountingElements DEF ExistsBijection
<1> QED BY <1>2, <1>6, <1>8

\* An adapter gives up its slot.
Evicted(n, a, t) == [ClearSlot(n, a) EXCEPT !.active = t]

\* An adapter that is evicted leaves its slot free.
LEMMA SlotCleared ==
    ASSUME NEW l, NEW x, NEW n \in Managers(l, x), Agree(n), NEW a \in Range(n.active),
           NEW t \in Caches, Range(t) = Range(n.active) \ {a},
           NEW u, u = Evicted(n, a, t)
    PROVE  /\ u \in Managers(l, x) /\ Agree(u)
           /\ u.active = t /\ u.registered = n.registered
           /\ \E i \in Slots : u.slots[i] = Free
<1>1. PICK c : c = [i \in Slots |-> IF n.slots[i] = a THEN Free ELSE n.slots[i]]
  OBVIOUS
<1>2. n.slots \in [Slots -> LoRAs \cup {Free}] /\ n.registered \in Caches
  BY DEF Managers
<1>3. c \in [Slots -> LoRAs \cup {Free}]
  BY <1>1, <1>2
<1>4. u = [n EXCEPT !.slots = c, !.active = t]
  BY <1>1 DEF Evicted, ClearSlot, Managers
<1>5. /\ u \in Managers(l, x) /\ u.active = t /\ u.registered = n.registered /\ u.slots = c
  <2> HIDE DEF Slots
  <2> QED BY <1>3, <1>4 DEF Managers
<1>6. \A i \in Slots : c[i] = IF n.slots[i] = a THEN Free ELSE n.slots[i]
  BY <1>1
<1>7. Range(n.slots) \ {Free} = Range(n.active) /\ a # Free
  BY DEF Agree
<1>8. \E i \in Slots : n.slots[i] = a
  BY <1>2, <1>7 DEF Range
<1>9. Range(c) = {c[i] : i \in Slots} /\ Range(n.slots) = {n.slots[i] : i \in Slots}
  BY <1>2, <1>3 DEF Range
<1>10. Range(c) \ {Free} = Range(t)
  <2>1. \A i \in Slots : c[i] # Free => c[i] \in Range(n.slots) \ {Free, a}
    BY <1>6, <1>9
  <2>2. \A i \in Slots : n.slots[i] \notin {Free, a} => n.slots[i] \in Range(c)
    BY <1>6, <1>9
  <2>3. Range(c) \ {Free} \subseteq Range(n.slots) \ {Free, a}
    BY <1>9, <2>1
  <2>4. Range(n.slots) \ {Free, a} \subseteq Range(c) \ {Free}
    BY <1>9, <2>2
  <2>5. Range(t) = Range(n.slots) \ {Free, a}
    BY <1>7
  <2> QED BY <2>3, <2>4, <2>5
<1>11. \A i, j \in Slots : c[i] # Free /\ c[i] = c[j] => i = j
  BY <1>6 DEF Agree
<1>12. Agree(u)
  BY <1>5, <1>10, <1>11 DEF Agree
<1> QED BY <1>5, <1>6, <1>8, <1>12

\* remove_lora takes the adapter out of the cache and its slot.
LEMMA RemovedLora ==
    ASSUME NEW l, NEW x, NEW n \in Managers(l, x), Agree(n), NEW a,
           NEW u, u = RemoveLora(n, a)
    PROVE  /\ u \in Managers(l, x) /\ Agree(u)
           /\ Range(u.registered) = Range(n.registered) \ {a}
           /\ Len(u.registered) = IF a \in Range(n.registered) THEN Len(n.registered) - 1
                                                               ELSE Len(n.registered)
           /\ \A D : Latest(n.registered, D) => Latest(u.registered, D \ {a})
           /\ \A D : Latest(n.active, D) => Latest(u.active, D \ {a})
<1>1. PICK d : d = DeactivateLora(n, a)
  OBVIOUS
<1>2. n.active \in Caches /\ n.registered \in Caches
  BY DEF Managers
<1>3. /\ d \in Managers(l, x) /\ Agree(d) /\ d.registered = n.registered
      /\ a \notin Range(d.active)
      /\ \A D : Latest(n.active, D) => Latest(d.active, D \ {a})
  <2>1. CASE a \in Range(n.active)
    <3>1. PICK t : t = RemoveFirst(n.active, a)
      OBVIOUS
    <3>2. /\ t \in Caches /\ Range(t) = Range(n.active) \ {a}
          /\ \A D : Latest(n.active, D) => Latest(t, D \ {a})
      BY <1>2, <3>1, RemovedFrom
    <3>3. d = Evicted(n, a, t)
      <4>1. ClearSlot(n, a).active = n.active
        BY DEF ClearSlot, Managers
      <4>2. PICK c : c = ClearSlot(n, a)
        OBVIOUS
      <4>3. d = [c EXCEPT !.active = RemoveFirst(@, a)]
        BY <1>1, <2>1, <4>2 DEF DeactivateLora
      <4>4. d = [c EXCEPT !.active = RemoveFirst(c.active, a)]
        BY <4>3
      <4>5. RemoveFirst(c.active, a) = t
        BY <3>1, <4>1, <4>2
      <4>6. d = [c EXCEPT !.active = t]
        BY <4>4, <4>5
      <4> QED BY <4>2, <4>6 DEF Evicted
    <3>4. d \in Managers(l, x) /\ Agree(d) /\ d.active = t /\ d.registered = n.registered
      BY <2>1, <3>2, <3>3, SlotCleared
    <3> QED BY <3>2, <3>4
  <2>2. CASE a \notin Range(n.active)
    <3>1. d = n
      BY <1>1, <2>2 DEF DeactivateLora
    <3>2. \A D : Latest(n.active, D) => Latest(n.active, D \ {a})
      BY <2>2 DEF Latest
    <3> QED BY <2>2, <3>1, <3>2
  <2> QED BY <2>1, <2>2
<1>4. PICK r : r = RemoveFirst(n.registered, a)
  OBVIOUS
<1>5. u = [d EXCEPT !.registered = r]
  BY <1>1, <1>3, <1>4 DEF RemoveLora
<1>6. /\ r \in Caches
      /\ Range(r) = Range(n.registered) \ {a}
      /\ Len(r) = IF a \in Range(n.registered) THEN Len(n.registered) - 1 ELSE Len(n.registered)
      /\ \A D : Latest(n.registered, D) => Latest(r, D \ {a})
  BY <1>2, <1>4, RemovedFrom
<1>7. /\ u \in Managers(l, x)
      /\ u.active = d.active /\ u.slots = d.slots /\ u.registered = r
  BY <1>3, <1>5, <1>6 DEF Managers
<1>8. Len(r) <= MaxCpuLoras
  <2>1. Len(n.registered) \in Nat /\ Len(n.registered) <= MaxCpuLoras /\ MaxCpuLoras \in Nat
    BY <1>2, LoRAAssumption DEF Caches, Agree
  <2> QED BY <1>6, <2>1
<1>9. Agree(u)
  BY <1>3, <1>6, <1>7, <1>8 DEF Agree
<1> QED BY <1>3, <1>6, <1>7, <1>9

\* An adapter that is used becomes the latest, and no other leaves.
LEMMA Touched ==
    ASSUME NEW s \in Caches, NEW a \in Range(s)
    PROVE  /\ Touch(s, a) \in Caches
           /\ Range(Touch(s, a)) = Range(s)
           /\ Len(Touch(s, a)) = Len(s)
           /\ \A D : Latest(s, D) => Latest(Touch(s, a), D \cup {a})
<1>1. PICK r : r = RemoveFirst(s, a)
  OBVIOUS
<1>2. /\ r \in Caches /\ Range(r) = Range(s) \ {a} /\ Len(r) = Len(s) - 1
      /\ \A D : Latest(s, D) => Latest(r, D \ {a})
  BY <1>1, RemovedFrom
<1>3. a \in LoRAs \ Range(r)
  <2>1. s \in Seq(LoRAs)
    BY DEF Caches
  <2>2. a \in LoRAs
    BY <2>1 DEF Range
  <2> QED BY <1>2, <2>2
<1>4. PICK t : t = Append(r, a)
  OBVIOUS
<1>5. /\ t \in Caches /\ Range(t) = Range(r) \cup {a} /\ Len(t) = Len(r) + 1
      /\ \A D : Latest(r, D) => Latest(t, D \cup {a})
  BY <1>2, <1>3, <1>4, AppendedTo
<1>6. Touch(s, a) = t
  BY <1>1, <1>4 DEF Touch
<1>7. Range(t) = Range(s)
  BY <1>2, <1>5
<1>8. Len(t) = Len(s)
  <2>1. Len(s) \in Nat
    BY DEF Caches
  <2> QED BY <1>2, <1>5, <2>1
<1>9. \A D : Latest(s, D) => Latest(t, D \cup {a})
  <2> SUFFICES ASSUME NEW D, Latest(s, D)
               PROVE  Latest(t, D \cup {a})
    OBVIOUS
  <2>1. Latest(t, (D \ {a}) \cup {a})
    BY <1>2, <1>5
  <2>2. (D \ {a}) \cup {a} = D \cup {a}
    OBVIOUS
  <2> QED BY <2>1, <2>2
<1> QED BY <1>5, <1>6, <1>7, <1>8, <1>9

\* An adapter that is registered gets a slot, and none of D loses its own.
LEMMA Activated ==
    ASSUME NEW l, NEW x, NEW n \in Managers(l, x), Agree(n), NEW a \in Range(n.registered),
           NEW D, IsFiniteSet(D), Cardinality(D) < MaxLoras, a \notin D, Latest(n.active, D),
           NEW o, o = ActivateLora(n, a)
    PROVE  \E u \in Managers(l, x) :
             /\ o = Ok(u) /\ Agree(u)
             /\ u.registered = n.registered
             /\ a \in Range(u.active) /\ Latest(u.active, D \cup {a})
             /\ a \in Range(n.active) => u.slots = n.slots /\ Range(u.active) = Range(n.active)
<1> DEFINE full == a \notin Range(n.active) /\ Len(n.active) >= MaxLoras
<1>1. PICK k : k = IF full THEN Evicted(n, Head(n.active), Tail(n.active)) ELSE n
  OBVIOUS
<1> DEFINE free == {i \in Slots : k.slots[i] = Free}
<1>2. n.active \in Caches /\ n.registered \in Caches
  BY DEF Managers
<1>3. Len(n.active) \in Nat /\ Cardinality(D) \in Nat /\ MaxLoras \in Nat
  BY <1>2, FS_CardinalityType, LoRAAssumption DEF Caches
<1>4. a \in LoRAs
  <2>1. n.registered \in Seq(LoRAs)
    BY <1>2 DEF Caches
  <2> QED BY <2>1 DEF Range
<1>5. o = IF a \in Range(k.active)
          THEN Ok([k EXCEPT !.active = Touch(@, a)])
          ELSE IF free = {}
          THEN Raise(k, "no free slot")
          ELSE Ok([k EXCEPT !.active = Append(@, a), !.slots[Min(free)] = a])
  <2>1. ClearSlot(n, Head(n.active)).active = n.active
    BY DEF ClearSlot, Managers
  <2>2. [ClearSlot(n, Head(n.active)) EXCEPT !.active = Tail(@)]
          = Evicted(n, Head(n.active), Tail(n.active))
    BY <2>1 DEF Evicted
  <2>3. k = IF full THEN [ClearSlot(n, Head(n.active)) EXCEPT !.active = Tail(@)] ELSE n
    BY <1>1, <2>2
  <2> DEFINE Open(j) == {i \in Slots : j.slots[i] = Free}
             Activate(j) == IF a \in Range(j.active)
                            THEN Ok([j EXCEPT !.active = Touch(@, a)])
                            ELSE IF Open(j) = {}
                            THEN Raise(j, "no free slot")
                            ELSE Ok([j EXCEPT !.active = Append(@, a), !.slots[Min(Open(j))] = a])
  <2>4. o = Activate(IF full THEN [ClearSlot(n, Head(n.active)) EXCEPT !.active = Tail(@)] ELSE n)
    BY DEF ActivateLora
  <2>5. o = Activate(k)
    <3> HIDE DEF Activate
    <3> QED BY <2>3, <2>4
  <2> QED BY <2>5
<1>6. CASE a \in Range(n.active)
  <2>1. k = n
    BY <1>1, <1>6
  <2>2. PICK t : t = Touch(n.active, a)
    OBVIOUS
  <2>3. t \in Caches /\ Range(t) = Range(n.active) /\ Latest(t, D \cup {a})
    BY <1>2, <1>6, <2>2, Touched
  <2>4. PICK u : u = [n EXCEPT !.active = t]
    OBVIOUS
  <2>5. o = Ok(u)
    BY <1>5, <1>6, <2>1, <2>2, <2>4
  <2>6. /\ u \in Managers(l, x)
        /\ u.active = t /\ u.slots = n.slots /\ u.registered = n.registered
    BY <2>3, <2>4 DEF Managers
  <2>7. Agree(u)
    BY <2>3, <2>6 DEF Agree
  <2> QED BY <1>6, <2>3, <2>5, <2>6, <2>7
<1>7. CASE a \notin Range(n.active)
  <2>1. /\ k \in Managers(l, x) /\ Agree(k) /\ k.registered = n.registered
        /\ a \notin Range(k.active) /\ Latest(k.active, D) /\ free # {}
    <3>1. CASE full
      <4>1. n.active # <<>> /\ Head(n.active) \in Range(n.active) \ D
        BY <1>2, <1>3, <3>1, HeadIsOld
      <4>2. PICK h : h = Head(n.active)
        OBVIOUS
      <4>3. PICK t : t = Tail(n.active)
        OBVIOUS
      <4>4. /\ t \in Caches /\ Range(t) = Range(n.active) \ {h}
            /\ \A E : Latest(n.active, E) => Latest(t, E \ {h})
        BY <1>2, <4>1, <4>2, <4>3, TailOf
      <4>5. k = Evicted(n, h, t)
        BY <1>1, <3>1, <4>2, <4>3
      <4>6. h \in Range(n.active)
        BY <4>1, <4>2
      <4>7. /\ k \in Managers(l, x) /\ Agree(k)
            /\ k.active = t /\ k.registered = n.registered
            /\ \E i \in Slots : k.slots[i] = Free
        BY <4>4, <4>5, <4>6, SlotCleared
      <4>8. D \ {h} = D
        BY <4>1, <4>2
      <4>9. Latest(t, D)
        BY <4>4, <4>8
      <4> QED BY <1>7, <4>4, <4>7, <4>9
    <3>2. CASE ~full
      <4>1. k = n /\ Len(n.active) < MaxLoras
        BY <1>1, <1>3, <1>7, <3>2
      <4>2. Cardinality({i \in Slots : n.slots[i] # Free}) < MaxLoras
        BY <4>1, SlotsUsed
      <4>3. Cardinality(Slots) = MaxLoras
        <5>1. Cardinality(1 .. MaxLoras) = IF 1 > MaxLoras THEN 0 ELSE MaxLoras - 1 + 1
          BY LoRAAssumption, FS_Interval
        <5> QED BY <1>3, <5>1, LoRAAssumption DEF Slots
      <4>4. free # {}
        <5>1. SUFFICES ASSUME free = {} PROVE FALSE
          OBVIOUS
        <5>2. {i \in Slots : n.slots[i] # Free} = Slots
          BY <4>1, <5>1
        <5>3. Cardinality({i \in Slots : n.slots[i] # Free}) = MaxLoras
          BY <4>3, <5>2
        <5> QED BY <1>3, <4>2, <5>3
      <4> QED BY <1>7, <4>1, <4>4
    <3> QED BY <3>1, <3>2
  <2>2. PICK i : i = Min(free)
    OBVIOUS
  <2>3. i \in Slots /\ k.slots[i] = Free
    <3>1. free \in SUBSET (1 .. MaxLoras)
      BY DEF Slots
    <3>2. \E j \in free : \A h \in free : j <= h
      BY <1>3, <2>1, <3>1, Extremes
    <3>3. i \in free
      BY <2>2, <3>2 DEF Min
    <3> QED BY <3>3
  <2>4. k.active \in Caches /\ k.slots \in [Slots -> LoRAs \cup {Free}]
    BY <2>1 DEF Managers
  <2>5. PICK t : t = Append(k.active, a)
    OBVIOUS
  <2>6. t \in Caches /\ Range(t) = Range(k.active) \cup {a} /\ Latest(t, D \cup {a})
    BY <1>4, <2>1, <2>4, <2>5, AppendedTo
  <2>7. PICK c : c = [k.slots EXCEPT ![i] = a]
    OBVIOUS
  <2>8. PICK u : u = [k EXCEPT !.active = t, !.slots = c]
    OBVIOUS
  <2>9. o = Ok(u)
    <3>1. o = Ok([k EXCEPT !.active = Append(@, a), !.slots[i] = a])
      BY <1>5, <2>1, <2>2
    <3>2. [k EXCEPT !.active = Append(@, a), !.slots[i] = a] = u
      BY <2>1, <2>5, <2>7, <2>8 DEF Managers
    <3> QED BY <3>1, <3>2
  <2>10. c \in [Slots -> LoRAs \cup {Free}]
    BY <1>4, <2>4, <2>7
  <2>11. /\ u \in Managers(l, x)
         /\ u.active = t /\ u.slots = c /\ u.registered = n.registered
    <3> HIDE DEF free
    <3> QED BY <2>1, <2>6, <2>8, <2>10 DEF Managers
  <2>12. \A j \in Slots : c[j] = IF j = i THEN a ELSE k.slots[j]
    BY <2>4, <2>7
  <2>13. Range(k.active) = Range(k.slots) \ {Free}
    BY <2>1 DEF Agree
  <2>14. Range(c) = {c[j] : j \in Slots} /\ Range(k.slots) = {k.slots[j] : j \in Slots}
    BY <2>4, <2>10 DEF Range
  <2>15. a # Free
    BY <1>4, LoRAAssumption DEF Free
  <2>16. \A g, j \in Slots : c[g] # Free /\ c[g] = c[j] => g = j
    <3>1. \A j \in Slots : k.slots[j] # a
      BY <2>1, <2>13, <2>14, <2>15
    <3>2. \A g, j \in Slots : k.slots[g] # Free /\ k.slots[g] = k.slots[j] => g = j
      BY <2>1 DEF Agree
    <3> QED BY <2>12, <3>1, <3>2
  <2>17. Range(c) \ {Free} = Range(t)
    <3>1. \A j \in Slots : c[j] \in {a, Free} \cup Range(k.active)
      BY <2>12, <2>13, <2>14
    <3>2. \A j \in Slots : k.slots[j] # Free => k.slots[j] \in Range(c)
      BY <2>3, <2>12, <2>14
    <3>3. Range(c) \ {Free} \subseteq Range(t)
      BY <2>6, <2>14, <3>1
    <3>4. Range(k.active) \subseteq Range(c) \ {Free}
      BY <2>13, <2>14, <3>2
    <3>5. a \in Range(c) \ {Free}
      BY <2>3, <2>12, <2>14, <2>15
    <3> QED BY <2>6, <3>3, <3>4, <3>5
  <2>18. Agree(u)
    BY <2>1, <2>6, <2>11, <2>16, <2>17 DEF Agree
  <2>19. a \in Range(u.active)
    BY <2>6, <2>11
  <2> QED BY <1>7, <2>6, <2>9, <2>11, <2>18, <2>19
<1> QED BY <1>6, <1>7

\* What AddLora may come to when the adapters of D were used last: n with a, and D
\* still there, or a failed load; nothing moves if a is active already.
Adds(n, a, D, l, x, o) ==
    \E u \in Managers(l, x) :
       /\ Agree(u)
       /\ \/ o = Raise(u, "load")
          \/ /\ o = Ok(u) /\ a \in Range(u.active)
             /\ Latest(u.registered, D \cup {a}) /\ Latest(u.active, D \cup {a})
       /\ a \in Range(n.active) =>
            o = Ok(u) /\ u.slots = n.slots /\ Range(u.active) = Range(n.active)

\* add_lora: the adapter is active after it, and those added before it in the batch
\* stay.
LEMMA Added ==
    ASSUME NEW l, NEW x, NEW n \in Managers(l, x), Agree(n), NEW a \in LoRAs,
           NEW D, IsFiniteSet(D), Cardinality(D) < MaxLoras, a \notin D,
           Latest(n.registered, D), Latest(n.active, D),
           NEW o, o = AddLora(n, a)
    PROVE  Adds(n, a, D, l, x, o)
<1> DEFINE none == Len(n.registered) + 1 > MaxCpuLoras
<1>1. PICK room : room = IF none THEN RemoveLora(n, Head(n.registered)) ELSE n
  OBVIOUS
<1>2. o = IF a \in Range(n.registered)
          THEN ActivateLora([n EXCEPT !.registered = Touch(@, a)], a)
          ELSE IF a \in Unloadable
          THEN Raise(room, "load")
          ELSE ActivateLora([room EXCEPT !.registered = Append(@, a)], a)
  <2> DEFINE Add(j) == IF a \in Range(n.registered)
                       THEN ActivateLora([n EXCEPT !.registered = Touch(@, a)], a)
                       ELSE IF a \in Unloadable
                       THEN Raise(j, "load")
                       ELSE ActivateLora([j EXCEPT !.registered = Append(@, a)], a)
  <2>1. o = Add(IF none THEN RemoveLora(n, Head(n.registered)) ELSE n)
    BY DEF AddLora
  <2>2. o = Add(room)
    <3> HIDE DEF Add
    <3> QED BY <1>1, <2>1
  <2> QED BY <2>2
<1>3. n.active \in Caches /\ n.registered \in Caches
  BY DEF Managers
<1>4. /\ Len(n.registered) \in Nat /\ Cardinality(D) \in Nat
      /\ MaxLoras \in Nat /\ MaxCpuLoras \in Nat /\ MaxLoras <= MaxCpuLoras
  BY <1>3, FS_CardinalityType, LoRAAssumption DEF Caches
<1>5. CASE a \in Range(n.registered)
  <2>1. PICK t : t = Touch(n.registered, a)
    OBVIOUS
  <2>2. /\ t \in Caches /\ Range(t) = Range(n.registered) /\ Len(t) = Len(n.registered)
        /\ Latest(t, D \cup {a})
    BY <1>3, <1>5, <2>1, Touched
  <2>3. PICK k : k = [n EXCEPT !.registered = t]
    OBVIOUS
  <2>4. /\ k \in Managers(l, x)
        /\ k.active = n.active /\ k.slots = n.slots /\ k.registered = t
    BY <2>2, <2>3 DEF Managers
  <2>5. Agree(k)
    BY <2>2, <2>4 DEF Agree
  <2>6. o = ActivateLora(k, a)
    BY <1>2, <1>5, <2>1, <2>3
  <2>7. a \in Range(k.registered) /\ Latest(k.active, D)
    BY <1>5, <2>2, <2>4
  <2>8. PICK u \in Managers(l, x) :
             /\ o = Ok(u) /\ Agree(u)
             /\ u.registered = k.registered
             /\ a \in Range(u.active) /\ Latest(u.active, D \cup {a})
             /\ a \in Range(k.active) => u.slots = k.slots /\ Range(u.active) = Range(k.active)
    BY <2>4, <2>5, <2>6, <2>7, Activated
  <2> QED BY <2>2, <2>4, <2>8 DEF Adds
<1>6. CASE a \notin Range(n.registered)
  <2>1. /\ room \in Managers(l, x) /\ Agree(room)
        /\ Range(room.registered) \subseteq Range(n.registered)
        /\ Len(room.registered) + 1 <= MaxCpuLoras
        /\ Latest(room.registered, D) /\ Latest(room.active, D)
    <3>1. CASE none
      <4>1. PICK h : h = Head(n.registered)
        OBVIOUS
      <4>2. Len(n.registered) > Cardinality(D)
        BY <1>4, <3>1
      <4>3. h \in Range(n.registered) /\ h \notin D
        BY <1>3, <4>1, <4>2, HeadIsOld
      <4>4. room = RemoveLora(n, h)
        BY <1>1, <3>1, <4>1
      <4>5. /\ room \in Managers(l, x) /\ Agree(room)
            /\ Range(room.registered) = Range(n.registered) \ {h}
            /\ Len(room.registered) = Len(n.registered) - 1
            /\ Latest(room.registered, D \ {h}) /\ Latest(room.active, D \ {h})
        BY <4>3, <4>4, RemovedLora
      <4>6. D \ {h} = D
        BY <4>3
      <4>7. Len(n.registered) <= MaxCpuLoras
        BY DEF Agree
      <4>8. Len(room.registered) + 1 <= MaxCpuLoras
        BY <1>4, <4>5, <4>7
      <4> QED BY <4>5, <4>6, <4>8
    <3>2. CASE ~none
      BY <1>1, <1>4, <3>2
    <3> QED BY <3>1, <3>2
  <2>2. CASE a \in Unloadable
    <3>1. o = Raise(room, "load")
      BY <1>2, <1>6, <2>2
    <3>2. a \notin Range(n.active)
      BY <1>6 DEF Agree
    <3> QED BY <2>1, <3>1, <3>2 DEF Adds
  <2>3. CASE a \notin Unloadable
    <3>1. PICK t : t = Append(room.registered, a)
      OBVIOUS
    <3>2. room.registered \in Caches /\ a \notin Range(room.registered)
      BY <1>6, <2>1 DEF Managers
    <3>3. /\ t \in Caches /\ Range(t) = Range(room.registered) \cup {a}
          /\ Len(t) = Len(room.registered) + 1 /\ Latest(t, D \cup {a})
      BY <2>1, <3>1, <3>2, AppendedTo
    <3>4. PICK k : k = [room EXCEPT !.registered = t]
      OBVIOUS
    <3>5. /\ k \in Managers(l, x)
          /\ k.active = room.active /\ k.slots = room.slots /\ k.registered = t
      BY <2>1, <3>3, <3>4 DEF Managers
    <3>6. Agree(k)
      BY <2>1, <2>3, <3>3, <3>5 DEF Agree
    <3>7. o = ActivateLora(k, a)
      BY <1>2, <1>6, <2>3, <3>1, <3>4
    <3>8. a \in Range(k.registered) /\ Latest(k.active, D)
      BY <2>1, <3>3, <3>5
    <3>9. PICK u \in Managers(l, x) :
               /\ o = Ok(u) /\ Agree(u)
               /\ u.registered = k.registered
               /\ a \in Range(u.active) /\ Latest(u.active, D \cup {a})
      BY <3>5, <3>6, <3>7, <3>8, Activated
    <3>10. a \notin Range(n.active)
      BY <1>6 DEF Agree
    <3> QED BY <3>3, <3>5, <3>9, <3>10 DEF Adds
  <2> QED BY <2>2, <2>3
<1> QED BY <1>5, <1>6

-----------------------------------------------------------------------------
(* The fold of ApplyLoras. *)

Step(o, a) == IF o.raised = "none" THEN AddLora(o.m, a) ELSE o

ApplyBody(g, n, order, k) ==
    [s \in SUBSET (1 .. k) |-> IF s = {} THEN Ok(n) ELSE Step(g[s \ {Max(s)}], order[Max(s)])]

\* The loop over the adapters of a batch is defined.
LEMMA ApplyDefined ==
    ASSUME NEW n, NEW order, NEW k \in Nat, NEW U, NEW R,
           R \subseteq (SUBSET (1 .. k)) \X U, <<{}, Ok(n)>> \in R,
           \A s \in SUBSET (1 .. k) : \A i \in s : \A o \in U :
             <<s \ {i}, o>> \in R => <<s, Step(o, order[i])>> \in R
    PROVE  \E g : g = ApplyBody(g, n, order, k)
<1> DEFINE S == 1 .. k
           pick == [s \in SUBSET S |-> Max(s)]
           F == [p \in (SUBSET S) \X U |-> Step(p[2], order[Max(p[1])])]
<1>1. Picks(pick, S) /\ \A s \in SUBSET S : pick[s] = Max(s)
  <2> SUFFICES ASSUME NEW s \in SUBSET S, s # {}
               PROVE  Max(s) \in s
    BY DEF Picks
  <2> QED BY Extremes DEF Max
<1>2. \A s \in SUBSET S : \A o \in U : F[<<s, o>>] = Step(o, order[Max(s)])
  <2> HIDE DEF F
  <2> SUFFICES ASSUME NEW s \in SUBSET S, NEW o \in U
               PROVE  F[<<s, o>>] = Step(o, order[Max(s)])
    OBVIOUS
  <2>1. <<s, o>> \in (SUBSET S) \X U
    OBVIOUS
  <2> QED BY <2>1 DEF F
<1>3. IsFiniteSet(S)
  BY FS_Interval
<1>4. \A s \in SUBSET S : \A i \in s : \A o \in U :
        <<s \ {i}, o>> \in R => <<s, Step(o, order[i])>> \in R
  OBVIOUS
<1>5. R \subseteq (SUBSET S) \X U /\ <<{}, Ok(n)>> \in R
  OBVIOUS
<1> HIDE DEF pick, F, S
<1>6. PICK g : g = FoldBody(g, S, Ok(n), pick, F)
  BY <1>1, <1>3, FoldDefined
<1>7. \A s \in SUBSET S : <<s, g[s]>> \in R
  <2>1. \A s \in SUBSET S :
          FoldBody(g, S, Ok(n), pick, F)[s] = IF s = {} THEN Ok(n) ELSE F[<<s, g[s \ {pick[s]}]>>]
    BY DEF FoldBody
  <2>2. g[{}] = Ok(n) /\ \A s \in SUBSET S : s # {} => g[s] = F[<<s, g[s \ {pick[s]}]>>]
    BY <1>6, <2>1
  <2>3. \A s \in SUBSET S : s # {} /\ <<s \ {pick[s]}, g[s \ {pick[s]}]>> \in R
                               => <<s, g[s]>> \in R
    <3> SUFFICES ASSUME NEW s \in SUBSET S, s # {},
                        <<s \ {Max(s)}, g[s \ {Max(s)}]>> \in R
                 PROVE  <<s, g[s]>> \in R
      BY <1>1
    <3>1. g[s \ {Max(s)}] \in U /\ Max(s) \in s
      BY <1>1, <1>5 DEF Picks
    <3>2. g[s] = F[<<s, g[s \ {Max(s)}]>>]
      BY <1>1, <2>2
    <3>3. g[s] = Step(g[s \ {Max(s)}], order[Max(s)])
      BY <1>2, <3>1, <3>2
    <3> QED BY <1>4, <3>1, <3>3
  <2>4. <<{}, g[{}]>> \in R
    BY <1>5, <2>2
  <2> QED BY <1>1, <1>3, <2>3, <2>4, FoldKeeps
<1>8. \A s \in SUBSET S : s # {} =>
        F[<<s, g[s \ {pick[s]}]>>] = Step(g[s \ {Max(s)}], order[Max(s)])
  <2> SUFFICES ASSUME NEW s \in SUBSET S, s # {}
               PROVE  F[<<s, g[s \ {Max(s)}]>>] = Step(g[s \ {Max(s)}], order[Max(s)])
    BY <1>1
  <2>1. s \ {Max(s)} \in SUBSET S
    OBVIOUS
  <2>2. g[s \ {Max(s)}] \in U
    BY <1>5, <1>7, <2>1
  <2> QED BY <1>2, <2>2
<1>9. FoldBody(g, S, Ok(n), pick, F) = ApplyBody(g, n, order, k)
  <2> DEFINE G(s) == F[<<s, g[s \ {pick[s]}]>>]
             H(s) == Step(g[s \ {Max(s)}], order[Max(s)])
  <2>1. \A s \in SUBSET S : s # {} => G(s) = H(s)
    BY <1>8
  <2> HIDE DEF G, H
  <2>2. [s \in SUBSET S |-> IF s = {} THEN Ok(n) ELSE G(s)]
          = [s \in SUBSET S |-> IF s = {} THEN Ok(n) ELSE H(s)]
    BY <2>1
  <2> QED BY <2>2 DEF FoldBody, ApplyBody, G, H, S
<1> QED BY <1>6, <1>9

\* What each turn of that loop keeps holds at its end.
LEMMA ApplyKeeps ==
    ASSUME NEW n, NEW order, NEW k \in Nat, DOMAIN order = 1 .. k, NEW U, NEW R,
           ~(Len(order) > MaxLoras),
           R \subseteq (SUBSET (1 .. k)) \X U, <<{}, Ok(n)>> \in R,
           \A s \in SUBSET (1 .. k) : \A i \in s : \A o \in U :
             <<s \ {i}, o>> \in R => <<s, Step(o, order[i])>> \in R
    PROVE  <<1 .. k, ApplyLoras(n, order)>> \in R
<1> DEFINE S == 1 .. k
           pick == [s \in SUBSET S |-> Max(s)]
           iter == CHOOSE g : g = ApplyBody(g, n, order, k)
<1>1. Picks(pick, S) /\ \A s \in SUBSET S : pick[s] = Max(s)
  <2> SUFFICES ASSUME NEW s \in SUBSET S, s # {}
               PROVE  Max(s) \in s
    BY DEF Picks
  <2> QED BY Extremes DEF Max
<1>2. iter = ApplyBody(iter, n, order, k)
  BY ApplyDefined
<1>3. ApplyLoras(n, order) = iter[S]
  BY DEF ApplyLoras, FoldLeft, MapThenFoldSet, ApplyBody, Step
<1>4. IsFiniteSet(S)
  BY FS_Interval
<1>5. \A s \in SUBSET S : \A i \in s : \A o \in U :
        <<s \ {i}, o>> \in R => <<s, Step(o, order[i])>> \in R
  OBVIOUS
<1>6. R \subseteq (SUBSET S) \X U /\ <<{}, Ok(n)>> \in R
  OBVIOUS
<1>7. \A s \in SUBSET S : ApplyBody(iter, n, order, k)[s] =
        IF s = {} THEN Ok(n) ELSE Step(iter[s \ {Max(s)}], order[Max(s)])
  BY DEF ApplyBody
<1> HIDE DEF iter, pick, S
<1>8. iter[{}] = Ok(n)
  BY <1>2, <1>7
<1>9. \A s \in SUBSET S : s # {} /\ <<s \ {pick[s]}, iter[s \ {pick[s]}]>> \in R
                            => <<s, iter[s]>> \in R
  <2> SUFFICES ASSUME NEW s \in SUBSET S, s # {},
                      <<s \ {Max(s)}, iter[s \ {Max(s)}]>> \in R
               PROVE  <<s, iter[s]>> \in R
    BY <1>1
  <2>1. Max(s) \in s /\ iter[s \ {Max(s)}] \in U
    BY <1>1, <1>6 DEF Picks
  <2>2. iter[s] = Step(iter[s \ {Max(s)}], order[Max(s)])
    BY <1>2, <1>7
  <2> QED BY <1>5, <2>1, <2>2
<1>10. \A s \in SUBSET S : <<s, iter[s]>> \in R
  <2>1. <<{}, iter[{}]>> \in R
    BY <1>6, <1>8
  <2> QED BY <1>1, <1>4, <1>9, <2>1, FoldKeeps
<1>11. <<S, iter[S]>> \in R
  BY <1>10
<1> QED BY <1>3, <1>11 DEF S

\* The adapters of a batch are given slots one after the other: none has to leave
\* for another, and nothing moves if all of them are active already.
LEMMA Applied ==
    ASSUME NEW l, NEW x, NEW n \in Managers(l, x), Agree(n), NEW k \in Nat, k <= MaxLoras,
           NEW order \in [1 .. k -> LoRAs], IsInjective(order)
    PROVE  \E u \in Managers(l, x) :
             /\ Agree(u)
             /\ \/ ApplyLoras(n, order) = Raise(u, "load")
                \/ ApplyLoras(n, order) = Ok(u) /\ Range(order) \subseteq Range(u.active)
             /\ Range(order) \subseteq Range(n.active) =>
                  ApplyLoras(n, order) = Ok(u) /\ u.slots = n.slots
<1> DEFINE S == 1 .. k
           Done(s) == {order[i] : i \in s}
           U == [m : Managers(l, x), raised : {"none", "load"}]
           Kept(o) == Range(order) \subseteq Range(n.active) =>
                        /\ o.raised = "none" /\ o.m.slots = n.slots
                        /\ Range(o.m.active) = Range(n.active)
           Holds(s, o) == /\ Agree(o.m) /\ Kept(o)
                          /\ o.raised = "none" => /\ Latest(o.m.registered, Done(s))
                                                  /\ Latest(o.m.active, Done(s))
           R == {p \in (SUBSET S) \X U : Holds(p[1], p[2])}
<1>1. ASSUME NEW s \in SUBSET S, NEW i \in s
      PROVE  /\ IsFiniteSet(Done(s \ {i})) /\ Cardinality(Done(s \ {i})) < MaxLoras
             /\ order[i] \notin Done(s \ {i})
             /\ Done(s \ {i}) \cup {order[i]} = Done(s)
  <2> DEFINE T == s \ {i}
             f == [j \in T |-> order[j]]
  <2>1. IsFiniteSet(S) /\ Cardinality(S) = k
    <3>1. IsFiniteSet(1 .. k) /\ Cardinality(1 .. k) = IF 1 > k THEN 0 ELSE k - 1 + 1
      BY FS_Interval
    <3> QED BY <3>1
  <2>2. IsFiniteSet(S \ {i}) /\ Cardinality(S \ {i}) = k - 1
    <3> HIDE DEF S
    <3>1. i \in S
      OBVIOUS
    <3> QED BY <2>1, <3>1, FS_RemoveElement
  <2>3. T \in SUBSET (S \ {i})
    OBVIOUS
  <2>4. IsFiniteSet(T) /\ Cardinality(T) <= k - 1
    <3> HIDE DEF S, T
    <3> QED BY <2>2, <2>3, FS_Subset
  <2>5. f \in Surjection(T, Done(T))
    BY DEF Surjection
  <2>6. IsFiniteSet(Done(T)) /\ Cardinality(Done(T)) <= Cardinality(T)
    <3> HIDE DEF f, T, Done
    <3> QED BY <2>4, <2>5, FS_Surjection
  <2>7. Cardinality(Done(T)) \in Nat /\ Cardinality(T) \in Nat
    <3> HIDE DEF T, Done
    <3> QED BY <2>4, <2>6, FS_CardinalityType
  <2>8. Cardinality(Done(T)) < MaxLoras
    <3> HIDE DEF T, Done
    <3> QED BY <2>4, <2>6, <2>7, LoRAAssumption
  <2>9. order[i] \notin Done(T)
    <3>1. \A j \in T : j \in 1 .. k /\ i \in 1 .. k /\ j # i
      OBVIOUS
    <3> QED BY <3>1 DEF IsInjective
  <2>10. Done(T) \cup {order[i]} = Done(s)
    <3>1. s = T \cup {i}
      OBVIOUS
    <3> HIDE DEF T
    <3> QED BY <3>1
  <2> QED BY <2>6, <2>8, <2>9, <2>10
<1>2. Range(order) = {order[i] : i \in S}
  BY DEF Range
<1>3. <<{}, Ok(n)>> \in R
  <2>1. Ok(n) \in U /\ Ok(n).m = n /\ Ok(n).raised = "none"
    BY DEF Ok
  <2>2. Latest(n.registered, {}) /\ Latest(n.active, {})
    BY DEF Latest
  <2>3. Done({}) = {}
    OBVIOUS
  <2>4. Holds({}, Ok(n))
    <3> HIDE DEF Done
    <3> QED BY <2>1, <2>2, <2>3
  <2> HIDE DEF Holds, U
  <2> QED BY <2>1, <2>4
<1>4. ASSUME NEW s \in SUBSET S, NEW i \in s, NEW o \in U, <<s \ {i}, o>> \in R
      PROVE  <<s, Step(o, order[i])>> \in R
  <2>1. PICK D : D = Done(s \ {i})
    OBVIOUS
  <2>2. PICK a : a = order[i]
    OBVIOUS
  <2>3. PICK E : E = Done(s)
    OBVIOUS
  <2>4. /\ IsFiniteSet(D) /\ Cardinality(D) < MaxLoras
        /\ a \notin D /\ D \cup {a} = E
    <3> HIDE DEF Done
    <3> QED BY <1>1, <2>1, <2>2, <2>3
  <2>5. a \in LoRAs /\ a \in Range(order)
    BY <1>2, <2>2
  <2>6. /\ o.m \in Managers(l, x) /\ o.raised \in {"none", "load"}
        /\ o = [m |-> o.m, raised |-> o.raised]
    OBVIOUS
  <2>7. /\ Agree(o.m) /\ Kept(o)
        /\ o.raised = "none" => Latest(o.m.registered, D) /\ Latest(o.m.active, D)
    <3>1. Holds(s \ {i}, o)
      BY <1>4
    <3> HIDE DEF Done, Kept
    <3> QED BY <2>1, <3>1
  <2>8. PICK p : p = Step(o, a)
    OBVIOUS
  <2>9. SUFFICES p \in U /\ Agree(p.m) /\ Kept(p)
                 /\ (p.raised = "none" => Latest(p.m.registered, E) /\ Latest(p.m.active, E))
    <3> HIDE DEF Done, U, Kept
    <3> QED BY <2>2, <2>3, <2>8, <2>9
  <2>10. CASE o.raised # "none"
    <3>1. p = o
      BY <2>8, <2>10 DEF Step
    <3> HIDE DEF U, Kept
    <3> QED BY <2>7, <2>10, <3>1
  <2>11. CASE o.raised = "none"
    <3>1. p = AddLora(o.m, a)
      BY <2>8, <2>11 DEF Step
    <3>2. Latest(o.m.registered, D) /\ Latest(o.m.active, D) /\ Agree(o.m) /\ o.m \in Managers(l, x)
      BY <2>6, <2>7, <2>11
    <3>3. PICK v : v = o.m
      OBVIOUS
    <3>4. PICK u \in Managers(l, x) :
             /\ Agree(u)
             /\ \/ p = Raise(u, "load")
                \/ /\ p = Ok(u) /\ a \in Range(u.active)
                   /\ Latest(u.registered, D \cup {a}) /\ Latest(u.active, D \cup {a})
             /\ a \in Range(v.active) =>
                  p = Ok(u) /\ u.slots = v.slots /\ Range(u.active) = Range(v.active)
      <4>1. /\ v \in Managers(l, x) /\ Agree(v)
            /\ Latest(v.registered, D) /\ Latest(v.active, D) /\ p = AddLora(v, a)
        BY <3>1, <3>2, <3>3
      <4>2. IsFiniteSet(D) /\ Cardinality(D) < MaxLoras /\ a \notin D /\ a \in LoRAs
        BY <2>4, <2>5
      <4> HIDE DEF U, R, Kept, Done, S
      <4>3. /\ v \in Managers(l, x) /\ Agree(v) /\ a \in LoRAs
            /\ IsFiniteSet(D) /\ Cardinality(D) < MaxLoras /\ a \notin D
            /\ Latest(v.registered, D) /\ Latest(v.active, D) /\ p = AddLora(v, a)
        BY <4>1, <4>2
      <4>4. Adds(v, a, D, l, x, p)
        BY <4>3, Added
      <4> QED BY <4>4 DEF Adds
    <3>5. p \in U /\ p.m = u /\ (p.raised = "none" => p = Ok(u))
      BY <3>4 DEF Ok, Raise
    <3>6. Ok(u).raised = "none"
      BY DEF Ok
    <3>7. Kept(p)
      <4> SUFFICES ASSUME Range(order) \subseteq Range(n.active)
                   PROVE  /\ p.raised = "none" /\ p.m.slots = n.slots
                          /\ Range(p.m.active) = Range(n.active)
        OBVIOUS
      <4>1. v.slots = n.slots /\ Range(v.active) = Range(n.active)
        BY <2>7, <3>3
      <4>2. a \in Range(v.active)
        BY <2>5, <4>1
      <4> HIDE DEF U, R
      <4> QED BY <3>4, <3>5, <3>6, <4>1, <4>2
    <3>8. p.raised = "none" => Latest(p.m.registered, E) /\ Latest(p.m.active, E)
      <4>1. Raise(u, "load").raised = "load"
        BY DEF Raise
      <4> HIDE DEF U, R, Kept
      <4> QED BY <2>4, <3>4, <3>5, <4>1
    <3>9. Agree(p.m)
      <4> HIDE DEF U
      <4> QED BY <3>4, <3>5
    <3> HIDE DEF U, Kept
    <3> QED BY <3>5, <3>7, <3>8, <3>9
  <2> QED BY <2>10, <2>11
<1>5. PICK w : w = ApplyLoras(n, order)
  OBVIOUS
<1>6. <<S, w>> \in R
  <2>1. ~(Len(order) > MaxLoras)
    <3>1. order \in Seq(LoRAs) /\ Len(order) = k
      OBVIOUS
    <3> QED BY <3>1, LoRAAssumption
  <2>2. R \subseteq (SUBSET S) \X U
    OBVIOUS
  <2>3. DOMAIN order = 1 .. k
    OBVIOUS
  <2>4. \A s \in SUBSET S : \A i \in s : \A o \in U :
          <<s \ {i}, o>> \in R => <<s, Step(o, order[i])>> \in R
    BY <1>4
  <2> HIDE DEF R, U
  <2> QED BY <1>3, <1>5, <2>1, <2>2, <2>3, <2>4, ApplyKeeps
<1>7. w \in U /\ Holds(S, w)
  <2> HIDE DEF U, Holds
  <2> QED BY <1>6
<1>8. Done(S) = Range(order)
  BY <1>2
<1>9. w = [m |-> w.m, raised |-> w.raised] /\ w.m \in Managers(l, x) /\ w.raised \in {"none", "load"}
  BY <1>7
<1>10. w.raised = "none" => Range(order) \subseteq Range(w.m.active)
  <2> HIDE DEF Done, Kept
  <2> QED BY <1>7, <1>8 DEF Latest
<1>11. Agree(w.m) /\ Kept(w)
  BY <1>7
<1> HIDE DEF U, R, Done, Holds
<1>12. w.raised = "none" => w = Ok(w.m)
  BY <1>9 DEF Ok
<1>13. w.raised # "none" => w = Raise(w.m, "load")
  BY <1>9 DEF Raise
<1>14. /\ \/ w = Raise(w.m, "load")
          \/ w = Ok(w.m) /\ Range(order) \subseteq Range(w.m.active)
       /\ Range(order) \subseteq Range(n.active) => w = Ok(w.m) /\ w.m.slots = n.slots
  BY <1>10, <1>11, <1>12, <1>13
<1> QED BY <1>5, <1>9, <1>11, <1>14

-----------------------------------------------------------------------------
(* The steps. *)

\* Each row of the last batch reads the slot of its own adapter.
IndicesRight(n) ==
    /\ n.indices \in [DOMAIN n.last -> Slots \cup {0}]
    /\ \A a \in DOMAIN n.last : IF n.indices[a] = 0 THEN a = Base ELSE n.slots[n.indices[a]] = a

\* While nothing is disturbed the indices are right for the last rows, those of the
\* batch when it has run: a batch with other rows computes its own, and one with the
\* same rows finds all of its adapters active, so that no slot changes hands.
LoRAInv ==
    /\ m \in Managers(m.last, m.indices) /\ Agree(m)
    /\ disturbed \in BOOLEAN
    /\ fault \in {"none", "load", "curr_loras"}
    /\ fault = "none" /\ ~disturbed => IndicesRight(m)
    /\ fault = "none" /\ phase = "process" => m.last = Rows(batch)

\* The managers agree at the start.
LEMMA InitLoRA == Init => LoRAInv
<1> SUFFICES ASSUME Init PROVE LoRAInv
  OBVIOUS
<1>1. PICK c : c = [i \in Slots |-> Free]
  OBVIOUS
<1>2. c \in [Slots -> LoRAs \cup {Free}] /\ \A i \in Slots : c[i] = Free
  BY <1>1
<1>3. m = [registered |-> <<>>, active |-> <<>>, slots |-> c,
           last |-> EmptyBag, indices |-> EmptyBag]
  BY <1>1 DEF Init, EmptyManager
<1>4. <<>> \in Caches /\ Range(<<>>) = {} /\ Len(<<>>) = 0
  BY DEF Caches, IsInjective, Range
<1>5. m \in Managers(m.last, m.indices)
  <2> HIDE DEF Slots
  <2> QED BY <1>2, <1>3, <1>4 DEF Managers
<1>6. Range(c) \ {Free} = {}
  BY <1>2 DEF Range
<1>7. Agree(m)
  BY <1>2, <1>3, <1>4, <1>6, LoRAAssumption DEF Agree
<1>8. EmptyBag = [e \in {} |-> 1]
  BY DEF EmptyBag, SetToBag
<1>9. EmptyBag \in [DOMAIN EmptyBag -> Slots \cup {0}] /\ DOMAIN EmptyBag = {}
  BY <1>8
<1>10. IndicesRight(m)
  BY <1>3, <1>9 DEF IndicesRight
<1> QED BY <1>5, <1>7, <1>10 DEF LoRAInv, Init

\* Steps that do not concern the worker.
LEMMA LoRAFrame ==
    ASSUME LoRAInv, m' = m, disturbed' = disturbed,
           fault' \in {fault, "curr_loras"},
           phase' = "process" => phase = "process" /\ batch' = batch /\ adapter' = adapter
    PROVE  LoRAInv'
<1>1. (m \in Managers(m.last, m.indices))' /\ Agree(m)' /\ disturbed' \in BOOLEAN
  BY DEF LoRAInv
<1>2. fault' \in {"none", "load", "curr_loras"} /\ (fault' = "none" => fault = "none")
  BY DEF LoRAInv
<1>3. fault' = "none" /\ ~disturbed' => IndicesRight(m)'
  BY <1>2 DEF LoRAInv
<1>4. fault' = "none" /\ phase' = "process" => (m.last = Rows(batch))'
  <2>1. phase' = "process" => Rows(batch)' = Rows(batch)
    BY DEF Rows
  <2> QED BY <1>2, <2>1 DEF LoRAInv
<1> QED BY <1>1, <1>2, <1>3, <1>4 DEF LoRAInv

\* add_lora and remove_lora between steps keep them in agreement.
LEMMA AddOrRemove ==
    ASSUME LoRAInv, NEW a \in Managed, At("idle"),
           m' = AddLora(m, a).m \/ m' = RemoveLora(m, a),
           disturbed' = (disturbed \/ m'.slots # m.slots),
           phase' = phase, fault' = fault
    PROVE  LoRAInv'
<1>1. PICK l : l = m.last
  OBVIOUS
<1>2. PICK x : x = m.indices
  OBVIOUS
<1>3. m \in Managers(l, x) /\ Agree(m)
  BY <1>1, <1>2 DEF LoRAInv
<1>4. m' \in Managers(l, x) /\ Agree(m')
  <2>1. CASE m' = AddLora(m, a).m
    <3>1. PICK o : o = AddLora(m, a)
      OBVIOUS
    <3>2. IsFiniteSet({}) /\ Cardinality({}) < MaxLoras
      BY FS_EmptySet, LoRAAssumption
    <3>3. Latest(m.registered, {}) /\ Latest(m.active, {}) /\ a \notin {} /\ a \in LoRAs
      BY BatchingAssumption DEF Latest
    <3>4. Adds(m, a, {}, l, x, o)
      BY <1>3, <3>1, <3>2, <3>3, Added
    <3>5. PICK u \in Managers(l, x) : Agree(u) /\ (o = Raise(u, "load") \/ o = Ok(u))
      BY <3>4 DEF Adds
    <3>6. m' = u
      BY <2>1, <3>1, <3>5 DEF Raise, Ok
    <3> QED BY <3>5, <3>6
  <2>2. CASE m' = RemoveLora(m, a)
    <3>1. PICK u : u = RemoveLora(m, a)
      OBVIOUS
    <3>2. u \in Managers(l, x) /\ Agree(u)
      BY <1>3, <3>1, RemovedLora
    <3> QED BY <2>2, <3>1, <3>2
  <2> QED BY <2>1, <2>2
<1>5. m'.last = m.last /\ m'.indices = m.indices
  BY <1>1, <1>2, <1>4 DEF Managers
<1>6. disturbed \in BOOLEAN /\ (fault = "none" /\ ~disturbed => IndicesRight(m))
  BY DEF LoRAInv
<1>7. disturbed' \in BOOLEAN /\ (~disturbed' => ~disturbed /\ m'.slots = m.slots)
  BY <1>6
<1>8. fault' = "none" /\ ~disturbed' => IndicesRight(m)'
  BY <1>5, <1>6, <1>7 DEF IndicesRight
<1>9. (m \in Managers(m.last, m.indices))' /\ Agree(m)'
  BY <1>1, <1>2, <1>4, <1>5 DEF Agree
<1>10. phase' # "process"
  BY DEF At
<1> QED BY <1>7, <1>8, <1>9, <1>10 DEF LoRAInv

\* An order in which the adapters of the batch may come is a list of all of them.
LEMMA OrdersAre ==
    ASSUME IInv, NEW order \in SetToSeqs(LoRAsOf(batch))
    PROVE  \E k \in Nat : /\ k <= MaxLoras /\ order \in [1 .. k -> LoRAs]
                          /\ IsInjective(order) /\ Range(order) = LoRAsOf(batch)
<1>1. PICK S : S = LoRAsOf(batch)
  OBVIOUS
<1>2. S \subseteq LoRAsOf(Having("running"))
  BY <1>1 DEF IInv, LoRAsOf
<1>3. IsFiniteSet(S) /\ Cardinality(S) <= MaxLoras
  BY <1>2, SubsetFits DEF IInv, Fits
<1>4. PICK k \in Nat : k = Cardinality(S)
  BY <1>3, FS_CardinalityType
<1>5. order \in [1 .. k -> S] /\ \A i, j \in 1 .. k : i # j => order[i] # order[j]
  BY <1>1, <1>4 DEF SetToSeqs
<1>6. IsInjective(order)
  BY <1>5 DEF IsInjective
<1>7. order \in Injection(1 .. k, S)
  BY <1>5, <1>6 DEF Injection
<1>8. Cardinality(1 .. k) = k
  <2>1. Cardinality(1 .. k) = IF 1 > k THEN 0 ELSE k - 1 + 1
    BY FS_Interval
  <2> QED BY <2>1
<1>9. order \in Surjection(1 .. k, S)
  BY <1>3, <1>4, <1>7, <1>8, FS_Injection
<1>10. Range(order) = S
  BY <1>5, <1>9 DEF Surjection, Range
<1>11. S \subseteq LoRAs
  BY <1>1 DEF LoRAsOf, IInv, Types, Having
<1>12. order \in [1 .. k -> LoRAs] /\ k <= MaxLoras
  BY <1>3, <1>4, <1>5, <1>11
<1> QED BY <1>1, <1>6, <1>10, <1>12

\* The rows: their adapters are those of the batch, and Base.
LEMMA RowsAre ==
    ASSUME IInv
    PROVE  /\ DOMAIN Rows(batch) \ {Base} = LoRAsOf(batch)
           /\ DOMAIN Rows(batch) \subseteq LoRAs \cup {Base}
BY DEF Rows, LoRAsOf, IInv, Types, Having

\* set_lora_mapping gives each row the slot of its adapter.
LEMMA Mapped ==
    ASSUME IInv, NEW l, NEW x, NEW n \in Managers(l, x), Agree(n),
           LoRAsOf(batch) \subseteq Range(n.active),
           Rows(batch) # l,
           NEW o, o = SetLoraMapping(n, Rows(batch))
    PROVE  \E u, y : /\ o = Ok(u) /\ u \in Managers(Rows(batch), y) /\ Agree(u)
                     /\ u.last = Rows(batch) /\ u.indices = y
                     /\ IndicesRight(u)
<1>1. PICK rows : rows = Rows(batch)
  OBVIOUS
<1>2. DOMAIN rows \ {Base} \subseteq Range(n.slots) \ {Free}
  BY <1>1, RowsAre DEF Agree
<1>3. PICK y : y = Indices(n, rows)
  OBVIOUS
<1>4. PICK u : u = [n EXCEPT !.last = rows, !.indices = y]
  OBVIOUS
<1>5. n.last = l
  BY DEF Managers
<1>6. o = Ok(u)
  BY <1>1, <1>2, <1>3, <1>4, <1>5 DEF SetLoraMapping
<1>7. /\ u \in Managers(rows, y)
      /\ u.last = rows /\ u.indices = y
      /\ u.active = n.active /\ u.slots = n.slots /\ u.registered = n.registered
  BY <1>4 DEF Managers
<1>8. Agree(u)
  BY <1>7 DEF Agree
<1>9. ASSUME NEW a \in DOMAIN rows
      PROVE  /\ y[a] \in Slots \cup {0}
             /\ IF y[a] = 0 THEN a = Base ELSE n.slots[y[a]] = a
  <2>1. y[a] = IF a = Base THEN 0 ELSE CHOOSE i \in Slots : n.slots[i] = a
    BY <1>3 DEF Indices
  <2>2. CASE a = Base
    BY <2>1, <2>2
  <2>3. CASE a # Base
    <3>1. n.slots \in [Slots -> LoRAs \cup {Free}]
      BY DEF Managers
    <3>2. \E i \in Slots : n.slots[i] = a
      BY <1>2, <2>3, <3>1 DEF Range
    <3>3. y[a] \in Slots /\ n.slots[y[a]] = a
      BY <2>1, <2>3, <3>2
    <3>4. y[a] # 0
      BY <3>3, LoRAAssumption DEF Slots
    <3> QED BY <3>3, <3>4
  <2> QED BY <2>2, <2>3
<1>10. DOMAIN y = DOMAIN rows /\ y = [a \in DOMAIN rows |-> y[a]]
  BY <1>3 DEF Indices
<1>11. y \in [DOMAIN rows -> Slots \cup {0}]
  BY <1>9, <1>10
<1>12. IndicesRight(u)
  BY <1>7, <1>9, <1>11 DEF IndicesRight
<1> QED BY <1>1, <1>6, <1>7, <1>8, <1>12

\* The execution of a batch keeps the managers in agreement.
LEMMA ExecuteLoRA ==
    ASSUME IInv, LoRAInv, NEW order \in SetToSeqs(LoRAsOf(batch)), Execute(order)
    PROVE  LoRAInv'
<1>1. PICK l : l = m.last
  OBVIOUS
<1>2. PICK x : x = m.indices
  OBVIOUS
<1>3. m \in Managers(l, x) /\ Agree(m)
  BY <1>1, <1>2 DEF LoRAInv
<1>4. PICK k \in Nat : /\ k <= MaxLoras /\ order \in [1 .. k -> LoRAs]
                       /\ IsInjective(order) /\ Range(order) = LoRAsOf(batch)
  BY OrdersAre
<1>5. PICK p : p = ApplyLoras(m, order)
  OBVIOUS
<1>6. PICK u \in Managers(l, x) :
        /\ Agree(u)
        /\ \/ p = Raise(u, "load")
           \/ p = Ok(u) /\ Range(order) \subseteq Range(u.active)
        /\ Range(order) \subseteq Range(m.active) => p = Ok(u) /\ u.slots = m.slots
  BY <1>3, <1>4, <1>5, Applied
<1>7. PICK rows : rows = Rows(batch)
  OBVIOUS
<1>8. PICK o : o = SetActiveLoras(m, order, rows)
  OBVIOUS
<1>9. /\ m' = o.m /\ fault' = o.raised /\ phase' = "process"
      /\ disturbed' = (disturbed /\ rows = l)
      /\ batch' = batch /\ adapter' = adapter /\ fault = "none"
  BY <1>1, <1>7, <1>8 DEF Execute, At
<1>10. Rows(batch)' = rows
  BY <1>7, <1>9 DEF Rows
<1>11. o = IF p.raised = "none" THEN SetLoraMapping(p.m, rows) ELSE p
  BY <1>5, <1>8 DEF SetActiveLoras
<1>12. u.last = l /\ u.indices = x
  BY DEF Managers
<1>13. disturbed \in BOOLEAN /\ (~disturbed => IndicesRight(m))
  BY <1>9 DEF LoRAInv
<1>14. CASE p = Raise(u, "load")
  <2>1. m' = u /\ fault' = "load"
    BY <1>9, <1>11, <1>14 DEF Raise
  <2>2. (m \in Managers(m.last, m.indices))' /\ Agree(m)'
    BY <1>6, <1>12, <2>1
  <2>3. disturbed' \in BOOLEAN
    BY <1>9
  <2> QED BY <2>1, <2>2, <2>3 DEF LoRAInv
<1>15. CASE p = Ok(u) /\ Range(order) \subseteq Range(u.active)
  <2>1. o = SetLoraMapping(u, rows)
    BY <1>11, <1>15 DEF Ok
  <2>2. CASE rows = l
    <3>1. m' = u /\ fault' = "none"
      BY <1>9, <1>12, <2>1, <2>2 DEF SetLoraMapping, Ok
    <3>2. (m \in Managers(m.last, m.indices))' /\ Agree(m)'
      BY <1>6, <1>12, <3>1
    <3>3. disturbed' \in BOOLEAN /\ (~disturbed' => ~disturbed)
      BY <1>9, <1>13, <2>2
    <3>4. ASSUME ~disturbed PROVE IndicesRight(u)
      <4>1. IndicesRight(m)
        BY <1>13, <3>4
      <4>2. m.slots \in [Slots -> LoRAs \cup {Free}]
        BY <1>3 DEF Managers
      <4>3. ASSUME NEW a \in LoRAsOf(batch)
            PROVE  a \in Range(m.active)
        <5>1. a \in DOMAIN rows /\ a # Base /\ a # Free
          BY <1>7, <4>3, RowsAre DEF Base, Free
        <5>2. m.indices[a] \in Slots /\ m.slots[m.indices[a]] = a
          BY <1>1, <2>2, <4>1, <5>1 DEF IndicesRight
        <5>3. a \in Range(m.slots)
          BY <4>2, <5>2 DEF Range
        <5> QED BY <1>3, <5>1, <5>3 DEF Agree
      <4>4. u.slots = m.slots
        BY <1>4, <1>6, <4>3
      <4> QED BY <1>1, <1>2, <1>12, <4>1, <4>4 DEF IndicesRight
    <3>5. (m.last = Rows(batch))'
      BY <1>10, <1>12, <2>2, <3>1
    <3>6. ~disturbed' => IndicesRight(m)'
      BY <3>1, <3>3, <3>4 DEF IndicesRight
    <3> QED BY <3>1, <3>2, <3>3, <3>5, <3>6 DEF LoRAInv
  <2>3. CASE rows # l
    <3>1. PICK v, y : /\ o = Ok(v) /\ v \in Managers(rows, y) /\ Agree(v)
                      /\ v.last = rows /\ v.indices = y
                      /\ IndicesRight(v)
      BY <1>4, <1>6, <1>7, <1>15, <2>1, <2>3, Mapped
    <3>2. m' = v /\ fault' = "none"
      BY <1>9, <3>1 DEF Ok
    <3>3. (m \in Managers(m.last, m.indices))' /\ Agree(m)' /\ IndicesRight(m)'
      BY <3>1, <3>2
    <3>4. disturbed' \in BOOLEAN
      BY <1>9
    <3>5. (m.last = Rows(batch))'
      BY <1>10, <3>1, <3>2
    <3> QED BY <3>2, <3>3, <3>4, <3>5 DEF LoRAInv
  <2> QED BY <2>2, <2>3
<1> QED BY <1>6, <1>14, <1>15

\* Every step keeps them in agreement.
LEMMA NextLoRA == IInv /\ LoRAInv /\ [Next]_vars => LoRAInv'
<1> SUFFICES ASSUME IInv, LoRAInv, [Next]_vars PROVE LoRAInv'
  OBVIOUS
<1>1. CASE UNCHANGED vars
  BY <1>1, LoRAFrame DEF vars
<1>2. ASSUME NEW r \in Requests, NEW a \in Requestable[r], AddSeqGroup(r, a)
      PROVE  LoRAInv'
  BY <1>2, LoRAFrame DEF AddSeqGroup, At
<1>3. ASSUME NEW r \in Requests, AbortSeqGroup(r)
      PROVE  LoRAInv'
  BY <1>3, LoRAFrame DEF AbortSeqGroup, At
<1>4. ASSUME NEW a \in Managed, EngineAddLora(a) \/ EngineRemoveLora(a)
      PROVE  LoRAInv'
  BY <1>4, AddOrRemove DEF EngineAddLora, EngineRemoveLora
<1>5. CASE Schedule
  BY <1>5, LoRAFrame DEF Schedule
<1>6. ASSUME NEW r \in Requests, SchedulePrefill(r) \/ ScheduleSwapped(r)
      PROVE  LoRAInv'
  BY <1>6, LoRAFrame DEF SchedulePrefill, ScheduleSwapped, Join, At
<1>7. CASE EndPrefills
  BY <1>7, LoRAFrame DEF EndPrefills
<1>8. ASSUME NEW r \in Requests, ScheduleRunning(r)
      PROVE  LoRAInv'
  BY <1>8, LoRAFrame DEF ScheduleRunning, At
<1>9. ASSUME NEW r \in Requests, NEW v \in Requests, NEW to \in {"waiting", "swapped"},
             Preempt(r, v, to)
      PROVE  LoRAInv'
  BY <1>9, LoRAFrame DEF Preempt, At
<1>10. CASE EndRunning
  BY <1>10, LoRAFrame DEF EndRunning, AfterScheduling
<1>11. CASE EndSwapped
  BY <1>11, LoRAFrame DEF EndSwapped, AfterScheduling
<1>12. ASSUME NEW order \in SetToSeqs(LoRAsOf(batch)), Execute(order)
       PROVE  LoRAInv'
  BY <1>12, ExecuteLoRA
<1>13. ASSUME NEW ended \in SUBSET batch, ProcessOutputs(ended)
       PROVE  LoRAInv'
  BY <1>13, LoRAFrame DEF ProcessOutputs
<1> QED
  BY <1>1, <1>2, <1>3, <1>4, <1>5, <1>6, <1>7, <1>8, <1>9, <1>10, <1>11, <1>12, <1>13
     DEF Next

\* The invariant implies that slots and caches agree.
LEMMA InvImpliesAgree == LoRAInv => SlotsAgree
<1> SUFFICES ASSUME LoRAInv PROVE SlotsAgree
  OBVIOUS
<1>1. m \in Managers(m.last, m.indices) /\ Agree(m)
  BY DEF LoRAInv
<1>2. /\ m.slots \in [Slots -> LoRAs \cup {Free}]
      /\ m.active \in Caches /\ m.registered \in Caches
  BY <1>1 DEF Managers
<1>3. IsInjective(m.active) /\ IsInjective(m.registered) /\ m.registered \in Seq(LoRAs)
  BY <1>2 DEF Caches
<1>4. Range(m.registered) \subseteq LoRAs
  BY <1>3 DEF Range
<1>5. Cardinality({i \in Slots : m.slots[i] # Free}) = Len(m.active)
  BY <1>1, SlotsUsed
<1> QED BY <1>1, <1>2, <1>3, <1>4, <1>5 DEF SlotsAgree, Agree

\* It implies that rows get their adapters.
LEMMA InvImpliesRows == LoRAInv => RowsGetTheirAdapter
<1> SUFFICES ASSUME LoRAInv, At("process"), ~disturbed
             PROVE  /\ m.indices \in [DOMAIN Rows(batch) -> Slots \cup {0}]
                    /\ \A a \in DOMAIN m.indices :
                         IF m.indices[a] = 0 THEN a = Base ELSE m.slots[m.indices[a]] = a
  BY DEF RowsGetTheirAdapter
<1>1. IndicesRight(m) /\ m.last = Rows(batch)
  BY DEF LoRAInv, At
<1> QED BY <1>1 DEF IndicesRight

\* Both invariants together.
LEMMA LoRAInvHolds == Spec => [](IInv /\ LoRAInv)
<1> QED BY InitInv, NextInv, InitLoRA, NextLoRA, PTL DEF Spec

\* The caches and lora_index_to_id of the worker's managers stay together: an
\* active adapter has its one slot and is registered, and no slot is lost, however
\* batches, add_lora, remove_lora and failed loads follow each other.
THEOREM SlotsStay == Spec => []SlotsAgree
<1> QED BY LoRAInvHolds, InvImpliesAgree, PTL

\* _apply_loras never runs out of slots, nor evicts an adapter of the batch for
\* another one of it, and convert_mapping finds each adapter in its slot.
THEOREM BatchesRun == Spec => []StepsSucceed
<1>1. LoRAInv => StepsSucceed
  BY DEF LoRAInv, StepsSucceed
<1> QED BY <1>1, LoRAInvHolds, PTL

\* The rows of a batch get the weights of their own adapters, although the indices
\* are kept from the last batch when the rows are the same.
THEOREM RowsServed == Spec => []RowsGetTheirAdapter
<1> QED BY LoRAInvHolds, InvImpliesRows, PTL

=============================================================================
