---------------------------- MODULE Folding_proofs ----------------------------
(***************************************************************************)
(* Folds over finite sets: that the recursive function behind them exists, *)
(* and what holds of its values.  The step of a fold is given as a         *)
(* function F of pairs <<s, u>>, the part of the set that is folded after  *)
(* the step and the value before it; pick[s] is the element that the step  *)
(* takes.                                                                  *)
(***************************************************************************)
EXTENDS Integers, Lists, FiniteSetTheorems, SequenceTheorems, TLAPS

FoldBody(g, S, base, pick, F) ==
    [s \in SUBSET S |-> IF s = {} THEN base ELSE F[<<s, g[s \ {pick[s]}]>>]]

Picks(pick, S) == \A s \in SUBSET S : s # {} => pick[s] \in s

\* Induction over the natural numbers, and over the subsets of a finite set.
LEMMA NatSetInduction ==
    ASSUME NEW S, 0 \in S, \A n \in Nat : n \in S => n + 1 \in S
    PROVE  Nat \subseteq S
<1> DEFINE T == Nat \ S
<1>1. SUFFICES ASSUME T # {} PROVE FALSE
  OBVIOUS
<1>2. IsWellFoundedOn(OpToRel(<, Nat), Nat)
  BY NatLessThanWellFounded
<1>3. \E x \in T : \A y \in T : <<y, x>> \notin OpToRel(<, Nat)
  BY <1>1, <1>2, WFMin
<1>4. PICK x \in T : \A y \in T : <<y, x>> \notin OpToRel(<, Nat)
  BY <1>3
<1>5. \A y \in T : ~(y < x)
  BY <1>4 DEF OpToRel
<1>6. x # 0 /\ x - 1 \in Nat
  OBVIOUS
<1>7. x - 1 \in S
  BY <1>5, <1>6
<1> QED BY <1>6, <1>7

\* Induction over the subsets of a finite set: a set of subsets that has each whose
\* smaller ones it has, has all.
LEMMA SubsetInduction ==
    ASSUME NEW S, IsFiniteSet(S), NEW T, T \subseteq SUBSET S,
           \A s \in SUBSET S : (\A x \in s : s \ {x} \in T) => s \in T
    PROVE  T = SUBSET S
<1> DEFINE B == (SUBSET S) \ T
<1>1. SUFFICES ASSUME B # {} PROVE FALSE
  OBVIOUS
<1>2. IsWellFoundedOn(StrictSubsetOrdering(S), FiniteSubsetsOf(S))
  BY FS_StrictSubsetOrderingWellFounded
<1>3. B \subseteq FiniteSubsetsOf(S)
  BY FS_Subset DEF FiniteSubsetsOf
<1>4. PICK s \in B : \A y \in B : <<y, s>> \notin StrictSubsetOrdering(S)
  <2>1. \E s \in B : \A y \in B : <<y, s>> \notin StrictSubsetOrdering(S)
    BY <1>1, <1>2, <1>3, WFMin
  <2> QED BY <2>1
<1>5. ASSUME NEW x \in s
      PROVE  s \ {x} \in T
  <2>1. <<s \ {x}, s>> \in StrictSubsetOrdering(S)
    BY <1>5 DEF StrictSubsetOrdering
  <2> QED BY <1>4, <2>1
<1> QED BY <1>5

\* A non-empty set of numbers up to n has a greatest and a least.
LEMMA Extremes ==
    ASSUME NEW n \in Nat, NEW S \in SUBSET (1 .. n), S # {}
    PROVE  /\ \E m \in S : \A i \in S : m >= i
           /\ \E m \in S : \A i \in S : m <= i
<1>1. \A T \in SUBSET Nat : T # {} => \E x \in T : \A y \in T : ~(y < x)
  <2> SUFFICES ASSUME NEW T \in SUBSET Nat, T # {}
               PROVE  \E x \in T : \A y \in T : ~(y < x)
    OBVIOUS
  <2>1. IsWellFoundedOn(OpToRel(<, Nat), Nat)
    BY NatLessThanWellFounded
  <2>2. \E x \in T : \A y \in T : <<y, x>> \notin OpToRel(<, Nat)
    BY <2>1, WFMin
  <2> QED BY <2>2 DEF OpToRel
<1>2. \E m \in S : \A i \in S : m <= i
  <2>1. PICK m \in S : \A i \in S : ~(i < m)
    BY <1>1
  <2> QED BY <2>1
<1>3. \E m \in S : \A i \in S : m >= i
  <2> DEFINE T == {n - i : i \in S}
  <2>1. T \in SUBSET Nat /\ T # {}
    <3>1. \A i \in S : i \in 1 .. n /\ n - i \in Nat
      OBVIOUS
    <3> QED BY <3>1
  <2>2. PICK x \in T : \A y \in T : ~(y < x)
    BY <1>1, <2>1
  <2>3. PICK m \in S : x = n - m
    OBVIOUS
  <2>4. \A i \in S : ~(n - i < n - m)
    BY <2>2, <2>3
  <2> QED BY <2>4
<1> QED BY <1>2, <1>3

\* The function exists: up to each size of the subset, by induction on the size.
LEMMA FoldDefined ==
    ASSUME NEW S, IsFiniteSet(S), NEW base, NEW pick, Picks(pick, S), NEW F
    PROVE  \E g : g = FoldBody(g, S, base, pick, F)
<1> DEFINE body(g, s) == IF s = {} THEN base ELSE F[<<s, g[s \ {pick[s]}]>>]
           T == {n \in Nat : \E g : \A s \in SUBSET S : Cardinality(s) <= n => g[s] = body(g, s)}
<1>1. ASSUME NEW s \in SUBSET S
      PROVE  /\ Cardinality(s) \in Nat
             /\ Cardinality(s) = 0 <=> s = {}
             /\ s # {} => /\ Cardinality(s \ {pick[s]}) = Cardinality(s) - 1
                          /\ s \ {pick[s]} \in SUBSET S
  <2>1. IsFiniteSet(s) /\ Cardinality(s) \in Nat
    BY FS_Subset, FS_CardinalityType
  <2>2. s # {} => pick[s] \in s
    BY DEF Picks
  <2>3. s # {} => Cardinality(s \ {pick[s]}) = Cardinality(s) - 1
    BY <2>1, <2>2, FS_RemoveElement
  <2>4. Cardinality(s) = 0 <=> s = {}
    BY <2>1, FS_EmptySet
  <2> QED BY <2>1, <2>3, <2>4
<1>2. ASSUME NEW g, NEW h, NEW s \in SUBSET S, s # {} => g[s \ {pick[s]}] = h[s \ {pick[s]}]
      PROVE  body(g, s) = body(h, s)
  BY <1>2
<1>3. \A s \in SUBSET S : Cardinality(s) <= 0 => s = {}
  <2> HIDE DEF T, body
  <2>1. \A s \in SUBSET S : Cardinality(s) \in Nat /\ (Cardinality(s) = 0 <=> s = {})
    BY <1>1
  <2> QED BY <2>1
<1>4. 0 \in T
  <2> DEFINE g == [s \in SUBSET S |-> base]
  <2>1. \A s \in SUBSET S : Cardinality(s) <= 0 => g[s] = body(g, s)
    <3> SUFFICES ASSUME NEW s \in SUBSET S, Cardinality(s) <= 0
                 PROVE  g[s] = body(g, s)
      OBVIOUS
    <3>1. s = {}
      BY <1>3
    <3> QED BY <3>1
  <2> HIDE DEF g, body
  <2> QED BY <2>1
<1>5. ASSUME NEW n \in Nat, n \in T
      PROVE  n + 1 \in T
  <2>1. PICK g : \A s \in SUBSET S : Cardinality(s) <= n => g[s] = body(g, s)
    BY <1>5
  <2> DEFINE h == [s \in SUBSET S |-> IF Cardinality(s) <= n THEN g[s] ELSE body(g, s)]
  <2>2. ASSUME NEW s \in SUBSET S, Cardinality(s) <= n + 1
        PROVE  h[s] = body(h, s)
    <3>1. s # {} => h[s \ {pick[s]}] = g[s \ {pick[s]}]
      BY <1>1, <2>2
    <3>2. body(g, s) = body(h, s)
      BY <1>2, <3>1
    <3>3. h[s] = body(g, s)
      BY <2>1
    <3> QED BY <3>2, <3>3
  <2> HIDE DEF h, body
  <2> QED BY <2>2
<1>6. Cardinality(S) \in T
  <2> HIDE DEF T
  <2> QED BY <1>1, <1>4, <1>5, NatSetInduction
<1>7. PICK g : \A s \in SUBSET S : Cardinality(s) <= Cardinality(S) => g[s] = body(g, s)
  BY <1>6
<1>8. \A s \in SUBSET S : g[s] = body(g, s)
  BY <1>7, FS_Subset
<1> DEFINE h == [s \in SUBSET S |-> body(g, s)]
<1>9. h = [s \in SUBSET S |-> body(h, s)]
  <2>1. \A s \in SUBSET S : body(g, s) = body(h, s)
    <3>1. \A s \in SUBSET S : h[s] = g[s]
      BY <1>8
    <3> QED BY <1>1, <1>2, <3>1
  <2> HIDE DEF body
  <2> QED BY <2>1
<1> HIDE DEF h
<1>10. \E k : k = [s \in SUBSET S |-> body(k, s)]
  BY <1>9
<1> QED BY <1>10 DEF FoldBody

\* What holds before the first step and is kept by each holds at the end.
LEMMA FoldKeeps ==
    ASSUME NEW S, IsFiniteSet(S), NEW pick, Picks(pick, S), NEW R, NEW h,
           <<{}, h[{}]>> \in R,
           \A s \in SUBSET S : s # {} /\ <<s \ {pick[s]}, h[s \ {pick[s]}]>> \in R
                                 => <<s, h[s]>> \in R
    PROVE  \A s \in SUBSET S : <<s, h[s]>> \in R
<1> DEFINE T == {s \in SUBSET S : <<s, h[s]>> \in R}
<1>1. ASSUME NEW s \in SUBSET S, \A x \in s : s \ {x} \in T
      PROVE  s \in T
  BY <1>1 DEF Picks
<1>2. T \subseteq SUBSET S
  OBVIOUS
<1> HIDE DEF T
<1>3. T = SUBSET S
  BY <1>1, <1>2, SubsetInduction
<1> QED BY <1>3 DEF T

-----------------------------------------------------------------------------
(* Loops over a list: a function on 0 .. n whose value at i comes of that at *)
(* i - 1.                                                                    *)

LoopBody(g, n, base, F) ==
    [i \in 0 .. n |-> IF i = 0 THEN base ELSE F[<<i, g[i - 1]>>]]

\* A loop over 1 .. n is defined.
LEMMA LoopDefined ==
    ASSUME NEW n \in Nat, NEW base, NEW F
    PROVE  \E g : g = LoopBody(g, n, base, F)
<1> DEFINE body(g, i) == IF i = 0 THEN base ELSE F[<<i, g[i - 1]>>]
           T == {k \in Nat : \E g : \A i \in 0 .. k : g[i] = body(g, i)}
<1>1. 0 \in T
  <2> DEFINE g == [i \in 0 .. 0 |-> base]
  <2>1. \A i \in 0 .. 0 : g[i] = body(g, i)
    OBVIOUS
  <2> HIDE DEF g, body
  <2> QED BY <2>1
<1>2. ASSUME NEW k \in Nat, k \in T
      PROVE  k + 1 \in T
  <2>1. PICK g : \A i \in 0 .. k : g[i] = body(g, i)
    BY <1>2
  <2> DEFINE h == [i \in 0 .. k + 1 |-> IF i <= k THEN g[i] ELSE body(g, i)]
  <2>2. ASSUME NEW i \in 0 .. k + 1
        PROVE  h[i] = body(h, i)
    <3>1. i # 0 => i - 1 \in 0 .. k /\ h[i - 1] = g[i - 1]
      OBVIOUS
    <3>2. body(h, i) = body(g, i)
      BY <3>1
    <3>3. h[i] = body(g, i)
      BY <2>1
    <3> QED BY <3>2, <3>3
  <2> HIDE DEF h, body
  <2> QED BY <2>2
<1>3. n \in T
  <2> HIDE DEF T
  <2> QED BY <1>1, <1>2, NatSetInduction
<1>4. PICK g : \A i \in 0 .. n : g[i] = body(g, i)
  BY <1>3
<1> DEFINE h == [i \in 0 .. n |-> body(g, i)]
<1>5. h = [i \in 0 .. n |-> body(h, i)]
  <2>1. \A i \in 0 .. n : body(g, i) = body(h, i)
    <3> SUFFICES ASSUME NEW i \in 0 .. n PROVE body(g, i) = body(h, i)
      OBVIOUS
    <3>1. i # 0 => i - 1 \in 0 .. n /\ h[i - 1] = g[i - 1]
      BY <1>4
    <3> QED BY <3>1
  <2> HIDE DEF body
  <2> QED BY <2>1
<1> HIDE DEF h
<1>6. \E k : k = [i \in 0 .. n |-> body(k, i)]
  BY <1>5
<1> QED BY <1>6 DEF LoopBody

\* What each turn of a loop keeps holds after every turn.
LEMMA LoopKeeps ==
    ASSUME NEW n \in Nat, NEW R, NEW g, <<0, g[0]>> \in R,
           \A i \in 1 .. n : <<i - 1, g[i - 1]>> \in R => <<i, g[i]>> \in R
    PROVE  \A i \in 0 .. n : <<i, g[i]>> \in R
<1> DEFINE T == {i \in Nat : i <= n => <<i, g[i]>> \in R}
<1>1. ASSUME NEW i \in Nat, i \in T
      PROVE  i + 1 \in T
  <2>1. i + 1 <= n => i + 1 \in 1 .. n /\ (i + 1) - 1 = i
    OBVIOUS
  <2> QED BY <1>1, <2>1
<1>2. 0 \in T
  OBVIOUS
<1>3. Nat \subseteq T
  <2> HIDE DEF T
  <2> QED BY <1>1, <1>2, NatSetInduction
<1> QED BY <1>3

\* A loop is defined, and what each turn keeps holds of its values.
LEMMA LoopFixed ==
    ASSUME NEW n \in Nat, NEW base, NEW F, NEW R, <<0, base>> \in R,
           \A i \in 1 .. n : \A v : <<i - 1, v>> \in R => <<i, F[<<i, v>>]>> \in R
    PROVE  \E g : /\ g = LoopBody(g, n, base, F)
                  /\ \A i \in 0 .. n : <<i, g[i]>> \in R
<1>1. PICK g : g = LoopBody(g, n, base, F)
  BY LoopDefined
<1>2. g[0] = base /\ \A i \in 1 .. n : g[i] = F[<<i, g[i - 1]>>]
  <2>1. \A i \in 0 .. n : LoopBody(g, n, base, F)[i] = IF i = 0 THEN base ELSE F[<<i, g[i - 1]>>]
    BY DEF LoopBody
  <2>2. 0 \in 0 .. n /\ \A i \in 1 .. n : i \in 0 .. n /\ i # 0
    OBVIOUS
  <2> QED BY <1>1, <2>1, <2>2
<1>3. \A i \in 1 .. n : <<i - 1, g[i - 1]>> \in R => <<i, g[i]>> \in R
  BY <1>2
<1>4. \A i \in 0 .. n : <<i, g[i]>> \in R
  BY <1>2, <1>3, LoopKeeps
<1> QED BY <1>1, <1>4

-----------------------------------------------------------------------------
(* Lists: their elements, and those of a part of them.                       *)

Firsts(list, i) == {list[j] : j \in 1 .. i}

Listed(list) == Firsts(list, Len(list))
Distinct(list) == \A i, j \in 1 .. Len(list) : list[i] = list[j] => i = j

\* The first i elements of a list are the first i - 1 and one more.
LEMMA FirstsStep ==
    ASSUME NEW list, NEW i \in Nat, i > 0
    PROVE  Firsts(list, i) = Firsts(list, i - 1) \cup {list[i]}
  BY DEF Firsts

\* A list without repetitions is as long as it has elements.
LEMMA DistinctLen ==
    ASSUME NEW E, NEW list \in Seq(E), Distinct(list)
    PROVE  IsFiniteSet(Listed(list)) /\ Len(list) = Cardinality(Listed(list))
<1>1. PICK n \in Nat : n = Len(list)
  OBVIOUS
<1>2. list \in [1 .. n -> Listed(list)]
  BY <1>1 DEF Listed, Firsts
<1>3. list \in Bijection(1 .. n, Listed(list))
  <2>1. \A i, j \in 1 .. n : list[i] = list[j] => i = j
    BY <1>1 DEF Distinct
  <2>2. \A s \in Listed(list) : \E i \in 1 .. n : list[i] = s
    BY <1>1 DEF Listed, Firsts
  <2> QED BY <1>2, <2>1, <2>2 DEF Bijection, Injection, Surjection, IsInjective
<1>4. IsFiniteSet(1 .. n) /\ Cardinality(1 .. n) = n
  BY FS_Interval
<1>5. ExistsBijection(1 .. n, Listed(list))
  BY <1>3 DEF ExistsBijection
<1> QED BY <1>1, <1>4, <1>5, FS_Bijection

\* A list with one more element.
LEMMA AppendList ==
    ASSUME NEW E, NEW v \in Seq(E), NEW x \in E
    PROVE  /\ Append(v, x) \in Seq(E)
           /\ Listed(Append(v, x)) = Listed(v) \cup {x}
           /\ Distinct(v) /\ x \notin Listed(v) => Distinct(Append(v, x))
<1>1. PICK n \in Nat : n = Len(v)
  OBVIOUS
<1>2. PICK w : w = Append(v, x)
  OBVIOUS
<1>3. w \in Seq(E) /\ Len(w) = n + 1 /\ w[n + 1] = x /\ \A i \in 1 .. n : w[i] = v[i]
  BY <1>1, <1>2, AppendProperties
<1>4. Listed(w) = Listed(v) \cup {x}
  BY <1>1, <1>3 DEF Listed, Firsts
<1>5. ASSUME Distinct(v), x \notin Listed(v)
      PROVE  Distinct(w)
  <2>1. \A i \in 1 .. n : v[i] # x
    BY <1>1, <1>5 DEF Listed, Firsts
  <2>2. ASSUME NEW i \in 1 .. n + 1, NEW j \in 1 .. n + 1, w[i] = w[j]
        PROVE  i = j
    <3>1. (i \in 1 .. n /\ j \in 1 .. n) \/ i = n + 1 \/ j = n + 1
      BY <1>1
    <3>2. CASE i \in 1 .. n /\ j \in 1 .. n
      BY <1>1, <1>3, <1>5, <2>2, <3>2 DEF Distinct
    <3>3. CASE i = n + 1
      BY <1>1, <1>3, <2>1, <2>2, <3>3
    <3>4. CASE j = n + 1
      BY <1>1, <1>3, <2>1, <2>2, <3>4
    <3> QED BY <3>1, <3>2, <3>3, <3>4
  <2> QED BY <1>3, <2>2 DEF Distinct
<1> QED BY <1>2, <1>3, <1>4, <1>5

\* The elements of a list that are in S, each as often as in the list.
LEMMA OnlyIs ==
    ASSUME NEW E, NEW list \in Seq(E), NEW S
    PROVE  /\ Only(list, S) \in Seq(E)
           /\ Listed(Only(list, S)) = Listed(list) \cap S
           /\ Distinct(list) => Distinct(Only(list, S))
<1> DEFINE n == Len(list)
           Next1(v, i) == IF list[i] \in S THEN Append(v, list[i]) ELSE v
           F == [p \in (1 .. n) \X Seq(E) |-> Next1(p[2], p[1])]
           Is(v, i) == /\ Listed(v) = Firsts(list, i) \cap S
                       /\ Distinct(list) => Distinct(v)
           Q == {p \in Nat \X Seq(E) : Is(p[2], p[1])}
           body(g) == [i \in 0 .. n |-> IF i = 0 THEN <<>> ELSE Next1(g[i - 1], i)]
<1>1. n \in Nat
  OBVIOUS
<1>2. <<0, <<>>>> \in Q
  <2>1. Listed(<<>>) = {} /\ Firsts(list, 0) = {} /\ Distinct(<<>>)
    BY DEF Listed, Firsts, Distinct
  <2>2. <<>> \in Seq(E)
    OBVIOUS
  <2>3. Is(<<>>, 0)
    BY <2>1
  <2> HIDE DEF Is
  <2> QED BY <2>2, <2>3
<1>3. ASSUME NEW i \in 1 .. n, NEW v, <<i - 1, v>> \in Q
      PROVE  v \in Seq(E) /\ <<i, Next1(v, i)>> \in Q
  <2>1. v \in Seq(E) /\ Is(v, i - 1)
    BY <1>3
  <2>2. PICK x \in E : x = list[i]
    OBVIOUS
  <2>3. Firsts(list, i) = Firsts(list, i - 1) \cup {x} /\ i \in Nat
    BY <2>2, FirstsStep
  <2>4. CASE x \notin S
    <3>1. Next1(v, i) = v
      BY <2>2, <2>4
    <3>2. Is(v, i)
      BY <2>1, <2>3, <2>4
    <3> QED BY <2>1, <2>3, <3>1, <3>2
  <2>5. CASE x \in S
    <3>1. Next1(v, i) = Append(v, x)
      BY <2>2, <2>5
    <3>2. /\ Append(v, x) \in Seq(E)
          /\ Listed(Append(v, x)) = Listed(v) \cup {x}
          /\ Distinct(v) /\ x \notin Listed(v) => Distinct(Append(v, x))
      BY <2>1, AppendList
    <3>3. Distinct(list) => x \notin Firsts(list, i - 1)
      BY <2>2 DEF Distinct, Firsts
    <3>4. Is(Append(v, x), i)
      BY <2>1, <2>3, <2>5, <3>2, <3>3
    <3> HIDE DEF Is, Next1
    <3> QED BY <2>1, <2>3, <3>1, <3>2, <3>4
  <2> QED BY <2>4, <2>5
<1>4. \A i \in 1 .. n : \A v : <<i - 1, v>> \in Q => F[<<i, v>>] = Next1(v, i)
  <2> SUFFICES ASSUME NEW i \in 1 .. n, NEW v, <<i - 1, v>> \in Q
               PROVE  F[<<i, v>>] = Next1(v, i)
    OBVIOUS
  <2>1. <<i, v>> \in (1 .. n) \X Seq(E)
    BY <1>3
  <2> HIDE DEF Next1
  <2> QED BY <2>1
<1> HIDE DEF F, Q, Next1
<1>5. PICK g : g = LoopBody(g, n, <<>>, F)
  <2>1. \E g : g = LoopBody(g, n, <<>>, F)
    BY <1>1, LoopDefined
  <2> QED BY <2>1
<1>6. g[0] = <<>> /\ \A i \in 1 .. n : g[i] = F[<<i, g[i - 1]>>]
  <2>1. \A i \in 0 .. n : LoopBody(g, n, <<>>, F)[i] = IF i = 0 THEN <<>> ELSE F[<<i, g[i - 1]>>]
    BY DEF LoopBody
  <2>2. 0 \in 0 .. n /\ \A i \in 1 .. n : i \in 0 .. n /\ i # 0
    OBVIOUS
  <2> HIDE DEF n
  <2> QED BY <1>5, <2>1, <2>2
<1>7. \A i \in 0 .. n : <<i, g[i]>> \in Q
  <2>1. ASSUME NEW i \in 1 .. n, <<i - 1, g[i - 1]>> \in Q
        PROVE  <<i, g[i]>> \in Q
    <3>1. <<i, Next1(g[i - 1], i)>> \in Q
      BY <1>3, <2>1
    <3>2. g[i] = Next1(g[i - 1], i)
      BY <1>4, <1>6, <2>1
    <3> QED BY <3>1, <3>2
  <2>2. <<0, g[0]>> \in Q
    BY <1>2, <1>6
  <2> HIDE DEF n
  <2> QED BY <1>1, <2>1, <2>2, LoopKeeps
<1>8. g = body(g)
  <2> DEFINE A(i) == F[<<i, g[i - 1]>>]
             B(i) == Next1(g[i - 1], i)
  <2>1. \A i \in 0 .. n : i # 0 => A(i) = B(i)
    <3> SUFFICES ASSUME NEW i \in 0 .. n, i # 0 PROVE A(i) = B(i)
      OBVIOUS
    <3>1. i \in 1 .. n /\ i - 1 \in 0 .. n
      OBVIOUS
    <3>2. <<i - 1, g[i - 1]>> \in Q
      BY <1>7, <3>1
    <3> QED BY <1>4, <3>1, <3>2
  <2> HIDE DEF A, B
  <2>2. [i \in 0 .. n |-> IF i = 0 THEN <<>> ELSE A(i)]
          = [i \in 0 .. n |-> IF i = 0 THEN <<>> ELSE B(i)]
    BY <2>1
  <2> QED BY <1>5, <2>2 DEF LoopBody, A, B
<1> DEFINE iter == CHOOSE h : h = body(h)
<1>9. iter = body(iter)
  BY <1>8
<1>10. Only(list, S) = iter[n]
  <2>1. \A h : body(h) = [i \in 0 .. n |->
                            IF i = 0 THEN <<>>
                            ELSE IF list[i] \in S THEN Append(h[i - 1], list[i])
                            ELSE h[i - 1]]
    BY DEF Next1
  <2> QED BY <2>1 DEF Only
<1> HIDE DEF iter
<1>11. iter[0] = <<>> /\ \A i \in 1 .. n : iter[i] = Next1(iter[i - 1], i)
  <2>1. \A i \in 0 .. n : body(iter)[i] = IF i = 0 THEN <<>> ELSE Next1(iter[i - 1], i)
    OBVIOUS
  <2>2. 0 \in 0 .. n /\ \A i \in 1 .. n : i \in 0 .. n /\ i # 0
    OBVIOUS
  <2> HIDE DEF body, n
  <2> QED BY <1>9, <2>1, <2>2
<1>12. \A i \in 0 .. n : <<i, iter[i]>> \in Q
  <2>1. \A i \in 1 .. n : <<i - 1, iter[i - 1]>> \in Q => <<i, iter[i]>> \in Q
    BY <1>3, <1>11
  <2>2. <<0, iter[0]>> \in Q
    BY <1>2, <1>11
  <2> HIDE DEF n
  <2> QED BY <1>1, <2>1, <2>2, LoopKeeps
<1>13. <<n, iter[n]>> \in Q
  BY <1>12
<1>14. PICK v : v = iter[n]
  OBVIOUS
<1>15. v \in Seq(E) /\ Is(v, n)
  BY <1>13, <1>14 DEF Q
<1> QED BY <1>10, <1>14, <1>15 DEF Listed

\* The two ways of naming the elements of a list agree.
LEMMA ListedIs ==
    ASSUME NEW E, NEW list \in Seq(E)
    PROVE  /\ ToSet(list) = Listed(list) /\ Listed(list) \subseteq E
           /\ list # <<>> <=> Listed(list) # {}
<1>1. ToSet(list) = Listed(list) /\ Listed(list) \subseteq E
  BY DEF ToSet, Listed, Firsts
<1>2. list # <<>> <=> Listed(list) # {}
  <2>1. CASE list = <<>>
    BY <2>1 DEF Listed, Firsts
  <2>2. CASE list # <<>>
    <3>1. 1 \in 1 .. Len(list)
      BY <2>2, EmptySeq
    <3> QED BY <2>2, <3>1 DEF Listed, Firsts
  <2> QED BY <2>1, <2>2
<1> QED BY <1>1, <1>2

=============================================================================
