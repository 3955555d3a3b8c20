------------------------ MODULE BlockManagerV1_proofs ------------------------
(***************************************************************************)
(* The default block manager, for every number of requests, sequences and  *)
(* blocks and every block size: what each call does to the reference       *)
(* counts, the tables and the contents of the blocks, and with that the    *)
(* properties of the manager under the scheduler's calls.                  *)
(***************************************************************************)
EXTENDS BlockManagerV1, Folding_proofs

-----------------------------------------------------------------------------
(* Positions of tokens: the block of a token and its slot there.           *)

\* The size of a block is a positive number.
LEMMA Sizes == BlockSize \in Nat /\ BlockSize > 0
  BY V1Assumption

\* A number is a multiple of the block size, and a rest.
LEMMA DivisionParts ==
    \A n \in Nat : /\ n \div BlockSize \in Nat
                   /\ n % BlockSize \in 0 .. BlockSize - 1
                   /\ n = BlockSize * (n \div BlockSize) + (n % BlockSize)
  BY Sizes, SMTT(30)

\* Multiples of the block size are a block apart.
LEMMA StrictMultiples ==
    ASSUME NEW a \in Int, NEW b \in Int, a < b
    PROVE  BlockSize * a + BlockSize <= BlockSize * b
<1>1. BlockSize * (b - a) >= BlockSize
  <2>1. \A x \in Int : x >= 1 => BlockSize * x >= BlockSize
    BY Sizes, SMTT(30)
  <2> QED BY <2>1
<1>2. BlockSize * (b - a) = BlockSize * b - BlockSize * a
  BY Sizes, SMTT(30)
<1> QED BY <1>1, <1>2, Sizes, SMTT(30)

\* There is one way to write a number as a multiple and a rest.
LEMMA QuotientIs ==
    ASSUME NEW k \in Nat, NEW j \in Nat, k >= BlockSize * j, k < BlockSize * j + BlockSize
    PROVE  k \div BlockSize = j
<1>1. /\ k \div BlockSize \in Nat /\ k % BlockSize \in 0 .. BlockSize - 1
      /\ k = BlockSize * (k \div BlockSize) + (k % BlockSize)
  BY DivisionParts
<1>2. PICK q \in Nat : q = k \div BlockSize
  BY <1>1
<1>3. ~(q < j) /\ ~(j < q)
  <2>1. q < j => BlockSize * q + BlockSize <= BlockSize * j
    BY StrictMultiples
  <2>2. j < q => BlockSize * j + BlockSize <= BlockSize * q
    BY StrictMultiples
  <2>3. PICK x \in Int, y \in Int : x = BlockSize * q /\ y = BlockSize * j
    BY Sizes
  <2> QED BY <1>1, <1>2, <2>1, <2>2, <2>3, Sizes
<1> QED BY <1>2, <1>3

\* The token at position n + 1 comes after n \div BlockSize full blocks.
LEMMA BlockOfNext ==
    ASSUME NEW n \in Nat
    PROVE  NumLogicalBlocks(n + 1) = (n \div BlockSize) + 1
<1>1. PICK q \in Nat, x \in 0 .. BlockSize - 1 : n \div BlockSize = q /\ n = BlockSize * q + x
  BY DivisionParts
<1>2. BlockSize * (q + 1) = BlockSize * q + BlockSize
  BY Sizes, SMTT(30)
<1>3. PICK y \in Int : y = BlockSize * q
  BY Sizes
<1>4. PICK z \in Int : z = BlockSize * (q + 1)
  BY Sizes
<1>5. n + BlockSize \in Nat /\ q + 1 \in Nat
      /\ n + BlockSize >= z /\ n + BlockSize < z + BlockSize
  BY <1>1, <1>2, <1>3, <1>4, Sizes
<1>6. (n + BlockSize) \div BlockSize = q + 1
  BY <1>4, <1>5, QuotientIs
<1>7. (n + 1) + BlockSize - 1 = n + BlockSize
  BY Sizes
<1> QED BY <1>1, <1>6, <1>7 DEF NumLogicalBlocks

\* No block for no token, and at most one more for one token more.
LEMMA BlocksStep ==
    ASSUME NEW n \in Nat
    PROVE  /\ NumLogicalBlocks(n) \in Nat
           /\ n > 0 => NumLogicalBlocks(n) > 0
           /\ NumLogicalBlocks(n + 1) \in {NumLogicalBlocks(n), NumLogicalBlocks(n) + 1}
<1>1. NumLogicalBlocks(0) = 0
  <2>1. BlockSize - 1 \in Nat /\ BlockSize - 1 >= BlockSize * 0
        /\ BlockSize - 1 < BlockSize * 0 + BlockSize
    BY Sizes
  <2>2. (BlockSize - 1) \div BlockSize = 0
    BY <2>1, QuotientIs
  <2>3. 0 + BlockSize - 1 = BlockSize - 1
    BY Sizes
  <2> QED BY <2>2, <2>3 DEF NumLogicalBlocks
<1>2. CASE n = 0
  <2>1. 0 \div BlockSize = 0
    <3>1. 0 >= BlockSize * 0 /\ 0 < BlockSize * 0 + BlockSize
      BY Sizes
    <3> QED BY <3>1, QuotientIs
  <2>2. NumLogicalBlocks(1) = 1
    BY <2>1, BlockOfNext
  <2> QED BY <1>1, <1>2, <2>2
<1>3. CASE n > 0
  <2>1. PICK k \in Nat : n = k + 1
    BY <1>3
  <2>2. PICK q \in Nat, x \in 0 .. BlockSize - 1 : k \div BlockSize = q /\ k = BlockSize * q + x
    BY DivisionParts
  <2>3. NumLogicalBlocks(n) = q + 1
    BY <2>1, <2>2, BlockOfNext
  <2>4. n \div BlockSize \in {q, q + 1}
    <3>1. CASE x < BlockSize - 1
      <4>1. PICK y \in Int : y = BlockSize * q
        BY Sizes
      <4>2. n >= y /\ n < y + BlockSize
        BY <2>1, <2>2, <3>1, <4>1, Sizes
      <4> QED BY <4>1, <4>2, QuotientIs
    <3>2. CASE x = BlockSize - 1
      <4>1. BlockSize * (q + 1) = BlockSize * q + BlockSize
        BY Sizes, SMTT(30)
      <4>2. PICK y \in Int, z \in Int : y = BlockSize * q /\ z = BlockSize * (q + 1)
        BY Sizes
      <4>3. PICK j \in Nat : j = q + 1
        OBVIOUS
      <4>4. n >= BlockSize * j /\ n < BlockSize * j + BlockSize
        BY <2>1, <2>2, <3>2, <4>1, <4>2, <4>3, Sizes
      <4> QED BY <4>3, <4>4, QuotientIs
    <3> QED BY <3>1, <3>2, Sizes
  <2>5. NumLogicalBlocks(n + 1) = (n \div BlockSize) + 1
    BY BlockOfNext
  <2> QED BY <1>3, <2>3, <2>4, <2>5
<1> QED BY <1>2, <1>3

\* The block and the slot of a position: earlier positions are in no later block,
\* and no two in one slot.
LEMMA Places ==
    ASSUME NEW n \in Nat, NEW p \in 1 .. n
    PROVE  /\ NumLogicalBlocks(p) \in 1 .. NumLogicalBlocks(n)
           /\ (p - 1) % BlockSize \in Slots
           /\ \A o \in 1 .. n : /\ NumLogicalBlocks(o) = NumLogicalBlocks(p)
                                /\ (o - 1) % BlockSize = (p - 1) % BlockSize
                                => o = p
<1>1. \A o \in 1 .. n : /\ o - 1 \in Nat /\ NumLogicalBlocks(o) = ((o - 1) \div BlockSize) + 1
                        /\ (o - 1) \div BlockSize \in Nat
                        /\ (o - 1) % BlockSize \in 0 .. BlockSize - 1
                        /\ o - 1 = BlockSize * ((o - 1) \div BlockSize) + ((o - 1) % BlockSize)
  <2> SUFFICES ASSUME NEW o \in 1 .. n
               PROVE  /\ o - 1 \in Nat /\ NumLogicalBlocks(o) = ((o - 1) \div BlockSize) + 1
                      /\ (o - 1) \div BlockSize \in Nat
                      /\ (o - 1) % BlockSize \in 0 .. BlockSize - 1
                      /\ o - 1 = BlockSize * ((o - 1) \div BlockSize) + ((o - 1) % BlockSize)
    OBVIOUS
  <2>1. PICK k \in Nat : o = k + 1 /\ o - 1 = k
    OBVIOUS
  <2>2. NumLogicalBlocks(k + 1) = (k \div BlockSize) + 1
    BY BlockOfNext
  <2> QED BY <2>1, <2>2, DivisionParts
<1>2. NumLogicalBlocks(p) <= NumLogicalBlocks(n)
  <2>1. n \in 1 .. n
    OBVIOUS
  <2>2. PICK a \in Nat, x \in 0 .. BlockSize - 1 :
          p - 1 = BlockSize * a + x /\ NumLogicalBlocks(p) = a + 1
    BY <1>1
  <2>3. PICK b \in Nat, y \in 0 .. BlockSize - 1 :
          n - 1 = BlockSize * b + y /\ NumLogicalBlocks(n) = b + 1
    BY <1>1, <2>1
  <2>4. b < a => BlockSize * b + BlockSize <= BlockSize * a
    BY StrictMultiples
  <2>5. PICK c \in Int, d \in Int : c = BlockSize * a /\ d = BlockSize * b
    BY Sizes
  <2>6. ~(b < a)
    BY <2>2, <2>3, <2>4, <2>5, Sizes
  <2> QED BY <2>2, <2>3, <2>6
<1>3. NumLogicalBlocks(p) \in Nat /\ NumLogicalBlocks(p) >= 1 /\ NumLogicalBlocks(n) \in Nat
  BY <1>1, BlocksStep
<1>4. ASSUME NEW o \in 1 .. n, NumLogicalBlocks(o) = NumLogicalBlocks(p),
             (o - 1) % BlockSize = (p - 1) % BlockSize
      PROVE  o = p
  <2>1. (o - 1) \div BlockSize = (p - 1) \div BlockSize
    BY <1>1, <1>4
  <2>2. o - 1 = p - 1
    BY <1>1, <1>4, <2>1
  <2> QED BY <2>2
<1>5. (p - 1) % BlockSize \in Slots
  BY <1>1 DEF Slots
<1> QED BY <1>2, <1>3, <1>4, <1>5

-----------------------------------------------------------------------------
(* Managers in order.                                                      *)

Cells == {Nothing} \cup (Seqs \X (1 .. MaxTokens))
Managers == [free : SUBSET Blocks, refs : [Blocks -> Nat], table : [Seqs -> Seq(Blocks)],
             data : [Blocks -> [Slots -> Cells]]]

\* The sequences whose table has block b.
Owners(n, b) == {s \in Seqs : b \in Listed(n.table[s])}

\* No table has a block twice, a block in use has at least as many references as
\* owners, and the rest are free; with exact, there are no other references.
Counted(n, exact) ==
    /\ n \in Managers
    /\ \A s \in Seqs : Distinct(n.table[s])
    /\ \A b \in Blocks : /\ Cardinality(Owners(n, b)) <= n.refs[b]
                         /\ exact => n.refs[b] = Cardinality(Owners(n, b))
                         /\ b \in n.free <=> n.refs[b] = 0

\* Block b is in the table of s and in no other.
Alone(n, b, s) == Owners(n, b) = {s}

\* Sequences outside S keep their tables and what is in the blocks, and the blocks
\* that are theirs alone.
Untouched(n, x, S) ==
    \A t \in Seqs \ S :
      /\ x.table[t] = n.table[t]
      /\ \A b \in Listed(n.table[t]) : /\ x.data[b] = n.data[b]
                                       /\ Owners(n, b) = {t} => Owners(x, b) = {t}

\* The parts of a manager.
LEMMA ManagerIs ==
    ASSUME NEW n \in Managers
    PROVE  /\ n.free \subseteq Blocks /\ n.refs \in [Blocks -> Nat]
           /\ n.table \in [Seqs -> Seq(Blocks)] /\ n.data \in [Blocks -> [Slots -> Cells]]
           /\ \A s \in Seqs : n.table[s] \in Seq(Blocks) /\ Listed(n.table[s]) \subseteq Blocks
<1>1. /\ n.free \subseteq Blocks /\ n.refs \in [Blocks -> Nat]
      /\ n.table \in [Seqs -> Seq(Blocks)] /\ n.data \in [Blocks -> [Slots -> Cells]]
  BY DEF Managers
<1>2. \A s \in Seqs : n.table[s] \in Seq(Blocks)
  BY <1>1
<1> QED BY <1>1, <1>2, ListedIs

\* The range of a list is the set of its elements.
LEMMA RangeIs ==
    ASSUME NEW E, NEW list \in Seq(E)
    PROVE  Range(list) = Listed(list) /\ DOMAIN list = 1 .. Len(list)
<1>1. DOMAIN list = 1 .. Len(list)
  OBVIOUS
<1> QED BY <1>1 DEF Range, Listed, Firsts

\* There are finitely many owners.
LEMMA OwnersFinite ==
    ASSUME NEW n, NEW b
    PROVE  /\ IsFiniteSet(Owners(n, b)) /\ Cardinality(Owners(n, b)) \in Nat
           /\ Owners(n, b) \subseteq Seqs
           /\ Cardinality(Owners(n, b)) = 0 <=> Owners(n, b) = {}
<1>1. Owners(n, b) \in SUBSET Seqs
  BY DEF Owners
<1>2. IsFiniteSet(Seqs)
  BY V1Assumption
<1>3. IsFiniteSet(Owners(n, b))
  BY <1>1, <1>2, FS_Subset
<1> QED BY <1>1, <1>3, FS_CardinalityType, FS_EmptySet

\* A block of a table is counted and not free, and a free one is in no table.
LEMMA InUse ==
    ASSUME NEW n, NEW exact, Counted(n, exact)
    PROVE  /\ n \in Managers
           /\ \A s \in Seqs : \A b \in Listed(n.table[s]) :
                b \in Blocks /\ s \in Owners(n, b) /\ n.refs[b] \in Nat /\ n.refs[b] > 0
                  /\ b \notin n.free
           /\ \A b \in n.free : Owners(n, b) = {}
           /\ \A b \in Blocks : n.refs[b] = 1 => \A s \in Owners(n, b) : Owners(n, b) = {s}
<1>1. n \in Managers
  BY DEF Counted
<1>2. ASSUME NEW s \in Seqs, NEW b \in Listed(n.table[s])
      PROVE  b \in Blocks /\ s \in Owners(n, b) /\ n.refs[b] \in Nat /\ n.refs[b] > 0
               /\ b \notin n.free
  <2>1. b \in Blocks /\ s \in Owners(n, b) /\ n.refs[b] \in Nat
    BY <1>1, <1>2, ManagerIs DEF Owners
  <2>2. Cardinality(Owners(n, b)) \in Nat /\ Cardinality(Owners(n, b)) # 0
    BY <2>1, OwnersFinite
  <2>3. Cardinality(Owners(n, b)) <= n.refs[b] /\ (b \in n.free <=> n.refs[b] = 0)
    BY <2>1 DEF Counted
  <2> QED BY <2>1, <2>2, <2>3
<1>3. ASSUME NEW b \in n.free
      PROVE  Owners(n, b) = {}
  <2>1. \A s \in Seqs : b \notin Listed(n.table[s])
    BY <1>2
  <2> QED BY <2>1 DEF Owners
<1>4. ASSUME NEW b \in Blocks, n.refs[b] = 1, NEW s \in Owners(n, b)
      PROVE  Owners(n, b) = {s}
  <2>1. Cardinality(Owners(n, b)) <= 1
    BY <1>4 DEF Counted
  <2>2. Cardinality(Owners(n, b)) \in Nat /\ Cardinality(Owners(n, b)) # 0
        /\ IsFiniteSet(Owners(n, b))
    BY <1>4, OwnersFinite
  <2>3. Cardinality(Owners(n, b)) = 1
    BY <2>1, <2>2
  <2>4. \E a : Owners(n, b) = {a}
    BY <2>2, <2>3, FS_Singleton
  <2> QED BY <1>4, <2>4
<1> QED BY <1>1, <1>2, <1>3, <1>4

\* One table changes: who owns a block, and how many do.
LEMMA OwnersOne ==
    ASSUME NEW n, NEW x, NEW s \in Seqs, \A t \in Seqs \ {s} : x.table[t] = n.table[t], NEW b
    PROVE  /\ \A t \in Seqs \ {s} : t \in Owners(x, b) <=> t \in Owners(n, b)
           /\ b \in Listed(n.table[s]) /\ b \notin Listed(x.table[s])
                => Cardinality(Owners(x, b)) = Cardinality(Owners(n, b)) - 1
           /\ b \notin Listed(n.table[s]) /\ b \in Listed(x.table[s])
                => Cardinality(Owners(x, b)) = Cardinality(Owners(n, b)) + 1
           /\ (b \in Listed(n.table[s]) <=> b \in Listed(x.table[s]))
                => Owners(x, b) = Owners(n, b)
<1>1. \A t \in Seqs \ {s} : t \in Owners(x, b) <=> t \in Owners(n, b)
  BY DEF Owners
<1>2. Owners(x, b) \subseteq Seqs /\ Owners(n, b) \subseteq Seqs
      /\ (s \in Owners(x, b) <=> b \in Listed(x.table[s]))
      /\ (s \in Owners(n, b) <=> b \in Listed(n.table[s]))
  BY DEF Owners
<1>3. IsFiniteSet(Owners(n, b))
  BY OwnersFinite
<1>4. ASSUME b \in Listed(n.table[s]), b \notin Listed(x.table[s])
      PROVE  Cardinality(Owners(x, b)) = Cardinality(Owners(n, b)) - 1
  <2>1. Owners(x, b) = Owners(n, b) \ {s} /\ s \in Owners(n, b)
    BY <1>1, <1>2, <1>4
  <2> QED BY <1>3, <2>1, FS_RemoveElement
<1>5. ASSUME b \notin Listed(n.table[s]), b \in Listed(x.table[s])
      PROVE  Cardinality(Owners(x, b)) = Cardinality(Owners(n, b)) + 1
  <2>1. Owners(x, b) = Owners(n, b) \cup {s} /\ s \notin Owners(n, b)
    BY <1>1, <1>2, <1>5
  <2> QED BY <1>3, <2>1, FS_AddElement
<1>6. ASSUME b \in Listed(n.table[s]) <=> b \in Listed(x.table[s])
      PROVE  Owners(x, b) = Owners(n, b)
  BY <1>1, <1>2, <1>6
<1> QED BY <1>1, <1>4, <1>5, <1>6

\* Two steps that leave others alone.
LEMMA UntouchedTwice ==
    ASSUME NEW n, NEW x, NEW y, NEW S, NEW T, NEW U, S \subseteq U, T \subseteq U,
           Untouched(n, x, S), Untouched(x, y, T)
    PROVE  Untouched(n, y, U)
<1> SUFFICES ASSUME NEW t \in Seqs \ U
             PROVE  /\ y.table[t] = n.table[t]
                    /\ \A b \in Listed(n.table[t]) :
                         /\ y.data[b] = n.data[b]
                         /\ Owners(n, b) = {t} => Owners(y, b) = {t}
  BY DEF Untouched
<1>1. t \in Seqs \ S /\ t \in Seqs \ T
  OBVIOUS
<1>2. /\ x.table[t] = n.table[t]
      /\ \A b \in Listed(n.table[t]) : /\ x.data[b] = n.data[b]
                                       /\ Owners(n, b) = {t} => Owners(x, b) = {t}
  BY <1>1 DEF Untouched
<1>3. /\ y.table[t] = x.table[t]
      /\ \A b \in Listed(x.table[t]) : /\ y.data[b] = x.data[b]
                                       /\ Owners(x, b) = {t} => Owners(y, b) = {t}
  BY <1>1 DEF Untouched
<1> QED BY <1>2, <1>3

\* Nothing happens to anyone.
LEMMA UntouchedNone ==
    ASSUME NEW n, NEW S
    PROVE  Untouched(n, n, S)
  BY DEF Untouched

-----------------------------------------------------------------------------
(* The calls of the manager.                                               *)

Outcomes == [m : Managers, raised : {"none", "double free", "append", "swap", "allocate"}]

\* No block is to be freed more often than it has references.
Enough(n, S, times) == \A b \in S : times[b] <= n.refs[b]

\* Fewer references for the blocks of S, which are free when none is left.
Freed(n, x, S, times) ==
    /\ x \in Managers /\ x.table = n.table
    /\ \A b \in Blocks :
         /\ x.refs[b] = IF b \in S THEN n.refs[b] - times[b] ELSE n.refs[b]
         /\ b \in x.free <=> b \in n.free \/ (b \in S /\ times[b] = n.refs[b])
         /\ b \notin S \/ times[b] # n.refs[b] => x.data[b] = n.data[b]

\* free of some blocks, no block more often than it has references.
LEMMA FreeEachIs ==
    ASSUME NEW n \in Managers, NEW S \in SUBSET Blocks, NEW times \in [S -> Nat],
           Enough(n, S, times)
    PROVE  \E x : FreeEach(n, times) = Ok(x) /\ Freed(n, x, S, times)
<1> DEFINE gone == {b \in S : times[b] = n.refs[b]}
           x == [n EXCEPT !.free = @ \cup gone,
                          !.refs = [b \in Blocks |-> IF b \in S THEN n.refs[b] - times[b] ELSE n.refs[b]],
                          !.data = [b \in Blocks |-> IF b \in gone THEN Unwritten ELSE n.data[b]]]
<1>1. DOMAIN times = S
  OBVIOUS
<1>2. \A b \in S : n.refs[b] \in Nat /\ times[b] \in Nat /\ ~(times[b] > n.refs[b])
  BY ManagerIs DEF Enough
<1>3. FreeEach(n, times) = Ok(x)
  BY <1>1, <1>2 DEF FreeEach
<1>5. /\ x.free = n.free \cup gone
      /\ x.refs = [b \in Blocks |-> IF b \in S THEN n.refs[b] - times[b] ELSE n.refs[b]]
      /\ x.data = [b \in Blocks |-> IF b \in gone THEN Unwritten ELSE n.data[b]]
      /\ x.table = n.table
  BY DEF Managers
<1>6. x.refs \in [Blocks -> Nat]
  BY <1>2, <1>5, ManagerIs
<1>7. Unwritten \in [Slots -> Cells]
  BY DEF Unwritten, Cells
<1>8. x.data \in [Blocks -> [Slots -> Cells]]
  BY <1>5, <1>7, ManagerIs
<1>9. x \in Managers
  BY <1>5, <1>6, <1>8, ManagerIs DEF Managers
<1>10. Freed(n, x, S, times)
  <2> HIDE DEF x
  <2> QED BY <1>5, <1>9 DEF Freed
<1> HIDE DEF x
<1> QED BY <1>3, <1>10

\* free of a sequence.
LEMMA FreeSeqIs ==
    ASSUME Window = 0, NEW n, NEW exact, Counted(n, exact), NEW s \in Seqs,
           NEW o, o = FreeSeq(n, s)
    PROVE  \E x : /\ o = Ok(x) /\ Counted(x, exact) /\ x.table[s] = <<>>
                  /\ Untouched(n, x, {s}) /\ n.free \subseteq x.free
<1>1. n \in Managers
  BY DEF Counted
<1> DEFINE S == Listed(n.table[s])
           p == FreeEach(n, Once(S))
<1>2. Range(n.table[s]) = S /\ S \in SUBSET Blocks
  BY <1>1, ManagerIs, RangeIs
<1>3. Once(S) \in [S -> Nat] /\ \A b \in S : Once(S)[b] = 1 /\ Once(S)[b] <= n.refs[b]
  BY InUse DEF Once
<1>4. /\ p.raised = "none" /\ p.m \in Managers /\ p.m.table = n.table
      /\ \A b \in Blocks :
           /\ p.m.refs[b] = IF b \in S THEN n.refs[b] - 1 ELSE n.refs[b]
           /\ b \in p.m.free <=> b \in n.free \/ (b \in S /\ n.refs[b] = 1)
           /\ b \notin S \/ n.refs[b] # 1 => p.m.data[b] = n.data[b]
  <2> DEFINE times == Once(S)
  <2>1. times \in [S -> Nat] /\ \A b \in S : times[b] = 1 /\ times[b] <= n.refs[b]
    BY <1>3
  <2>2. PICK q : q = FreeEach(n, times)
    OBVIOUS
  <2> HIDE DEF S, times
  <2>3. PICK T, f : T = S /\ f = times
    OBVIOUS
  <2>4. T \in SUBSET Blocks /\ f \in [T -> Nat] /\ q = FreeEach(n, f) /\ Enough(n, T, f)
    BY <1>2, <2>1, <2>2, <2>3 DEF Enough
  <2>5. PICK y : q = Ok(y) /\ Freed(n, y, T, f)
    BY <1>1, <2>4, FreeEachIs
  <2>6. q.raised = "none" /\ q.m = y
    BY <2>5 DEF Ok
  <2>7. p = q
    BY <2>2 DEF times
  <2> QED BY <2>1, <2>3, <2>5, <2>6, <2>7 DEF Freed
<1>5. o = [p EXCEPT !.m = SetTable(p.m, s, <<>>)]
  BY <1>2 DEF FreeSeq
<1>6. p = [m |-> p.m, raised |-> p.raised]
  BY DEF FreeEach, Ok, Raise
<1> HIDE DEF p
<1>7. o.raised = "none" /\ o.m = SetTable(p.m, s, <<>>)
  BY <1>4, <1>5, <1>6
<1>8. PICK x : x = o.m
  OBVIOUS
<1>9. /\ x.free = p.m.free /\ x.refs = p.m.refs /\ x.data = p.m.data
      /\ x.table = [t \in Seqs |-> IF t = s THEN <<>> ELSE n.table[t]]
  BY <1>4, <1>7, <1>8 DEF SetTable, Managers
<1>10. x.table \in [Seqs -> Seq(Blocks)]
  BY <1>1, <1>9, ManagerIs
<1>11. x \in Managers
  BY <1>4, <1>7, <1>8, <1>10 DEF Managers, SetTable
<1>12. Listed(x.table[s]) = {} /\ Distinct(x.table[s])
  BY <1>9 DEF Listed, Firsts, Distinct
<1>13. \A t \in Seqs \ {s} : x.table[t] = n.table[t]
  BY <1>9
<1> HIDE DEF S
<1>14. ASSUME NEW b \in Blocks
       PROVE  /\ Cardinality(Owners(x, b)) <= x.refs[b]
              /\ exact => x.refs[b] = Cardinality(Owners(x, b))
              /\ b \in x.free <=> x.refs[b] = 0
  <2>1. /\ Cardinality(Owners(n, b)) <= n.refs[b]
        /\ exact => n.refs[b] = Cardinality(Owners(n, b))
        /\ b \in n.free <=> n.refs[b] = 0
        /\ n.refs[b] \in Nat
    BY <1>1, ManagerIs DEF Counted
  <2>2. Cardinality(Owners(n, b)) \in Nat /\ Cardinality(Owners(x, b)) \in Nat
    BY OwnersFinite
  <2>3. CASE b \in S
    <3>1. Cardinality(Owners(x, b)) = Cardinality(Owners(n, b)) - 1
      BY <1>12, <1>13, <2>3, OwnersOne DEF S
    <3>2. x.refs[b] = n.refs[b] - 1 /\ (b \in x.free <=> b \in n.free \/ n.refs[b] = 1)
      BY <1>4, <1>9, <2>3
    <3>3. n.refs[b] > 0
      BY <2>3, InUse DEF S
    <3> QED BY <2>1, <2>2, <3>1, <3>2, <3>3
  <2>4. CASE b \notin S
    <3>1. Owners(x, b) = Owners(n, b)
      BY <1>12, <1>13, <2>4, OwnersOne DEF S
    <3>2. x.refs[b] = n.refs[b] /\ (b \in x.free <=> b \in n.free)
      BY <1>4, <1>9, <2>4
    <3> QED BY <2>1, <2>2, <3>1, <3>2
  <2> QED BY <2>3, <2>4
<1>15. \A t \in Seqs : Distinct(x.table[t])
  BY <1>12, <1>13 DEF Counted
<1>16. Untouched(n, x, {s})
  <2> SUFFICES ASSUME NEW t \in Seqs \ {s}, NEW b \in Listed(n.table[t])
               PROVE  /\ x.data[b] = n.data[b]
                      /\ Owners(n, b) = {t} => Owners(x, b) = {t}
    BY <1>13 DEF Untouched
  <2>1. b \in Blocks /\ t \in Owners(n, b)
    BY InUse
  <2>2. t \in Owners(x, b) /\ \A u \in Owners(x, b) : u \in Owners(n, b)
    BY <1>12, <1>13, <2>1 DEF Owners
  <2>3. x.data[b] = n.data[b]
    <3>1. CASE b \in S /\ n.refs[b] = 1
      <4>1. s \in Owners(n, b)
        BY <3>1, InUse DEF S
      <4>2. Owners(n, b) = {t}
        BY <2>1, <3>1, InUse
      <4> QED BY <4>1, <4>2
    <3>2. CASE ~(b \in S /\ n.refs[b] = 1)
      BY <1>4, <1>9, <2>1, <3>2
    <3> QED BY <3>1, <3>2
  <2> QED BY <2>2, <2>3
<1>17. n.free \subseteq x.free
  BY <1>1, <1>4, <1>9, ManagerIs
<1>18. x.table[s] = <<>>
  BY <1>9
<1>19. o = Ok(x)
  BY <1>4, <1>5, <1>6, <1>7, <1>8 DEF Ok
<1> QED BY <1>11, <1>14, <1>15, <1>16, <1>17, <1>18, <1>19 DEF Counted

\* free of several sequences, by induction over the list.
LEMMA FreeAllIs ==
    ASSUME Window = 0, NEW n, NEW exact, Counted(n, exact), NEW list \in Seq(Seqs)
    PROVE  \E x : /\ FreeAll(n, list) = Ok(x) /\ Counted(x, exact)
                  /\ \A s \in Listed(list) : x.table[s] = <<>>
                  /\ Untouched(n, x, Listed(list)) /\ n.free \subseteq x.free
<1> DEFINE len == Len(list)
           Next1(o, i) == IF o.raised = "none" THEN FreeSeq(o.m, list[i]) ELSE o
           F == [p \in (1 .. len) \X Outcomes |-> Next1(p[2], p[1])]
           Is(o, i) == /\ o = Ok(o.m) /\ Counted(o.m, exact)
                       /\ \A s \in Firsts(list, i) : o.m.table[s] = <<>>
                       /\ Untouched(n, o.m, Firsts(list, i)) /\ n.free \subseteq o.m.free
           Q == {p \in Nat \X Outcomes : Is(p[2], p[1])}
           body(g) == [i \in 0 .. len |-> IF i = 0 THEN Ok(n) ELSE Next1(g[i - 1], i)]
<1>1. len \in Nat
  OBVIOUS
<1>2. <<0, Ok(n)>> \in Q
  <2>1. Firsts(list, 0) = {}
    BY DEF Firsts
  <2>2. Ok(n).m = n /\ Ok(n) \in Outcomes
    BY DEF Ok, Outcomes, Counted
  <2>3. Is(Ok(n), 0)
    BY <2>1, <2>2, UntouchedNone
  <2> HIDE DEF Is
  <2> QED BY <2>2, <2>3
<1>3. ASSUME NEW i \in 1 .. len, NEW v, <<i - 1, v>> \in Q
      PROVE  v \in Outcomes /\ <<i, Next1(v, i)>> \in Q
  <2>1. v \in Outcomes /\ Is(v, i - 1)
    BY <1>3
  <2>2. PICK s \in Seqs : s = list[i]
    OBVIOUS
  <2>3. Firsts(list, i) = Firsts(list, i - 1) \cup {s} /\ i \in Nat
    BY <2>2, FirstsStep
  <2>4. PICK y : y = v.m
    OBVIOUS
  <2>5. v = Ok(y) /\ Counted(y, exact) /\ Untouched(n, y, Firsts(list, i - 1))
        /\ n.free \subseteq y.free /\ \A t \in Firsts(list, i - 1) : y.table[t] = <<>>
    BY <2>1, <2>4
  <2>6. PICK x : /\ FreeSeq(y, s) = Ok(x) /\ Counted(x, exact) /\ x.table[s] = <<>>
                 /\ Untouched(y, x, {s}) /\ y.free \subseteq x.free
    BY <2>5, FreeSeqIs
  <2>7. Untouched(n, x, Firsts(list, i))
    BY <2>3, <2>5, <2>6, UntouchedTwice
  <2>8. \A t \in Firsts(list, i) : x.table[t] = <<>>
    <3> SUFFICES ASSUME NEW t \in Firsts(list, i), t # s PROVE x.table[t] = <<>>
      BY <2>6
    <3>1. t \in Firsts(list, i - 1)
      BY <2>3
    <3>2. t \in Seqs
      <4>1. \A j \in 1 .. i : list[j] \in Seqs
        <5> SUFFICES ASSUME NEW j \in 1 .. i PROVE list[j] \in Seqs
          OBVIOUS
        <5>1. j \in 1 .. len
          BY <1>1
        <5> QED BY <5>1
      <4> QED BY <4>1 DEF Firsts
    <3> QED BY <2>5, <2>6, <3>1, <3>2 DEF Untouched
  <2>9. Next1(v, i) = Ok(x) /\ Ok(x).m = x /\ Ok(x) \in Outcomes
    BY <2>2, <2>5, <2>6 DEF Ok, Outcomes, Counted
  <2>10. Is(Ok(x), i)
    BY <2>5, <2>6, <2>7, <2>8, <2>9
  <2> HIDE DEF Is, Next1
  <2> QED BY <2>1, <2>3, <2>9, <2>10
<1>4. \A i \in 1 .. len : \A v : <<i - 1, v>> \in Q => F[<<i, v>>] = Next1(v, i)
  <2> SUFFICES ASSUME NEW i \in 1 .. len, NEW v, <<i - 1, v>> \in Q
               PROVE  F[<<i, v>>] = Next1(v, i)
    OBVIOUS
  <2>1. <<i, v>> \in (1 .. len) \X Outcomes
    BY <1>3
  <2> HIDE DEF Next1
  <2> QED BY <2>1
<1> HIDE DEF F, Q, Next1, len
<1>5. \A i \in 1 .. len : \A v : <<i - 1, v>> \in Q => <<i, F[<<i, v>>]>> \in Q
  BY <1>3, <1>4
<1>6. PICK g : g = LoopBody(g, len, Ok(n), F) /\ \A i \in 0 .. len : <<i, g[i]>> \in Q
  BY <1>1, <1>2, <1>5, LoopFixed
<1>7. g = body(g)
  <2> DEFINE A(i) == F[<<i, g[i - 1]>>]
             B(i) == Next1(g[i - 1], i)
  <2>1. \A i \in 0 .. len : i # 0 => A(i) = B(i)
    <3> SUFFICES ASSUME NEW i \in 0 .. len, i # 0 PROVE A(i) = B(i)
      OBVIOUS
    <3>1. i \in 1 .. len /\ i - 1 \in 0 .. len
      BY <1>1
    <3>2. <<i - 1, g[i - 1]>> \in Q
      BY <1>6, <3>1
    <3> QED BY <1>4, <3>1, <3>2
  <2> HIDE DEF A, B
  <2>2. [i \in 0 .. len |-> IF i = 0 THEN Ok(n) ELSE A(i)]
          = [i \in 0 .. len |-> IF i = 0 THEN Ok(n) ELSE B(i)]
    BY <2>1
  <2> QED BY <1>6, <2>2 DEF LoopBody, A, B
<1> DEFINE iter == CHOOSE h : h = body(h)
<1>8. iter = body(iter)
  BY <1>7
<1>9. FreeAll(n, list) = iter[len]
  <2>1. \A h : body(h) = [i \in 0 .. len |->
                            IF i = 0
                            THEN Ok(n)
                            ELSE IF h[i - 1].raised = "none" THEN FreeSeq(h[i - 1].m, list[i])
                            ELSE h[i - 1]]
    BY DEF Next1
  <2> QED BY <2>1 DEF FreeAll, len
<1> HIDE DEF iter
<1>10. iter[0] = Ok(n) /\ \A i \in 1 .. len : iter[i] = Next1(iter[i - 1], i)
  <2>1. \A i \in 0 .. len : body(iter)[i] = IF i = 0 THEN Ok(n) ELSE Next1(iter[i - 1], i)
    OBVIOUS
  <2>2. 0 \in 0 .. len /\ \A i \in 1 .. len : i \in 0 .. len /\ i # 0
    BY <1>1
  <2> HIDE DEF body
  <2> QED BY <1>8, <2>1, <2>2
<1>11. \A i \in 1 .. len : <<i - 1, iter[i - 1]>> \in Q => <<i, iter[i]>> \in Q
  BY <1>3, <1>10
<1>12. <<0, iter[0]>> \in Q
  BY <1>2, <1>10
<1>13. <<len, iter[len]>> \in Q
  <2>1. \A i \in 0 .. len : <<i, iter[i]>> \in Q
    BY <1>1, <1>11, <1>12, LoopKeeps
  <2>2. len \in 0 .. len
    BY <1>1
  <2> QED BY <2>1, <2>2
<1>14. PICK o : o = iter[len]
  OBVIOUS
<1>15. Is(o, len)
  BY <1>13, <1>14 DEF Q
<1> QED BY <1>9, <1>14, <1>15 DEF Listed, len

\* A free block is given to a sequence, for blocks D of its table that others have too.
Gives(n, x, s, b, D) ==
    /\ b \in n.free /\ x \in Managers
    /\ D \subseteq Listed(n.table[s]) /\ \A d \in D : n.refs[d] > 1
    /\ \A t \in Seqs \ {s} : x.table[t] = n.table[t]
    /\ Distinct(x.table[s]) /\ Listed(x.table[s]) = (Listed(n.table[s]) \ D) \cup {b}
    /\ \A c \in Blocks :
         /\ x.refs[c] = IF c = b THEN 1 ELSE IF c \in D THEN n.refs[c] - 1 ELSE n.refs[c]
         /\ c \in x.free <=> c \in n.free /\ c # b
         /\ c # b => x.data[c] = n.data[c]

\* The counts stay right when a free block is given, and it is the sequence's alone.
LEMMA GivenIs ==
    ASSUME NEW n, NEW exact, Counted(n, exact), NEW s \in Seqs, NEW b, NEW D, NEW x,
           Gives(n, x, s, b, D)
    PROVE  Counted(x, exact) /\ Untouched(n, x, {s}) /\ Alone(x, b, s)
<1> USE DEF Gives
<1>1. n \in Managers /\ b \in Blocks /\ b \notin Listed(n.table[s]) /\ b \notin D
      /\ Owners(n, b) = {} /\ n.refs[b] = 0
  BY InUse, ManagerIs DEF Counted
<1>2. Owners(x, b) = {s}
  <2>1. \A t \in Seqs \ {s} : t \notin Owners(x, b)
    BY <1>1, OwnersOne
  <2>2. s \in Owners(x, b) /\ Owners(x, b) \subseteq Seqs
    BY DEF Owners
  <2> QED BY <2>1, <2>2
<1>3. ASSUME NEW c \in Blocks
      PROVE  /\ Cardinality(Owners(x, c)) <= x.refs[c]
             /\ exact => x.refs[c] = Cardinality(Owners(x, c))
             /\ c \in x.free <=> x.refs[c] = 0
  <2>1. /\ Cardinality(Owners(n, c)) <= n.refs[c]
        /\ exact => n.refs[c] = Cardinality(Owners(n, c))
        /\ c \in n.free <=> n.refs[c] = 0
        /\ n.refs[c] \in Nat
    BY <1>1, ManagerIs DEF Counted
  <2>2. Cardinality(Owners(n, c)) \in Nat
    BY OwnersFinite
  <2>3. CASE c = b
    <3>1. x.refs[c] = 1 /\ c \notin x.free
      BY <2>3
    <3>2. Cardinality(Owners(x, c)) = 1
      BY <1>2, <2>3, FS_Singleton
    <3> QED BY <3>1, <3>2
  <2>4. CASE c # b /\ c \in D
    <3>1. Cardinality(Owners(x, c)) = Cardinality(Owners(n, c)) - 1
      <4>1. c \in Listed(n.table[s]) /\ c \notin Listed(x.table[s])
        BY <2>4
      <4> QED BY <4>1, OwnersOne
    <3>2. x.refs[c] = n.refs[c] - 1 /\ n.refs[c] > 1 /\ (c \in x.free <=> c \in n.free)
      BY <2>4
    <3> QED BY <2>1, <2>2, <3>1, <3>2
  <2>5. CASE c # b /\ c \notin D
    <3>1. Owners(x, c) = Owners(n, c)
      <4>1. c \in Listed(n.table[s]) <=> c \in Listed(x.table[s])
        BY <2>5
      <4> QED BY <4>1, OwnersOne
    <3>2. x.refs[c] = n.refs[c] /\ (c \in x.free <=> c \in n.free)
      BY <2>5
    <3> QED BY <2>1, <3>1, <3>2
  <2> QED BY <2>3, <2>4, <2>5
<1>4. \A t \in Seqs : Distinct(x.table[t])
  BY DEF Counted
<1>5. ASSUME NEW t \in Seqs \ {s}, NEW c \in Listed(n.table[t])
      PROVE  /\ x.data[c] = n.data[c]
             /\ Owners(n, c) = {t} => Owners(x, c) = {t}
  <2>1. c \in Blocks /\ c \notin n.free /\ c # b
    BY InUse
  <2>2. ASSUME Owners(n, c) = {t}
        PROVE  Owners(x, c) = {t}
    <3>1. c \notin Listed(n.table[s]) /\ c \notin Listed(x.table[s])
      BY <2>1, <2>2 DEF Owners
    <3> QED BY <2>2, <3>1, OwnersOne
  <2> QED BY <2>1, <2>2
<1> QED BY <1>2, <1>3, <1>4, <1>5 DEF Counted, Untouched, Alone

\* What append_slots leaves s: a slot for the newest token in a block of its own,
\* and what was in the blocks before.
Slotted(n, x, s) ==
    /\ Len(x.table[s]) = NumLogicalBlocks(Len(tokens[s])) /\ Len(n.table[s]) <= Len(x.table[s])
    /\ Listed(x.table[s]) \subseteq GpuBlocks
    /\ Alone(x, x.table[s][Len(x.table[s])], s)
    /\ \A i \in 1 .. Len(n.table[s]) : x.data[x.table[s][i]] = n.data[n.table[s][i]]

Grown(n, x, s) ==
    Untouched(n, x, {s}) /\ Slotted(n, x, s) /\ \E b : n.free \ {b} \subseteq x.free

\* A sequence that lacks at most the slot of its newest token.
Lacking(n, s) ==
    /\ \E k \in Nat : Len(tokens[s]) = k + 1 /\ Len(n.table[s]) = NumLogicalBlocks(k)
    /\ Listed(n.table[s]) \subseteq GpuBlocks

\* append_slots of a sequence that lacks at most the slot of its newest token.
LEMMA AppendSlotsIs ==
    ASSUME Window = 0, NEW n, NEW exact, Counted(n, exact), NEW s \in Seqs,
           Lacking(n, s), NEW o \in AppendSlots(n, s)
    PROVE  \/ o.raised = "append" /\ n.free \cap GpuBlocks = {}
           \/ \E x : o = Ok(x) /\ Counted(x, exact) /\ Grown(n, x, s)
<1>1. n \in Managers
  BY DEF Counted
<1> PICK k \in Nat : Len(tokens[s]) = k + 1 /\ Len(n.table[s]) = NumLogicalBlocks(k)
  BY DEF Lacking
<1>0. Listed(n.table[s]) \subseteq GpuBlocks
  BY DEF Lacking
<1>2. PICK len \in Nat, need \in Nat : /\ len = Len(n.table[s]) /\ len = NumLogicalBlocks(k)
                                       /\ need = NumLogicalBlocks(k + 1) /\ need > 0
                                       /\ need \in {len, len + 1}
  <2>1. k + 1 \in Nat /\ k + 1 > 0
    OBVIOUS
  <2>2. NumLogicalBlocks(k) \in Nat /\ NumLogicalBlocks(k + 1) \in Nat
        /\ NumLogicalBlocks(k + 1) \in {NumLogicalBlocks(k), NumLogicalBlocks(k) + 1}
    BY <2>1, BlocksStep
  <2>3. NumLogicalBlocks(k + 1) > 0
    <3>1. PICK j \in Nat : j = k + 1 /\ j > 0
      BY <2>1
    <3> QED BY <3>1, BlocksStep
  <2> QED BY <2>2, <2>3
<1>3. PICK table \in Seq(Blocks) : table = n.table[s]
  BY <1>1, ManagerIs
<1> DEFINE available == n.free \cap GpuBlocks
           last == table[len]
           CopiedTo(b) == [SetTable(Given(n, b), s, [table EXCEPT ![len] = b])
                             EXCEPT !.data[b] = n.data[last]]
           round == Len(n.table[s]) < NumLogicalBlocks(Len(tokens[s])) /\ Window > 0 /\ Len(n.table[s]) >= Window
<1>4. AppendSlots(n, s) =
        IF len < need /\ ~round
        THEN IF available = {}
             THEN {Raise(n, "append")}
             ELSE {Ok(SetTable(Given(n, b), s, Append(table, b))) : b \in available}
        ELSE IF n.refs[last] = 1
        THEN {Ok(SetTable(n, s, table))}
        ELSE IF available = {}
        THEN {Raise(n, "append")}
        ELSE {FreeEach(CopiedTo(b), Once({last})) : b \in available}
  <2> DEFINE old == IF round
                    THEN Append(n.table[s], n.table[s][(Len(n.table[s]) % Window) + 1])
                    ELSE n.table[s]
             A(T, l, k1, k2) ==
               IF k1 < k2 /\ ~round
               THEN IF available = {}
                    THEN {Raise(n, "append")}
                    ELSE {Ok(SetTable(Given(n, b), s, Append(T, b))) : b \in available}
               ELSE IF n.refs[T[l]] = 1
               THEN {Ok(SetTable(n, s, T))}
               ELSE IF available = {}
               THEN {Raise(n, "append")}
               ELSE {FreeEach([SetTable(Given(n, b), s, [T EXCEPT ![l] = b]) EXCEPT !.data[b] = n.data[T[l]]],
                              Once({T[l]})) : b \in available}
  <2>1. AppendSlots(n, s) = A(old, Len(old), Len(n.table[s]), NumLogicalBlocks(Len(tokens[s])))
    BY Zenon DEF AppendSlots
  <2>2. ~round
    OBVIOUS
  <2>3. old = table /\ Len(n.table[s]) = len /\ NumLogicalBlocks(Len(tokens[s])) = need
    BY <1>2, <1>3, <2>2
  <2> HIDE DEF A, old, round
  <2>4. Len(old) = len
    BY <1>3, <2>3
  <2>5. AppendSlots(n, s) = A(table, len, len, need)
    BY <2>1, <2>3, <2>4
  <2> QED BY <2>5, Zenon DEF A
<1>5. CASE o = Raise(n, "append") /\ available = {}
  BY <1>5 DEF Raise
<1>6. \A b \in available : b \in n.free /\ b \in Blocks /\ b \in GpuBlocks /\ b \notin Listed(table)
  BY <1>1, <1>3, InUse, ManagerIs
<1>7. Len(table) = len /\ Listed(table) \subseteq GpuBlocks /\ Distinct(table)
      /\ GpuBlocks \subseteq Blocks
  BY <1>0, <1>2, <1>3 DEF Counted, Blocks
<1>8. CASE len < need /\ \E b \in available : o = Ok(SetTable(Given(n, b), s, Append(table, b)))
  <2>1. PICK b \in available : o = Ok(SetTable(Given(n, b), s, Append(table, b)))
    BY <1>8
  <2>2. PICK x : x = SetTable(Given(n, b), s, Append(table, b))
    OBVIOUS
  <2>3. PICK T : T = Append(table, b)
    OBVIOUS
  <2>4. /\ T \in Seq(Blocks) /\ Listed(T) = Listed(table) \cup {b} /\ Distinct(T)
        /\ Len(T) = need /\ T[need] = b /\ \A i \in 1 .. len : T[i] = table[i]
    <3>1. T \in Seq(Blocks) /\ Listed(T) = Listed(table) \cup {b} /\ Distinct(T)
      BY <1>6, <1>7, <2>3, AppendList
    <3>2. Len(T) = len + 1 /\ T[len + 1] = b /\ \A i \in 1 .. len : T[i] = table[i]
      BY <1>6, <1>7, <2>3, AppendProperties
    <3> QED BY <1>2, <1>8, <3>1, <3>2
  <2>5. /\ x.free = n.free \ {b} /\ x.refs = [n.refs EXCEPT ![b] = 1] /\ x.data = n.data
        /\ x.table = [t \in Seqs |-> IF t = s THEN T ELSE n.table[t]]
        /\ x = [free |-> x.free, refs |-> x.refs, table |-> x.table, data |-> x.data]
    BY <1>1, <2>2, <2>3 DEF SetTable, Given, Managers
  <2>6. x \in Managers
    <3>1. x.table \in [Seqs -> Seq(Blocks)] /\ x.refs \in [Blocks -> Nat]
          /\ x.free \subseteq Blocks /\ x.data \in [Blocks -> [Slots -> Cells]]
      BY <1>1, <1>6, <2>4, <2>5, ManagerIs
    <3> QED BY <2>5, <3>1 DEF Managers
  <2>7. Counted(x, exact) /\ Untouched(n, x, {s}) /\ Alone(x, b, s)
    <3>1. PICK D : D = {}
      OBVIOUS
    <3>2. /\ D \subseteq Listed(n.table[s]) /\ \A d \in D : n.refs[d] > 1
          /\ \A t \in Seqs \ {s} : x.table[t] = n.table[t]
          /\ x.table[s] = T
          /\ Distinct(x.table[s]) /\ Listed(x.table[s]) = (Listed(n.table[s]) \ D) \cup {b}
      BY <1>3, <2>4, <2>5, <3>1
    <3>3. \A c \in Blocks :
             /\ x.refs[c] = IF c = b THEN 1 ELSE IF c \in D THEN n.refs[c] - 1 ELSE n.refs[c]
             /\ c \in x.free <=> c \in n.free /\ c # b
             /\ c # b => x.data[c] = n.data[c]
      BY <1>1, <2>5, <3>1, ManagerIs
    <3>4. b \in n.free
      BY <1>6
    <3>5. Gives(n, x, s, b, D)
      BY <2>6, <3>2, <3>3, <3>4 DEF Gives
    <3> QED BY <3>5, GivenIs
  <2>8. Grown(n, x, s)
    <3>1. x.table[s] = T
      BY <2>5
    <3>2. \A i \in 1 .. len : x.data[T[i]] = n.data[table[i]]
      BY <2>4, <2>5
    <3>3. Listed(T) \subseteq GpuBlocks
      BY <1>6, <1>7, <2>4
    <3>4. n.free \ {b} \subseteq x.free
      BY <2>5
    <3>5. Len(x.table[s]) = need /\ Len(n.table[s]) = len /\ len <= need
          /\ NumLogicalBlocks(Len(tokens[s])) = need
      BY <1>2, <2>4, <3>1
    <3>6. Alone(x, x.table[s][Len(x.table[s])], s)
      BY <2>4, <2>7, <3>1, <3>5
    <3>7. Slotted(n, x, s)
      BY <1>3, <3>1, <3>2, <3>3, <3>5, <3>6 DEF Slotted
    <3> QED BY <2>7, <3>4, <3>7 DEF Grown
  <2> QED BY <2>1, <2>2, <2>7, <2>8
<1>9. CASE ~(len < need) /\ n.refs[last] = 1 /\ o = Ok(SetTable(n, s, table))
  <2>1. need = len /\ len > 0
    BY <1>2, <1>9
  <2>2. SetTable(n, s, table) = n
    <3>1. [t \in Seqs |-> IF t = s THEN table ELSE n.table[t]] = n.table
      BY <1>1, <1>3, ManagerIs
    <3>2. [n EXCEPT !.table = n.table] = n
      BY <1>1 DEF Managers
    <3> QED BY <3>1, <3>2 DEF SetTable
  <2>3. last \in Listed(n.table[s])
    BY <1>3, <1>7, <2>1 DEF Listed, Firsts
  <2>4. last \in Blocks /\ s \in Owners(n, last)
    BY <2>3, InUse
  <2>5. Owners(n, last) = {s}
    BY <1>9, <2>4, InUse
  <2>6. Untouched(n, n, {s})
    BY UntouchedNone
  <2>7. Grown(n, n, s)
    BY <1>2, <1>3, <1>7, <2>1, <2>5, <2>6 DEF Grown, Slotted, Alone
  <2> QED BY <1>9, <2>2, <2>7
<1>10. CASE /\ ~(len < need) /\ n.refs[last] # 1
            /\ \E b \in available : o = FreeEach(CopiedTo(b), Once({last}))
  <2>1. PICK b \in available : o = FreeEach(CopiedTo(b), Once({last}))
    BY <1>10
  <2>2. need = len /\ len > 0
    BY <1>2, <1>10
  <2>3. last \in Listed(table) /\ last \in Blocks /\ n.refs[last] \in Nat /\ n.refs[last] > 1
        /\ last # b
    <3>1. last \in Listed(n.table[s])
      BY <1>3, <1>7, <2>2 DEF Listed, Firsts
    <3>2. last \in Blocks /\ n.refs[last] \in Nat /\ n.refs[last] > 0 /\ last \notin n.free
      BY <3>1, InUse
    <3> QED BY <1>3, <1>6, <1>10, <3>1, <3>2
  <2>4. PICK l : l = last
    OBVIOUS
  <2>5. PICK T : T = [table EXCEPT ![len] = b]
    OBVIOUS
  <2>6. /\ T \in Seq(Blocks) /\ Listed(T) = (Listed(table) \ {l}) \cup {b} /\ Distinct(T)
        /\ Len(T) = len /\ T[len] = b /\ \A i \in 1 .. len - 1 : T[i] = table[i]
    <3>1. /\ T \in Seq(Blocks) /\ Len(T) = len /\ T[len] = b
          /\ \A i \in 1 .. len - 1 : T[i] = table[i]
      BY <1>6, <1>7, <2>2, <2>5
    <3>2. \A i \in 1 .. len : i \in 1 .. len - 1 \/ i = len
      BY <1>2
    <3>3. Listed(table) = {table[i] : i \in 1 .. len} /\ Listed(T) = {T[i] : i \in 1 .. len}
      BY <1>7, <3>1 DEF Listed, Firsts
    <3>4. \A i \in 1 .. len - 1 : table[i] # l /\ table[i] \in Listed(table)
      BY <1>7, <2>2, <2>4, <3>3 DEF Distinct
    <3>5. len \in 1 .. len /\ \A i \in 1 .. len - 1 : i \in 1 .. len
      BY <2>2
    <3>6. Listed(T) = (Listed(table) \ {l}) \cup {b}
      <4>1. \A c \in Listed(T) : c \in (Listed(table) \ {l}) \cup {b}
        BY <3>1, <3>2, <3>3, <3>4
      <4>2. \A c \in (Listed(table) \ {l}) : c \in Listed(T)
        <5> SUFFICES ASSUME NEW i \in 1 .. len, table[i] # l PROVE table[i] \in Listed(T)
          BY <3>3
        <5>1. i \in 1 .. len - 1
          BY <2>4, <3>2
        <5> QED BY <3>1, <3>3, <3>5, <5>1
      <4>3. b \in Listed(T)
        BY <3>1, <3>3, <3>5
      <4> QED BY <4>1, <4>2, <4>3
    <3>7. Distinct(T)
      <4> SUFFICES ASSUME NEW i \in 1 .. len, NEW j \in 1 .. len, T[i] = T[j] PROVE i = j
        BY <3>1 DEF Distinct
      <4>1. \A q \in 1 .. len - 1 : T[q] # b
        BY <1>6, <3>1, <3>4
      <4>2. CASE i = len \/ j = len
        BY <3>1, <3>2, <4>1, <4>2
      <4>3. CASE i # len /\ j # len
        <5>1. i \in 1 .. len - 1 /\ j \in 1 .. len - 1
          BY <3>2, <4>3
        <5>2. table[i] = table[j]
          BY <3>1, <5>1
        <5> QED BY <1>7, <5>2 DEF Distinct
      <4> QED BY <4>2, <4>3
    <3> QED BY <3>1, <3>6, <3>7
  <2>7. PICK y : y = CopiedTo(b)
    OBVIOUS
  <2>8. /\ y.free = n.free \ {b} /\ y.refs = [n.refs EXCEPT ![b] = 1]
        /\ y.data = [n.data EXCEPT ![b] = n.data[l]]
        /\ y.table = [t \in Seqs |-> IF t = s THEN T ELSE n.table[t]]
        /\ y = [free |-> y.free, refs |-> y.refs, table |-> y.table, data |-> y.data]
    BY <1>1, <2>4, <2>5, <2>7 DEF SetTable, Given, Managers
  <2>9. y \in Managers
    <3>1. y.table \in [Seqs -> Seq(Blocks)] /\ y.refs \in [Blocks -> Nat]
          /\ y.free \subseteq Blocks
      BY <1>1, <1>6, <2>6, <2>8, ManagerIs
    <3>2. y.data \in [Blocks -> [Slots -> Cells]]
      BY <1>1, <1>6, <2>3, <2>4, <2>8, ManagerIs
    <3> QED BY <2>8, <3>1, <3>2 DEF Managers
  <2>10. PICK S, times : S = {l} /\ times = Once(S)
    OBVIOUS
  <2>11. /\ S \in SUBSET Blocks /\ times \in [S -> Nat] /\ \A c \in S : times[c] = 1
         /\ Enough(y, S, times)
         /\ o = FreeEach(y, times)
    BY <1>1, <1>6, <2>1, <2>3, <2>4, <2>7, <2>8, <2>10, ManagerIs DEF Once, Enough
  <2>12. PICK x : o = Ok(x) /\ Freed(y, x, S, times)
    BY <2>9, <2>11, FreeEachIs
  <2>13. /\ x \in Managers /\ x.table = y.table
         /\ \A c \in Blocks :
              /\ x.refs[c] = IF c \in S THEN y.refs[c] - times[c] ELSE y.refs[c]
              /\ c \in x.free <=> c \in y.free \/ (c \in S /\ times[c] = y.refs[c])
              /\ c \notin S \/ times[c] # y.refs[c] => x.data[c] = y.data[c]
    BY <2>12 DEF Freed
  <2>14. y.refs[l] = n.refs[l] /\ n.refs[l] > 1 /\ n.refs[l] \in Nat /\ l # b
    BY <1>1, <2>3, <2>4, <2>8, ManagerIs
  <2>15. \A c \in Blocks :
             /\ x.refs[c] = IF c = b THEN 1 ELSE IF c \in {l} THEN n.refs[c] - 1 ELSE n.refs[c]
             /\ c \in x.free <=> c \in n.free /\ c # b
             /\ x.data[c] = y.data[c]
    <3> SUFFICES ASSUME NEW c \in Blocks
                 PROVE  /\ x.refs[c] = IF c = b THEN 1
                                       ELSE IF c \in {l} THEN n.refs[c] - 1 ELSE n.refs[c]
                        /\ c \in x.free <=> c \in n.free /\ c # b
                        /\ x.data[c] = y.data[c]
      OBVIOUS
    <3>1. y.refs[c] = (IF c = b THEN 1 ELSE n.refs[c]) /\ (c \in y.free <=> c \in n.free /\ c # b)
      BY <1>1, <2>8, ManagerIs
    <3>2. CASE c = l
      <4>1. c \in S /\ times[c] = 1 /\ times[c] # y.refs[c]
        BY <2>10, <2>11, <2>14, <3>2
      <4> QED BY <2>13, <2>14, <3>1, <3>2, <4>1
    <3>3. CASE c # l
      <4>1. c \notin S
        BY <2>10, <3>3
      <4> QED BY <2>13, <3>1, <3>3, <4>1
    <3> QED BY <3>2, <3>3
  <2>16. x.table[s] = T /\ \A t \in Seqs \ {s} : x.table[t] = n.table[t]
    BY <2>8, <2>13
  <2>17. Counted(x, exact) /\ Untouched(n, x, {s}) /\ Alone(x, b, s)
    <3>1. PICK D : D = {l}
      OBVIOUS
    <3>2. /\ D \subseteq Listed(n.table[s]) /\ \A d \in D : n.refs[d] > 1
          /\ Distinct(x.table[s]) /\ Listed(x.table[s]) = (Listed(n.table[s]) \ D) \cup {b}
      BY <1>3, <2>3, <2>4, <2>6, <2>16, <3>1
    <3>3. \A c \in Blocks :
             /\ x.refs[c] = IF c = b THEN 1 ELSE IF c \in D THEN n.refs[c] - 1 ELSE n.refs[c]
             /\ c \in x.free <=> c \in n.free /\ c # b
             /\ c # b => x.data[c] = n.data[c]
      BY <1>1, <2>8, <2>15, <3>1, ManagerIs
    <3>4. b \in n.free /\ x \in Managers
      BY <1>6, <2>13
    <3>5. Gives(n, x, s, b, D)
      BY <2>16, <3>2, <3>3, <3>4 DEF Gives
    <3> QED BY <3>5, GivenIs
  <2>18. \A i \in 1 .. len : x.data[T[i]] = n.data[table[i]]
    <3> SUFFICES ASSUME NEW i \in 1 .. len PROVE x.data[T[i]] = n.data[table[i]]
      OBVIOUS
    <3>1. T[i] \in Blocks /\ x.data[T[i]] = y.data[T[i]]
      BY <2>6, <2>15
    <3>2. CASE i = len
      BY <1>1, <1>6, <2>4, <2>6, <2>8, <3>1, <3>2, ManagerIs
    <3>3. CASE i # len
      <4>1. i \in 1 .. len - 1
        BY <2>2, <3>3
      <4>2. T[i] = table[i] /\ table[i] \in Listed(table)
        BY <1>7, <2>6, <4>1 DEF Listed, Firsts
      <4>3. T[i] # b
        BY <1>6, <4>2
      <4> QED BY <1>1, <2>8, <3>1, <4>2, <4>3, ManagerIs
    <3> QED BY <3>2, <3>3
  <2>19. Grown(n, x, s)
    <3>1. Listed(T) \subseteq GpuBlocks
      BY <1>6, <1>7, <2>6
    <3>2. n.free \ {b} \subseteq x.free
      BY <1>1, <2>15, ManagerIs
    <3>3. Len(x.table[s]) = need /\ Len(n.table[s]) = need /\ need <= need /\ len = need
          /\ NumLogicalBlocks(Len(tokens[s])) = need
      BY <1>2, <2>2, <2>6, <2>16
    <3>4. Alone(x, x.table[s][Len(x.table[s])], s)
      BY <2>6, <2>16, <2>17, <3>3
    <3>5. Slotted(n, x, s)
      BY <1>3, <2>16, <2>18, <3>1, <3>3, <3>4 DEF Slotted
    <3> QED BY <2>17, <3>2, <3>5 DEF Grown
  <2> QED BY <2>12, <2>17, <2>19
<1>11. \/ o = Raise(n, "append") /\ available = {}
       \/ len < need /\ \E b \in available : o = Ok(SetTable(Given(n, b), s, Append(table, b)))
       \/ ~(len < need) /\ n.refs[last] = 1 /\ o = Ok(SetTable(n, s, table))
       \/ /\ ~(len < need) /\ n.refs[last] # 1
          /\ \E b \in available : o = FreeEach(CopiedTo(b), Once({last}))
  <2>1. ~round
    OBVIOUS
  <2> HIDE DEF available, last, CopiedTo, round
  <2> QED BY <1>4, <2>1
<1> QED BY <1>5, <1>8, <1>9, <1>10, <1>11

\* The number of free blocks of the device drops by one at most.
FreeGpu(n) == Cardinality(n.free \cap GpuBlocks)

LEMMA FreeDrops ==
    ASSUME NEW n, NEW x, NEW b, n.free \ {b} \subseteq x.free
    PROVE  FreeGpu(n) \in Nat /\ FreeGpu(x) \in Nat /\ FreeGpu(x) >= FreeGpu(n) - 1
<1>1. IsFiniteSet(GpuBlocks)
  BY V1Assumption
<1>2. PICK A, B : A = n.free \cap GpuBlocks /\ B = x.free \cap GpuBlocks
  OBVIOUS
<1>3. IsFiniteSet(A) /\ IsFiniteSet(B) /\ A \ {b} \subseteq B
  <2>1. A \in SUBSET GpuBlocks /\ B \in SUBSET GpuBlocks /\ A \ {b} \subseteq B
    BY <1>2
  <2> QED BY <1>1, <2>1, FS_Subset
<1>4. Cardinality(A) \in Nat /\ Cardinality(B) \in Nat
  BY <1>3, FS_CardinalityType
<1>5. IsFiniteSet(A \ {b}) /\ Cardinality(A \ {b}) >= Cardinality(A) - 1
  <2>1. /\ IsFiniteSet(A \ {b})
        /\ Cardinality(A \ {b}) = IF b \in A THEN Cardinality(A) - 1 ELSE Cardinality(A)
    BY <1>3, FS_RemoveElement
  <2> QED BY <1>4, <2>1
<1>6. Cardinality(A \ {b}) <= Cardinality(B) /\ Cardinality(A \ {b}) \in Nat
  BY <1>3, <1>5, FS_Subset, FS_CardinalityType
<1> QED BY <1>2, <1>4, <1>5, <1>6 DEF FreeGpu

\* What a sequence got, it has while others are served, ...
LEMMA SlottedStays ==
    ASSUME NEW n \in Managers, NEW y \in Managers, NEW x, NEW S, NEW s \in Seqs \ S,
           Untouched(y, x, S), Slotted(n, y, s)
    PROVE  Slotted(n, x, s)
<1>1. /\ x.table[s] = y.table[s]
      /\ \A b \in Listed(y.table[s]) : /\ x.data[b] = y.data[b]
                                       /\ Owners(y, b) = {s} => Owners(x, b) = {s}
  BY DEF Untouched
<1>2. PICK k \in Nat, l \in Nat : k = Len(n.table[s]) /\ l = Len(y.table[s]) /\ k <= l
  BY ManagerIs DEF Slotted
<1>3. \A i \in 1 .. k : y.table[s][i] \in Listed(y.table[s])
  <2>1. \A i \in 1 .. k : i \in 1 .. l
    BY <1>2
  <2> QED BY <1>2, <2>1 DEF Listed, Firsts
<1>4. Alone(x, x.table[s][Len(x.table[s])], s)
  <2>1. PICK b : b = y.table[s][Len(y.table[s])]
    OBVIOUS
  <2>2. Owners(y, b) = {s}
    BY <2>1 DEF Slotted, Alone
  <2>3. b \in Listed(y.table[s])
    BY <2>2 DEF Owners
  <2> QED BY <1>1, <2>1, <2>2, <2>3 DEF Alone
<1> QED BY <1>1, <1>2, <1>3, <1>4 DEF Slotted

\* ... and what others got before changes nothing for it.
LEMMA SlottedLater ==
    ASSUME NEW n \in Managers, NEW y \in Managers, NEW x, NEW S, NEW s \in Seqs \ S,
           Untouched(n, y, S), Slotted(y, x, s)
    PROVE  Slotted(n, x, s)
<1>1. y.table[s] = n.table[s] /\ \A b \in Listed(n.table[s]) : y.data[b] = n.data[b]
  BY DEF Untouched
<1>2. \A i \in 1 .. Len(n.table[s]) : n.table[s][i] \in Listed(n.table[s])
  BY DEF Listed, Firsts
<1> QED BY <1>1, <1>2 DEF Slotted

\* _append_slots of the scheduler after can_append_slots.
LEMMA AppendAllIs ==
    ASSUME Window = 0, NEW n, NEW exact, Counted(n, exact), NEW list \in Seq(Seqs),
           Distinct(list), \A s \in Listed(list) : Lacking(n, s), Len(list) <= FreeGpu(n),
           NEW o \in AppendAll(n, list)
    PROVE  \E x : /\ o = Ok(x) /\ Counted(x, exact) /\ Untouched(n, x, Listed(list))
                  /\ \A s \in Listed(list) : Slotted(n, x, s)
<1> DEFINE len == Len(list)
           One(v, i) == IF v.raised = "none" THEN AppendSlots(v.m, list[i]) ELSE {v}
           Next1(V, i) == UNION {One(v, i) : v \in V}
           F == [p \in (1 .. len) \X (SUBSET Outcomes) |-> Next1(p[2], p[1])]
           Is(v, i) == /\ v \in Outcomes /\ v = Ok(v.m) /\ Counted(v.m, exact)
                       /\ Untouched(n, v.m, Firsts(list, i))
                       /\ \A s \in Firsts(list, i) : Slotted(n, v.m, s)
                       /\ FreeGpu(v.m) >= FreeGpu(n) - i
           Q == {p \in Nat \X (SUBSET Outcomes) : \A v \in p[2] : Is(v, p[1])}
           body(g) == [i \in 0 .. len |-> IF i = 0 THEN {Ok(n)} ELSE Next1(g[i - 1], i)]
<1>1. len \in Nat
  OBVIOUS
<1>0. FreeGpu(n) \in Nat /\ n \in Managers
  BY FreeDrops DEF Counted
<1>2. <<0, {Ok(n)}>> \in Q
  <2>1. Firsts(list, 0) = {}
    BY DEF Firsts
  <2>2. Ok(n).m = n /\ Ok(n) \in Outcomes
    BY DEF Ok, Outcomes, Counted
  <2>3. Is(Ok(n), 0)
    BY <1>0, <2>1, <2>2, UntouchedNone
  <2> HIDE DEF Is
  <2> QED BY <2>2, <2>3
<1>9. ASSUME NEW i \in 1 .. len, NEW v, Is(v, i - 1), NEW w \in One(v, i)
      PROVE  Is(w, i)
  <2>2. PICK s \in Seqs : s = list[i]
    OBVIOUS
  <2>3. Firsts(list, i) = Firsts(list, i - 1) \cup {s} /\ i \in Nat
    BY <2>2, FirstsStep
  <2>1. s \notin Firsts(list, i - 1)
    BY <2>2 DEF Distinct, Firsts
  <2>4. PICK y : y = v.m
    OBVIOUS
  <2>5. /\ v = Ok(y) /\ Counted(y, exact) /\ Untouched(n, y, Firsts(list, i - 1))
        /\ \A t \in Firsts(list, i - 1) : Slotted(n, y, t)
        /\ FreeGpu(y) >= FreeGpu(n) - (i - 1) /\ y \in Managers
    BY <1>9, <2>4 DEF Counted
  <2>6. w \in AppendSlots(y, s)
    BY <2>2, <2>5 DEF Ok
  <2>7. Lacking(y, s)
    <3>1. Lacking(n, s)
      BY <1>1, <2>2 DEF Listed, Firsts
    <3>2. y.table[s] = n.table[s]
      BY <2>1, <2>5 DEF Untouched
    <3> QED BY <3>1, <3>2 DEF Lacking
  <2>8. ~(w.raised = "append" /\ y.free \cap GpuBlocks = {})
    <3>1. FreeGpu(y) # 0
      BY <1>0, <1>1, <2>5
    <3> QED BY <3>1, FS_EmptySet DEF FreeGpu
  <2>9. PICK x : w = Ok(x) /\ Counted(x, exact) /\ Grown(y, x, s)
    BY <2>5, <2>6, <2>7, <2>8, AppendSlotsIs
  <2>10. Untouched(y, x, {s}) /\ Slotted(y, x, s)
    BY <2>9 DEF Grown
  <2>11. Untouched(n, x, Firsts(list, i))
    BY <2>3, <2>5, <2>10, UntouchedTwice
  <2>12. FreeGpu(x) >= FreeGpu(n) - i
    <3>1. PICK b : y.free \ {b} \subseteq x.free
      BY <2>9 DEF Grown
    <3>2. FreeGpu(y) \in Nat /\ FreeGpu(x) \in Nat /\ FreeGpu(x) >= FreeGpu(y) - 1
      BY <3>1, FreeDrops
    <3> QED BY <1>0, <1>1, <2>5, <3>2
  <2>13. Slotted(n, x, s)
    BY <1>0, <2>1, <2>5, <2>10, SlottedLater
  <2>14. \A t \in Firsts(list, i - 1) : Slotted(n, x, t)
    <3> SUFFICES ASSUME NEW t \in Firsts(list, i - 1) PROVE Slotted(n, x, t)
      OBVIOUS
    <3>1. t \in Seqs \ {s}
      <4>1. PICK j \in 1 .. i - 1 : t = list[j]
        BY DEF Firsts
      <4>2. j \in 1 .. len
        BY <1>1
      <4> QED BY <2>1, <4>1, <4>2
    <3>2. PICK S : S = {s}
      OBVIOUS
    <3>3. t \in Seqs \ S /\ Untouched(y, x, S) /\ Slotted(n, y, t)
      BY <2>5, <2>10, <3>1, <3>2
    <3> QED BY <1>0, <2>5, <3>3, SlottedStays
  <2>15. w \in Outcomes /\ w.m = x
    BY <2>9 DEF Ok, Outcomes, Counted
  <2> QED BY <2>3, <2>9, <2>11, <2>12, <2>13, <2>14, <2>15
<1>3. ASSUME NEW i \in 1 .. len, NEW V, <<i - 1, V>> \in Q
      PROVE  V \in SUBSET Outcomes /\ <<i, Next1(V, i)>> \in Q
  <2>1. V \in SUBSET Outcomes /\ \A v \in V : Is(v, i - 1)
    BY <1>3
  <2>2. \A w \in Next1(V, i) : Is(w, i)
    <3> HIDE DEF Is, One
    <3> QED BY <1>9, <2>1
  <2>3. Next1(V, i) \in SUBSET Outcomes
    BY <2>2
  <2>4. i \in Nat
    OBVIOUS
  <2> HIDE DEF Is, Next1
  <2> QED BY <2>1, <2>2, <2>3, <2>4
<1>4. \A i \in 1 .. len : \A v : <<i - 1, v>> \in Q => F[<<i, v>>] = Next1(v, i)
  <2> SUFFICES ASSUME NEW i \in 1 .. len, NEW v, <<i - 1, v>> \in Q
               PROVE  F[<<i, v>>] = Next1(v, i)
    OBVIOUS
  <2>1. <<i, v>> \in (1 .. len) \X (SUBSET Outcomes)
    BY <1>3
  <2> HIDE DEF Next1
  <2> QED BY <2>1
<1> HIDE DEF F, Q, Next1, len
<1>5. \A i \in 1 .. len : \A v : <<i - 1, v>> \in Q => <<i, F[<<i, v>>]>> \in Q
  BY <1>3, <1>4
<1>6. PICK g : g = LoopBody(g, len, {Ok(n)}, F) /\ \A i \in 0 .. len : <<i, g[i]>> \in Q
  BY <1>1, <1>2, <1>5, LoopFixed
<1>7. g = body(g)
  <2> DEFINE A(i) == F[<<i, g[i - 1]>>]
             B(i) == Next1(g[i - 1], i)
  <2>1. \A i \in 0 .. len : i # 0 => A(i) = B(i)
    <3> SUFFICES ASSUME NEW i \in 0 .. len, i # 0 PROVE A(i) = B(i)
      OBVIOUS
    <3>1. i \in 1 .. len /\ i - 1 \in 0 .. len
      BY <1>1
    <3>2. <<i - 1, g[i - 1]>> \in Q
      BY <1>6, <3>1
    <3> QED BY <1>4, <3>1, <3>2
  <2> HIDE DEF A, B
  <2>2. [i \in 0 .. len |-> IF i = 0 THEN {Ok(n)} ELSE A(i)]
          = [i \in 0 .. len |-> IF i = 0 THEN {Ok(n)} ELSE B(i)]
    BY <2>1
  <2> QED BY <1>6, <2>2 DEF LoopBody, A, B
<1> DEFINE iter == CHOOSE h : h = body(h)
<1>8. iter = body(iter)
  BY <1>7
<1>99. AppendAll(n, list) = iter[len]
  BY Zenon DEF AppendAll, len, Next1, One
<1> HIDE DEF iter
<1>10. iter[0] = {Ok(n)} /\ \A i \in 1 .. len : iter[i] = Next1(iter[i - 1], i)
  <2>1. \A i \in 0 .. len : body(iter)[i] = IF i = 0 THEN {Ok(n)} ELSE Next1(iter[i - 1], i)
    OBVIOUS
  <2>2. 0 \in 0 .. len /\ \A i \in 1 .. len : i \in 0 .. len /\ i # 0
    BY <1>1
  <2> HIDE DEF body
  <2> QED BY <1>8, <2>1, <2>2
<1>11. \A i \in 1 .. len : <<i - 1, iter[i - 1]>> \in Q => <<i, iter[i]>> \in Q
  BY <1>3, <1>10
<1>12. <<0, iter[0]>> \in Q
  BY <1>2, <1>10
<1>13. <<len, iter[len]>> \in Q
  <2>1. \A i \in 0 .. len : <<i, iter[i]>> \in Q
    BY <1>1, <1>11, <1>12, LoopKeeps
  <2>2. len \in 0 .. len
    BY <1>1
  <2> QED BY <2>1, <2>2
<1>14. Is(o, len)
  <2>1. o \in iter[len]
    BY <1>99
  <2> QED BY <1>13, <2>1 DEF Q
<1>15. PICK x : x = o.m
  OBVIOUS
<1> QED BY <1>14, <1>15 DEF Listed, len

\* A sequence without blocks.
Bare(n, s) == n.table[s] = <<>>

\* fork: the child has the parent's table, counted once more.
LEMMA ForkIs ==
    ASSUME NEW n, NEW exact, Counted(n, exact), NEW parent \in Seqs, NEW child \in Seqs,
           parent # child, Bare(n, child),
           NEW x, x = Fork(n, parent, child), NEW S, parent \in S, child \in S
    PROVE  /\ Counted(x, exact) /\ Untouched(n, x, S)
           /\ x.data = n.data /\ x.free = n.free
           /\ x.table[child] = n.table[parent]
           /\ \A t \in Seqs \ {child} : x.table[t] = n.table[t]
<1>1. n \in Managers
  BY DEF Counted
<1>2. PICK T \in Seq(Blocks) : T = n.table[parent] /\ Listed(T) \subseteq Blocks
  BY <1>1, ManagerIs
<1>3. Range(n.table[parent]) = Listed(T)
  BY <1>2, RangeIs
<1>4. /\ x.free = n.free /\ x.data = n.data
      /\ x.refs = [b \in Blocks |-> IF b \in Listed(T) THEN n.refs[b] + 1 ELSE n.refs[b]]
      /\ x.table = [t \in Seqs |-> IF t = child THEN T ELSE n.table[t]]
      /\ x = [free |-> x.free, refs |-> x.refs, table |-> x.table, data |-> x.data]
  BY <1>1, <1>2, <1>3 DEF Fork, SetTable, Managers
<1>5. x \in Managers
  <2>1. x.table \in [Seqs -> Seq(Blocks)] /\ x.refs \in [Blocks -> Nat]
        /\ x.free \subseteq Blocks /\ x.data \in [Blocks -> [Slots -> Cells]]
    BY <1>1, <1>2, <1>4, ManagerIs
  <2> QED BY <1>4, <2>1 DEF Managers
<1>6. x.table[child] = T /\ \A t \in Seqs \ {child} : x.table[t] = n.table[t]
  BY <1>4
<1>7. Listed(n.table[child]) = {}
  BY DEF Bare, Listed, Firsts
<1>8. ASSUME NEW b \in Blocks
      PROVE  /\ Cardinality(Owners(x, b)) <= x.refs[b]
             /\ exact => x.refs[b] = Cardinality(Owners(x, b))
             /\ b \in x.free <=> x.refs[b] = 0
  <2>1. /\ Cardinality(Owners(n, b)) <= n.refs[b]
        /\ exact => n.refs[b] = Cardinality(Owners(n, b))
        /\ b \in n.free <=> n.refs[b] = 0
        /\ n.refs[b] \in Nat
    BY <1>1, ManagerIs DEF Counted
  <2>2. Cardinality(Owners(n, b)) \in Nat
    BY OwnersFinite
  <2>3. CASE b \in Listed(T)
    <3>0. b \notin Listed(n.table[child]) /\ b \in Listed(x.table[child])
      BY <1>6, <1>7, <2>3
    <3>1. Cardinality(Owners(x, b)) = Cardinality(Owners(n, b)) + 1
      BY <1>6, <3>0, OwnersOne
    <3>2. x.refs[b] = n.refs[b] + 1 /\ b \notin x.free
      BY <1>2, <1>4, <2>3, InUse
    <3> QED BY <2>1, <2>2, <3>1, <3>2
  <2>4. CASE b \notin Listed(T)
    <3>0. b \notin Listed(n.table[child]) /\ b \notin Listed(x.table[child])
      BY <1>6, <1>7, <2>4
    <3>1. Owners(x, b) = Owners(n, b)
      BY <1>6, <3>0 DEF Owners
    <3> QED BY <1>4, <2>1, <2>4, <3>1
  <2> QED BY <2>3, <2>4
<1>9. \A t \in Seqs : Distinct(x.table[t])
  BY <1>2, <1>6 DEF Counted
<1>10. Untouched(n, x, S)
  <2> SUFFICES ASSUME NEW t \in Seqs, t # parent, t # child, NEW b \in Listed(n.table[t]),
                      Owners(n, b) = {t}
               PROVE  Owners(x, b) = {t}
    <3>1. \A t \in Seqs \ S : t # parent /\ t # child
      OBVIOUS
    <3> QED BY <1>4, <1>6, <3>1 DEF Untouched
  <2>1. b \notin Listed(T)
    BY <1>2 DEF Owners
  <2> QED BY <1>6, <1>7, <2>1, OwnersOne
<1> QED BY <1>2, <1>4, <1>5, <1>6, <1>8, <1>9, <1>10 DEF Counted

\* Children that may be forked from sequences of P: they have no table yet.
Born(n, parent, P, list) ==
    \A s \in Listed(list) : parent[s] \in P /\ s \notin P /\ Bare(n, s)

\* x is n with the tables of their parents for the children in S.
Forked(n, x, parent, P, S) ==
    /\ Untouched(n, x, P \cup S)
    /\ x.data = n.data /\ x.free = n.free
    /\ \A s \in S : x.table[s] = n.table[parent[s]]
    /\ \A s \in Seqs \ S : x.table[s] = n.table[s]

\* The children of a step get the tables of their parents.
LEMMA ForkAllIs ==
    ASSUME NEW n, NEW exact, Counted(n, exact), NEW list \in Seq(Seqs), Distinct(list),
           NEW P \in SUBSET Seqs, NEW parent, Born(n, parent, P, list),
           NEW o, o = ForkAll(n, parent, list)
    PROVE  Counted(o, exact) /\ Forked(n, o, parent, P, Listed(list))
<1> SUFFICES ASSUME \A s \in Listed(list) : parent[s] \in P,
                    \A s \in Listed(list) : s \notin P /\ Bare(n, s)
             PROVE  /\ Counted(o, exact) /\ Untouched(n, o, P \cup Listed(list))
                    /\ o.data = n.data /\ o.free = n.free
                    /\ \A s \in Listed(list) : o.table[s] = n.table[parent[s]]
                    /\ \A s \in Seqs \ Listed(list) : o.table[s] = n.table[s]
  BY DEF Born, Forked
<1> DEFINE len == Len(list)
           Next1(v, i) == Fork(v, parent[list[i]], list[i])
           F == [p \in (1 .. len) \X Managers |-> Next1(p[2], p[1])]
           Is(v, i) == /\ Counted(v, exact) /\ Untouched(n, v, P \cup Firsts(list, i))
                       /\ v.data = n.data /\ v.free = n.free
                       /\ \A s \in Firsts(list, i) : v.table[s] = n.table[parent[s]]
                       /\ \A s \in Seqs \ Firsts(list, i) : v.table[s] = n.table[s]
           Q == {p \in Nat \X Managers : Is(p[2], p[1])}
           body(g) == [i \in 0 .. len |-> IF i = 0 THEN n ELSE Next1(g[i - 1], i)]
<1>1. len \in Nat
  OBVIOUS
<1>2. <<0, n>> \in Q
  <2>1. Firsts(list, 0) = {}
    BY DEF Firsts
  <2>2. n \in Managers
    BY DEF Counted
  <2>3. Is(n, 0)
    BY <2>1, UntouchedNone
  <2> HIDE DEF Is
  <2> QED BY <2>2, <2>3
<1>3. ASSUME NEW i \in 1 .. len, NEW v, <<i - 1, v>> \in Q
      PROVE  v \in Managers /\ <<i, Next1(v, i)>> \in Q
  <2>1. v \in Managers /\ Is(v, i - 1)
    BY <1>3
  <2>2. PICK s \in Seqs : s = list[i]
    OBVIOUS
  <2>3. Firsts(list, i) = Firsts(list, i - 1) \cup {s} /\ i \in Nat
    BY <2>2, FirstsStep
  <2>4. s \notin Firsts(list, i - 1)
    BY <2>2 DEF Distinct, Firsts
  <2>5. s \in Listed(list)
    BY <1>1, <2>2 DEF Listed, Firsts
  <2>6. PICK a \in Seqs : a = parent[s] /\ a \in P /\ a # s /\ Bare(v, s)
    BY <2>1, <2>4, <2>5 DEF Bare
  <2>7. a \notin Firsts(list, i - 1)
    <3>1. \A t \in Firsts(list, i - 1) : t \in Listed(list)
      <4> SUFFICES ASSUME NEW j \in 1 .. i - 1 PROVE list[j] \in Listed(list)
        BY DEF Firsts
      <4>1. j \in 1 .. len
        BY <1>1
      <4> QED BY <4>1 DEF Listed, Firsts
    <3> QED BY <2>6, <3>1
  <2>8. PICK x : x = Fork(v, a, s)
    OBVIOUS
  <2>0. PICK T : a \in T /\ s \in T /\ T \subseteq {a, s}
    OBVIOUS
  <2>9. /\ Counted(x, exact) /\ Untouched(v, x, T)
        /\ x.data = v.data /\ x.free = v.free
        /\ x.table[s] = v.table[a]
        /\ \A t \in Seqs \ {s} : x.table[t] = v.table[t]
    <3> HIDE DEF Next1, F, Q
    <3> QED BY <2>0, <2>1, <2>6, <2>8, ForkIs
  <2>10. Untouched(n, x, P \cup Firsts(list, i))
    <3>1. PICK S, U : S = P \cup Firsts(list, i - 1) /\ U = P \cup Firsts(list, i)
      OBVIOUS
    <3>2. S \subseteq U /\ T \subseteq U /\ Untouched(n, v, S) /\ Untouched(v, x, T)
      BY <2>0, <2>1, <2>3, <2>6, <2>9, <3>1
    <3> QED BY <3>1, <3>2, UntouchedTwice
  <2>11. \A t \in Firsts(list, i) : x.table[t] = n.table[parent[t]]
    <3> SUFFICES ASSUME NEW t \in Firsts(list, i) PROVE x.table[t] = n.table[parent[t]]
      OBVIOUS
    <3>1. CASE t = s
      BY <2>1, <2>6, <2>7, <2>9, <3>1
    <3>2. CASE t # s
      <4>1. t \in Firsts(list, i - 1)
        BY <2>3, <3>2
      <4>2. t \in Seqs
        <5>1. \A j \in 1 .. i : list[j] \in Seqs
          <6> SUFFICES ASSUME NEW j \in 1 .. i PROVE list[j] \in Seqs
            OBVIOUS
          <6>1. j \in 1 .. len
            BY <1>1
          <6> QED BY <6>1
        <5> QED BY <5>1 DEF Firsts
      <4> QED BY <2>1, <2>9, <3>2, <4>1, <4>2
    <3> QED BY <3>1, <3>2
  <2>12. \A t \in Seqs \ Firsts(list, i) : x.table[t] = n.table[t]
    BY <2>1, <2>3, <2>9
  <2>13. Is(x, i) /\ x \in Managers
    BY <2>1, <2>9, <2>10, <2>11, <2>12 DEF Counted
  <2>14. Next1(v, i) = x
    BY <2>2, <2>6, <2>8
  <2> HIDE DEF Is, Next1
  <2> QED BY <2>1, <2>3, <2>13, <2>14
<1>4. \A i \in 1 .. len : \A v : <<i - 1, v>> \in Q => F[<<i, v>>] = Next1(v, i)
  <2> SUFFICES ASSUME NEW i \in 1 .. len, NEW v, <<i - 1, v>> \in Q
               PROVE  F[<<i, v>>] = Next1(v, i)
    OBVIOUS
  <2>1. <<i, v>> \in (1 .. len) \X Managers
    BY <1>3
  <2> HIDE DEF Next1
  <2> QED BY <2>1
<1> HIDE DEF F, Q, Next1, len
<1>5. \A i \in 1 .. len : \A v : <<i - 1, v>> \in Q => <<i, F[<<i, v>>]>> \in Q
  BY <1>3, <1>4
<1>6. PICK g : g = LoopBody(g, len, n, F) /\ \A i \in 0 .. len : <<i, g[i]>> \in Q
  <2>1. PICK base : base = n
    OBVIOUS
  <2>2. \E g : g = LoopBody(g, len, base, F) /\ \A i \in 0 .. len : <<i, g[i]>> \in Q
    BY <1>1, <1>2, <1>5, <2>1, LoopFixed
  <2> QED BY <2>1, <2>2
<1>7. g = body(g)
  <2> DEFINE A(i) == F[<<i, g[i - 1]>>]
             B(i) == Next1(g[i - 1], i)
  <2>1. \A i \in 0 .. len : i # 0 => A(i) = B(i)
    <3> SUFFICES ASSUME NEW i \in 0 .. len, i # 0 PROVE A(i) = B(i)
      OBVIOUS
    <3>1. i \in 1 .. len /\ i - 1 \in 0 .. len
      BY <1>1
    <3>2. <<i - 1, g[i - 1]>> \in Q
      BY <1>6, <3>1
    <3> QED BY <1>4, <3>1, <3>2
  <2> HIDE DEF A, B
  <2>2. [i \in 0 .. len |-> IF i = 0 THEN n ELSE A(i)]
          = [i \in 0 .. len |-> IF i = 0 THEN n ELSE B(i)]
    BY <2>1
  <2> QED BY <1>6, <2>2 DEF LoopBody, A, B
<1> DEFINE iter == CHOOSE h : h = body(h)
<1>8. iter = body(iter)
  BY <1>7
<1>9. ForkAll(n, parent, list) = iter[len]
  BY Zenon DEF ForkAll, len, Next1
<1> HIDE DEF iter
<1>10. iter[0] = n /\ \A i \in 1 .. len : iter[i] = Next1(iter[i - 1], i)
  <2>1. \A i \in 0 .. len : body(iter)[i] = IF i = 0 THEN n ELSE Next1(iter[i - 1], i)
    OBVIOUS
  <2>2. 0 \in 0 .. len /\ \A i \in 1 .. len : i \in 0 .. len /\ i # 0
    BY <1>1
  <2> HIDE DEF body
  <2> QED BY <1>8, <2>1, <2>2
<1>11. \A i \in 1 .. len : <<i - 1, iter[i - 1]>> \in Q => <<i, iter[i]>> \in Q
  BY <1>3, <1>10
<1>12. <<0, iter[0]>> \in Q
  BY <1>2, <1>10
<1>13. <<len, iter[len]>> \in Q
  <2>1. \A i \in 0 .. len : <<i, iter[i]>> \in Q
    BY <1>1, <1>11, <1>12, LoopKeeps
  <2>2. len \in 0 .. len
    BY <1>1
  <2> QED BY <2>1, <2>2
<1>14. Is(o, len)
  BY <1>9, <1>13 DEF Q
<1> QED BY <1>14 DEF Listed, len

\* No request without beam search is for more than one sequence: the group of such
\* a request is admitted again with references for its finished sequences, and its stage
\* is then that of a finished one.
Exactly == \A r \in Requests : r \in Beam \/ Len(SeqsOf[r]) = 1

\* The blocks of table hold the first k tokens of list, when Exactly.
Holds(n, table, list, k) ==
    Exactly => \A p \in 1 .. k :
      n.data[table[NumLogicalBlocks(p)]][(p - 1) % BlockSize] = <<list[p], p>>

\* Between two steps: blocks for all tokens but the newest, with their content.
Kept(n, s, list) ==
    /\ Len(n.table[s]) = NumLogicalBlocks(Len(list) - 1)
    /\ Holds(n, n.table[s], list, Len(list) - 1)

\* Before a step: blocks for all tokens, and what the step writes to is nobody else's.
Prepared(n, s, list, first) ==
    LET table == n.table[s]
    IN  /\ Len(table) = NumLogicalBlocks(Len(list))
        /\ IF first THEN \A b \in Listed(table) : Alone(n, b, s)
           ELSE Alone(n, table[Len(table)], s) /\ Holds(n, table, list, Len(list) - 1)

\* The block of a position.
At(table, p) == table[NumLogicalBlocks(p)]

\* Positions of a list of tokens are in the blocks of a table that is long enough, no
\* two in one slot.
LEMMA PlacesIn ==
    ASSUME NEW table \in Seq(Blocks), NEW k \in Nat, NumLogicalBlocks(k) <= Len(table),
           NEW p \in 1 .. k
    PROVE  /\ At(table, p) \in Listed(table) /\ (p - 1) % BlockSize \in Slots
           /\ \A o \in 1 .. k : /\ Distinct(table) /\ At(table, o) = At(table, p)
                                /\ (o - 1) % BlockSize = (p - 1) % BlockSize
                                => o = p
<1>1. \A o \in 1 .. k : NumLogicalBlocks(o) \in 1 .. Len(table)
  <2>1. \A o \in 1 .. k : NumLogicalBlocks(o) \in 1 .. NumLogicalBlocks(k)
    BY Places
  <2>2. NumLogicalBlocks(k) \in Nat
    BY BlocksStep
  <2> QED BY <2>1, <2>2
<1>2. At(table, p) \in Listed(table)
  BY <1>1 DEF At, Listed, Firsts
<1>3. (p - 1) % BlockSize \in Slots
  BY Places
<1>4. ASSUME NEW o \in 1 .. k, Distinct(table), At(table, o) = At(table, p),
             (o - 1) % BlockSize = (p - 1) % BlockSize
      PROVE  o = p
  <2>1. NumLogicalBlocks(o) = NumLogicalBlocks(p)
    BY <1>1, <1>4 DEF At, Distinct
  <2> QED BY <1>4, <2>1, Places
<1> QED BY <1>2, <1>3, <1>4

\* What a sequence holds, it holds while others are served.
LEMMA HoldsStays ==
    ASSUME NEW n \in Managers, NEW x, NEW S, NEW s \in Seqs \ S, Untouched(n, x, S),
           NEW list, NEW k \in Nat, NumLogicalBlocks(k) <= Len(n.table[s]),
           Holds(n, n.table[s], list, k)
    PROVE  Holds(x, x.table[s], list, k)
<1>1. x.table[s] = n.table[s] /\ \A b \in Listed(n.table[s]) : x.data[b] = n.data[b]
  BY DEF Untouched
<1>2. PICK table \in Seq(Blocks) : table = n.table[s]
  BY ManagerIs
<1>3. \A p \in 1 .. k : x.data[At(table, p)] = n.data[At(table, p)]
  BY <1>1, <1>2, PlacesIn
<1> QED BY <1>1, <1>2, <1>3 DEF Holds, At

\* A sequence keeps what it has between two steps while others are served, ...
LEMMA KeptStays ==
    ASSUME NEW n \in Managers, NEW x, NEW S, NEW s \in Seqs \ S, Untouched(n, x, S),
           NEW list \in Seq(Seqs), Len(list) > 0, Kept(n, s, list)
    PROVE  Kept(x, s, list)
<1>1. PICK k \in Nat : k = Len(list) - 1
  OBVIOUS
<1>2. Len(n.table[s]) = NumLogicalBlocks(k) /\ Holds(n, n.table[s], list, k)
  BY <1>1 DEF Kept
<1>3. NumLogicalBlocks(k) <= Len(n.table[s])
  BY <1>2, BlocksStep
<1>4. Holds(x, x.table[s], list, k)
  BY <1>2, <1>3, HoldsStays
<1>5. x.table[s] = n.table[s]
  BY DEF Untouched
<1> QED BY <1>1, <1>2, <1>4, <1>5 DEF Kept

\* ... and one that is ready for a step stays so.
LEMMA PreparedStays ==
    ASSUME NEW n \in Managers, NEW x, NEW S, NEW s \in Seqs \ S, Untouched(n, x, S),
           NEW list \in Seq(Seqs), Len(list) > 0, NEW first, Prepared(n, s, list, first)
    PROVE  Prepared(x, s, list, first)
<1>1. /\ x.table[s] = n.table[s]
      /\ \A b \in Listed(n.table[s]) : Alone(n, b, s) => Alone(x, b, s)
  BY DEF Untouched, Alone
<1>2. PICK table \in Seq(Blocks) : table = n.table[s]
  BY ManagerIs
<1>3. PICK k \in Nat : k = Len(list) - 1 /\ Len(list) = k + 1
  OBVIOUS
<1>4. Len(table) = NumLogicalBlocks(k + 1)
  BY <1>2, <1>3 DEF Prepared
<1>5. CASE first
  <2>1. \A b \in Listed(table) : Alone(n, b, s)
    BY <1>2, <1>5 DEF Prepared
  <2>2. \A b \in Listed(table) : Alone(x, b, s)
    BY <1>1, <1>2, <2>1
  <2> QED BY <1>1, <1>2, <1>3, <1>4, <1>5, <2>2 DEF Prepared
<1>6. CASE ~first
  <2>1. Alone(n, table[Len(table)], s) /\ Holds(n, table, list, k)
    <3>1. IF first THEN \A b \in Listed(n.table[s]) : Alone(n, b, s)
          ELSE /\ Alone(n, n.table[s][Len(n.table[s])], s)
               /\ Holds(n, n.table[s], list, Len(list) - 1)
      BY DEF Prepared
    <3>2. /\ Alone(n, n.table[s][Len(n.table[s])], s)
          /\ Holds(n, n.table[s], list, Len(list) - 1)
      BY <1>6, <3>1
    <3> QED BY <1>2, <1>3, <3>2
  <2>2. NumLogicalBlocks(k) <= Len(table)
    <3>1. /\ NumLogicalBlocks(k) \in Nat
          /\ NumLogicalBlocks(k + 1) \in {NumLogicalBlocks(k), NumLogicalBlocks(k) + 1}
      BY BlocksStep
    <3> QED BY <1>4, <3>1
  <2>3. Holds(x, table, list, k)
    BY <1>1, <1>2, <2>1, <2>2, HoldsStays
  <2>4. table[Len(table)] \in Listed(table)
    <3>1. Len(table) \in 1 .. Len(table)
      <4>1. PICK j \in Nat : j = k + 1 /\ j > 0
        OBVIOUS
      <4>2. NumLogicalBlocks(j) > 0
        BY <4>1, BlocksStep
      <4> QED BY <1>4, <4>1, <4>2
    <3> QED BY <3>1 DEF Listed, Firsts
  <2>5. Alone(x, table[Len(table)], s)
    BY <1>1, <1>2, <2>1, <2>4
  <2> QED BY <1>1, <1>2, <1>3, <1>4, <1>6, <2>3, <2>5 DEF Prepared
<1> QED BY <1>5, <1>6

\* The blocks of the positions of P are those of s alone.
Private(n, table, P, s) == \A p \in P : Alone(n, At(table, p), s)

\* The positions of P have their tokens, and the others what they had.
Written(n, x, table, list, k, P) ==
    \A p \in 1 .. k :
      x.data[At(table, p)][(p - 1) % BlockSize]
        = IF p \in P THEN <<list[p], p>> ELSE n.data[At(table, p)][(p - 1) % BlockSize]

\* The model writes to blocks of the sequence alone.
LEMMA WriteKVIs ==
    ASSUME NEW n, NEW exact, Counted(n, exact), NEW s \in Seqs, NEW table, table = n.table[s],
           NEW k \in Nat, k <= MaxTokens, NEW list, list = tokens[s], list \in [1 .. k -> Seqs],
           Len(table) = NumLogicalBlocks(k),
           NEW P \in SUBSET (1 .. k), Private(n, table, P, s),
           NEW x, x = WriteKV(n, s, P), NEW S, s \in S
    PROVE  /\ Counted(x, exact) /\ Untouched(n, x, S)
           /\ x.table = n.table /\ x.free = n.free
           /\ Written(n, x, table, list, k, P)
<1> DEFINE Slot(p) == (p - 1) % BlockSize
           Writers(b, i) == {p \in P : At(table, p) = b /\ Slot(p) = i}
           Newest(b, i) == Max(Writers(b, i))
           Hit(b, i) == \E p \in P : At(table, p) = b /\ Slot(p) = i
<1>1. n \in Managers /\ table \in Seq(Blocks) /\ Distinct(table)
  BY ManagerIs DEF Counted
<1>2. NumLogicalBlocks(k) <= Len(table)
  BY BlocksStep
<1>3. \A p \in 1 .. k : /\ At(table, p) \in Listed(table) /\ Slot(p) \in Slots
                        /\ \A o \in 1 .. k : At(table, o) = At(table, p) /\ Slot(o) = Slot(p) => o = p
  BY <1>1, <1>2, PlacesIn
<1> HIDE DEF Slot
<1>4. \A p \in P : Newest(At(table, p), Slot(p)) = p
  <2> SUFFICES ASSUME NEW p \in P PROVE Newest(At(table, p), Slot(p)) = p
    OBVIOUS
  <2>1. Writers(At(table, p), Slot(p)) = {p}
    BY <1>3
  <2>2. p \in {p} /\ \A y \in {p} : p >= y
    <3>1. p \in 1 .. k /\ p \in Int
      OBVIOUS
    <3>2. p >= p
      BY <3>1
    <3> QED BY <3>2
  <2> QED BY <2>1, <2>2 DEF Max
<1>5. /\ x.free = n.free /\ x.refs = n.refs /\ x.table = n.table
      /\ x.data = [b \in Blocks |-> [i \in Slots |-> IF Hit(b, i)
                                                    THEN <<list[Newest(b, i)], Newest(b, i)>>
                                                    ELSE n.data[b][i]]]
      /\ x = [free |-> x.free, refs |-> x.refs, table |-> x.table, data |-> x.data]
  BY <1>1 DEF WriteKV, Managers, At, Slot
<1> HIDE DEF Newest, Hit
<1>6. \A b, i : Hit(b, i) => \E p \in P : Newest(b, i) = p /\ At(table, p) = b /\ Slot(p) = i
  BY <1>4 DEF Hit
<1>7. x.data \in [Blocks -> [Slots -> Cells]]
  <2> SUFFICES ASSUME NEW b \in Blocks, NEW i \in Slots
               PROVE  (IF Hit(b, i) THEN <<list[Newest(b, i)], Newest(b, i)>> ELSE n.data[b][i]) \in Cells
    BY <1>5
  <2>1. CASE Hit(b, i)
    <3>1. PICK p \in P : Newest(b, i) = p
      BY <1>6, <2>1
    <3>2. list[p] \in Seqs /\ p \in 1 .. MaxTokens
      <4>1. p \in 1 .. k /\ MaxTokens \in Nat
        BY V1Assumption
      <4>2. list[p] \in Seqs
        BY <4>1
      <4>3. p \in 1 .. MaxTokens
        BY <4>1
      <4> QED BY <4>2, <4>3
    <3> QED BY <2>1, <3>1, <3>2 DEF Cells
  <2>2. CASE ~Hit(b, i)
    BY <1>1, <2>2, ManagerIs
  <2> QED BY <2>1, <2>2
<1>8. x \in Managers
  BY <1>1, <1>5, <1>7, ManagerIs DEF Managers
<1>9. \A b : Owners(x, b) = Owners(n, b)
  BY <1>5 DEF Owners
<1>10. Counted(x, exact)
  BY <1>5, <1>8, <1>9 DEF Counted
<1>11. \A p \in 1 .. k : x.data[At(table, p)][Slot(p)]
                = IF p \in P THEN <<list[p], p>> ELSE n.data[At(table, p)][Slot(p)]
  <2> SUFFICES ASSUME NEW p \in 1 .. k
               PROVE  x.data[At(table, p)][Slot(p)]
                        = IF p \in P THEN <<list[p], p>> ELSE n.data[At(table, p)][Slot(p)]
    OBVIOUS
  <2>1. PICK b \in Blocks, i \in Slots : b = At(table, p) /\ i = Slot(p)
    BY <1>1, <1>3, ListedIs
  <2>2. x.data[b][i] = IF Hit(b, i) THEN <<list[Newest(b, i)], Newest(b, i)>> ELSE n.data[b][i]
    BY <1>5
  <2>3. Hit(b, i) <=> p \in P
    BY <1>3, <2>1 DEF Hit
  <2>4. p \in P => Newest(b, i) = p
    BY <1>4, <2>1
  <2> QED BY <2>1, <2>2, <2>3, <2>4
<1>12. Untouched(n, x, S)
  <2> SUFFICES ASSUME NEW t \in Seqs \ S, NEW b \in Listed(n.table[t])
               PROVE  x.data[b] = n.data[b]
    BY <1>5, <1>9 DEF Untouched
  <2>1. b \in Blocks /\ t \in Owners(n, b) /\ t # s
    BY InUse
  <2>2. \A i : ~Hit(b, i)
    BY <2>1 DEF Hit, Alone, Private
  <2>3. x.data[b] = [i \in Slots |-> n.data[b][i]]
    BY <1>5, <2>1, <2>2
  <2> QED BY <1>1, <2>1, <2>3, ManagerIs
<1> QED BY <1>5, <1>10, <1>11, <1>12 DEF Slot, Written

\* The model runs on the sequences of a batch: each holds all of its tokens then.
LEMMA ExecuteIs ==
    ASSUME NEW r, NEW list, list = SeqsIn(r, "running"), list \in Seq(Seqs), Distinct(list),
           NEW exact, Counted(m, exact),
           \A s \in Listed(list) :
             /\ tokens[s] \in Seq(Seqs) /\ Len(tokens[s]) \in 1 .. MaxTokens
             /\ Prepared(m, s, tokens[s], s \in prefill)
             /\ IsPrefill(r) => s \in prefill
             /\ Exactly /\ s \in prefill => IsPrefill(r),
           NEW o, o = Execute(r)
    PROVE  /\ Counted(o, exact) /\ Untouched(m, o, Listed(list))
           /\ o.table = m.table /\ o.free = m.free
           /\ \A s \in Listed(list) : Holds(o, m.table[s], tokens[s], Len(tokens[s]))
<1> DEFINE len == Len(list)
           Next1(v, i) == WriteKV(v, list[i], Positions(r, list[i]))
           F == [p \in (1 .. len) \X Managers |-> Next1(p[2], p[1])]
           Is(v, i) == /\ Counted(v, exact) /\ Untouched(m, v, Firsts(list, i))
                       /\ v.table = m.table /\ v.free = m.free
                       /\ \A s \in Firsts(list, i) : Holds(v, m.table[s], tokens[s], Len(tokens[s]))
           Q == {p \in Nat \X Managers : Is(p[2], p[1])}
           body(g) == [i \in 0 .. len |-> IF i = 0 THEN m ELSE Next1(g[i - 1], i)]
<1>1. len \in Nat
  OBVIOUS
<1>2. <<0, m>> \in Q
  <2>1. Firsts(list, 0) = {}
    BY DEF Firsts
  <2>2. m \in Managers
    BY DEF Counted
  <2>3. Is(m, 0)
    BY <2>1, UntouchedNone
  <2> HIDE DEF Is
  <2> QED BY <2>2, <2>3
<1>3. ASSUME NEW i \in 1 .. len, NEW v, <<i - 1, v>> \in Q
      PROVE  v \in Managers /\ <<i, Next1(v, i)>> \in Q
  <2>1. v \in Managers /\ Is(v, i - 1)
    BY <1>3
  <2>2. PICK s \in Seqs : s = list[i]
    OBVIOUS
  <2>3. Firsts(list, i) = Firsts(list, i - 1) \cup {s} /\ i \in Nat
    BY <2>2, FirstsStep
  <2>4. s \notin Firsts(list, i - 1)
    BY <2>2 DEF Distinct, Firsts
  <2>5. s \in Listed(list)
    BY <1>1, <2>2 DEF Listed, Firsts
  <2>6. PICK ts \in Seq(Seqs), k \in Nat : /\ ts = tokens[s] /\ k = Len(ts) /\ k > 0
                                           /\ k <= MaxTokens
    <3>1. tokens[s] \in Seq(Seqs) /\ Len(tokens[s]) \in 1 .. MaxTokens
      BY <2>5
    <3>2. MaxTokens \in Nat
      BY V1Assumption
    <3> QED BY <3>1, <3>2
  <2>7. PICK first : first = (s \in prefill)
    OBVIOUS
  <2>8. Prepared(m, s, ts, first)
    BY <2>5, <2>6, <2>7
  <2>9. Prepared(v, s, ts, first)
    <3>1. m \in Managers /\ s \in Seqs \ Firsts(list, i - 1) /\ Untouched(m, v, Firsts(list, i - 1))
      BY <2>1, <2>4 DEF Counted
    <3> HIDE DEF Is
    <3> QED BY <2>6, <2>8, <3>1, PreparedStays
  <2>10. PICK table : table = v.table[s]
    OBVIOUS
  <2>11. table \in Seq(Blocks) /\ table = m.table[s] /\ Len(table) = NumLogicalBlocks(k)
    BY <2>1, <2>6, <2>9, <2>10, ManagerIs DEF Prepared
  <2>12. PICK P : P = Positions(r, s)
    OBVIOUS
  <2>25. PICK whole : whole = IsPrefill(r)
    OBVIOUS
  <2>26. (whole => first) /\ (Exactly /\ first => whole)
    BY <2>5, <2>7, <2>25
  <2>13. IF whole THEN P = 1 .. k ELSE P = {k}
    <3>1. DOMAIN ts = 1 .. k
      BY <2>6
    <3> QED BY <2>6, <2>12, <2>25, <3>1 DEF Positions
  <2>14. P \in SUBSET (1 .. k) /\ \A p \in 1 .. k : p \in P \/ (~whole /\ p <= k - 1)
    BY <2>6, <2>13
  <2>15. Private(v, table, P, s)
    <3>1. CASE first
      <4>1. \A b \in Listed(table) : Alone(v, b, s)
        BY <2>9, <2>10, <3>1 DEF Prepared
      <4>2. NumLogicalBlocks(k) <= Len(table)
        BY <2>11, BlocksStep
      <4>3. \A p \in P : At(table, p) \in Listed(table)
        BY <2>11, <2>14, <4>2, PlacesIn
      <4> QED BY <4>1, <4>3 DEF Private
    <3>2. CASE ~first
      <4>1. Alone(v, table[Len(table)], s)
        <5>1. IF first THEN \A b \in Listed(v.table[s]) : Alone(v, b, s)
              ELSE /\ Alone(v, v.table[s][Len(v.table[s])], s)
                   /\ Holds(v, v.table[s], ts, Len(ts) - 1)
          BY <2>9 DEF Prepared
        <5>2. Alone(v, v.table[s][Len(v.table[s])], s)
          BY <3>2, <5>1
        <5> QED BY <2>10, <5>2
      <4>2. \A p \in P : p = k
        BY <2>13, <2>26, <3>2
      <4> QED BY <2>11, <4>1, <4>2 DEF At, Private
    <3> QED BY <3>1, <3>2
  <2>16. ts \in [1 .. k -> Seqs]
    BY <2>6
  <2>24. PICK x, S : x = WriteKV(v, s, P) /\ S = {s}
    OBVIOUS
  <2>17. x = WriteKV(v, s, P) /\ s \in S /\ S \subseteq Firsts(list, i) /\ \A t \in S : t = s
    BY <2>3, <2>24
  <2>18. /\ Counted(x, exact) /\ Untouched(v, x, S)
         /\ x.table = v.table /\ x.free = v.free
         /\ Written(v, x, table, ts, k, P)
    <3>1. /\ Counted(v, exact) /\ table = v.table[s] /\ k <= MaxTokens /\ ts = tokens[s]
          /\ ts \in [1 .. k -> Seqs] /\ Len(table) = NumLogicalBlocks(k)
          /\ P \in SUBSET (1 .. k) /\ Private(v, table, P, s)
          /\ x = WriteKV(v, s, P) /\ s \in S
      BY <2>1, <2>6, <2>10, <2>11, <2>14, <2>15, <2>16, <2>17
    <3> HIDE DEF Is, Next1, F, Q, len
    <3> QED BY <3>1, WriteKVIs
  <2>19. Holds(x, table, ts, k)
    <3> SUFFICES ASSUME Exactly, NEW p \in 1 .. k
                 PROVE  x.data[At(table, p)][(p - 1) % BlockSize] = <<ts[p], p>>
      BY DEF Holds, At
    <3>1. CASE p \in P
      BY <2>18, <3>1 DEF Written
    <3>2. CASE p \notin P
      <4>1. ~first /\ p \in 1 .. k - 1
        BY <2>14, <2>26, <3>2
      <4>2. Holds(v, v.table[s], ts, k - 1)
        <5>1. IF first THEN \A b \in Listed(v.table[s]) : Alone(v, b, s)
              ELSE /\ Alone(v, v.table[s][Len(v.table[s])], s)
                   /\ Holds(v, v.table[s], ts, Len(ts) - 1)
          BY <2>9 DEF Prepared
        <5> QED BY <2>6, <4>1, <5>1
      <4>3. v.data[At(table, p)][(p - 1) % BlockSize] = <<ts[p], p>>
        BY <2>10, <4>1, <4>2 DEF Holds, At
      <4> QED BY <2>18, <3>2, <4>3 DEF Written
    <3> QED BY <3>1, <3>2
  <2>20. Untouched(m, x, Firsts(list, i))
    <3>1. PICK T, U : T = Firsts(list, i - 1) /\ U = Firsts(list, i)
      OBVIOUS
    <3>2. T \subseteq U /\ S \subseteq U /\ Untouched(m, v, T) /\ Untouched(v, x, S)
      BY <2>1, <2>3, <2>17, <2>18, <3>1
    <3> QED BY <3>1, <3>2, UntouchedTwice
  <2>21. \A t \in Firsts(list, i - 1) : Holds(x, m.table[t], tokens[t], Len(tokens[t]))
    <3> SUFFICES ASSUME NEW t \in Firsts(list, i - 1)
                 PROVE  Holds(x, m.table[t], tokens[t], Len(tokens[t]))
      OBVIOUS
    <3>1. t \in Listed(list) /\ t \in Seqs \ S
      <4>1. PICK j \in 1 .. i - 1 : t = list[j]
        BY DEF Firsts
      <4>2. j \in 1 .. len
        BY <1>1
      <4> QED BY <2>4, <2>17, <4>1, <4>2 DEF Listed, Firsts
    <3>2. PICK us \in Seq(Seqs), j \in Nat : us = tokens[t] /\ j = Len(us)
      BY <3>1
    <3>3. NumLogicalBlocks(j) <= Len(v.table[t])
      <4>1. Len(m.table[t]) = NumLogicalBlocks(j) /\ v.table[t] = m.table[t]
        BY <2>1, <3>1, <3>2 DEF Prepared
      <4>2. NumLogicalBlocks(j) \in Nat
        BY BlocksStep
      <4> QED BY <4>1, <4>2
    <3>4. Holds(v, v.table[t], us, j) /\ Untouched(v, x, S)
      BY <2>1, <2>18, <3>2
    <3>5. Holds(x, x.table[t], us, j)
      <4> HIDE DEF Is, Next1, F, Q, len
      <4> QED BY <2>1, <3>1, <3>3, <3>4, HoldsStays
    <3>6. x.table[t] = m.table[t]
      BY <2>1, <2>18
    <3> QED BY <3>2, <3>5, <3>6
  <2>22. Is(x, i) /\ x \in Managers
    BY <2>1, <2>3, <2>6, <2>11, <2>18, <2>19, <2>20, <2>21 DEF Counted
  <2>23. Next1(v, i) = x
    BY <2>2, <2>12, <2>17
  <2> HIDE DEF Is, Next1
  <2> QED BY <2>1, <2>3, <2>22, <2>23
<1>4. \A i \in 1 .. len : \A v : <<i - 1, v>> \in Q => F[<<i, v>>] = Next1(v, i)
  <2> SUFFICES ASSUME NEW i \in 1 .. len, NEW v, <<i - 1, v>> \in Q
               PROVE  F[<<i, v>>] = Next1(v, i)
    OBVIOUS
  <2>1. <<i, v>> \in (1 .. len) \X Managers
    BY <1>3
  <2> HIDE DEF Next1
  <2> QED BY <2>1
<1> HIDE DEF F, Q, Next1, len
<1>5. \A i \in 1 .. len : \A v : <<i - 1, v>> \in Q => <<i, F[<<i, v>>]>> \in Q
  BY <1>3, <1>4
<1>6. PICK g : g = LoopBody(g, len, m, F) /\ \A i \in 0 .. len : <<i, g[i]>> \in Q
  BY <1>1, <1>2, <1>5, LoopFixed
<1>7. g = body(g)
  <2> DEFINE A(i) == F[<<i, g[i - 1]>>]
             B(i) == Next1(g[i - 1], i)
  <2>1. \A i \in 0 .. len : i # 0 => A(i) = B(i)
    <3> SUFFICES ASSUME NEW i \in 0 .. len, i # 0 PROVE A(i) = B(i)
      OBVIOUS
    <3>1. i \in 1 .. len /\ i - 1 \in 0 .. len
      BY <1>1
    <3>2. <<i - 1, g[i - 1]>> \in Q
      BY <1>6, <3>1
    <3> QED BY <1>4, <3>1, <3>2
  <2> HIDE DEF A, B
  <2>2. [i \in 0 .. len |-> IF i = 0 THEN m ELSE A(i)]
          = [i \in 0 .. len |-> IF i = 0 THEN m ELSE B(i)]
    BY <2>1
  <2> QED BY <1>6, <2>2 DEF LoopBody, A, B
<1> DEFINE iter == CHOOSE h : h = body(h)
<1>8. iter = body(iter)
  BY <1>7
<1>9. Execute(r) = iter[len]
  BY Zenon DEF Execute, len, Next1
<1> HIDE DEF iter
<1>10. iter[0] = m /\ \A i \in 1 .. len : iter[i] = Next1(iter[i - 1], i)
  <2>1. \A i \in 0 .. len : body(iter)[i] = IF i = 0 THEN m ELSE Next1(iter[i - 1], i)
    OBVIOUS
  <2>2. 0 \in 0 .. len /\ \A i \in 1 .. len : i \in 0 .. len /\ i # 0
    BY <1>1
  <2> HIDE DEF body
  <2> QED BY <1>8, <2>1, <2>2
<1>11. \A i \in 1 .. len : <<i - 1, iter[i - 1]>> \in Q => <<i, iter[i]>> \in Q
  BY <1>3, <1>10
<1>12. <<0, iter[0]>> \in Q
  BY <1>2, <1>10
<1>13. <<len, iter[len]>> \in Q
  <2>1. \A i \in 0 .. len : <<i, iter[i]>> \in Q
    BY <1>1, <1>11, <1>12, LoopKeeps
  <2>2. len \in 0 .. len
    BY <1>1
  <2> QED BY <2>1, <2>2
<1>14. Is(o, len)
  BY <1>9, <1>13 DEF Q
<1> QED BY <1>14 DEF Listed, len

\* The blocks of the sequences of G, and how many of G have one.
Together(n, G) == UNION {Listed(n.table[s]) : s \in G}
Shared(n, b, G) == Cardinality(Owners(n, b) \cap G)

\* Some of the owners of a block are no more than all.
LEMMA SharedIs ==
    ASSUME NEW n, NEW b, NEW G
    PROVE  /\ Shared(n, b, G) \in Nat /\ Shared(n, b, G) <= Cardinality(Owners(n, b))
           /\ Cardinality(Owners(n, b) \ G) = Cardinality(Owners(n, b)) - Shared(n, b, G)
           /\ Shared(n, b, G) = 0 => Owners(n, b) \cap G = {}
<1>1. IsFiniteSet(Owners(n, b))
  BY OwnersFinite
<1>2. /\ IsFiniteSet(Owners(n, b) \cap G)
      /\ Cardinality(Owners(n, b) \cap G) <= Cardinality(Owners(n, b))
  BY <1>1, FS_Intersection
<1>3. Cardinality(Owners(n, b) \ G) = Cardinality(Owners(n, b)) - Cardinality(Owners(n, b) \cap G)
  BY <1>1, FS_Difference
<1>4. Cardinality(Owners(n, b) \cap G) \in Nat
  BY <1>2, FS_CardinalityType
<1>5. Cardinality(Owners(n, b) \cap G) = 0 => Owners(n, b) \cap G = {}
  BY <1>2, FS_EmptySet
<1> QED BY <1>2, <1>3, <1>4, <1>5 DEF Shared

\* A block occurs once in the table of each of its owners.
LEMMA OccurrencesIs ==
    ASSUME NEW n, NEW exact, Counted(n, exact), NEW list \in Seq(Seqs), NEW G, G = Listed(list),
           NEW b
    PROVE  Occurrences(n, list, b) = Shared(n, b, G)
<1>1. ToSet(list) = G /\ G \subseteq Seqs
  BY ListedIs
<1>2. \A s \in G : n.table[s] \in Seq(Blocks) /\ Distinct(n.table[s])
                     /\ DOMAIN n.table[s] = 1 .. Len(n.table[s])
  <2>1. n \in Managers /\ \A s \in Seqs : Distinct(n.table[s])
    BY DEF Counted
  <2>2. \A s \in Seqs : n.table[s] \in Seq(Blocks)
    BY <2>1, ManagerIs
  <2>3. \A s \in Seqs : DOMAIN n.table[s] = 1 .. Len(n.table[s])
    BY <2>2
  <2> QED BY <1>1, <2>1, <2>2, <2>3
<1> DEFINE A == {place \in UNION {{s} \X DOMAIN n.table[s] : s \in G} :
                   n.table[place[1]][place[2]] = b}
           B == Owners(n, b) \cap G
           at(s) == CHOOSE i \in 1 .. Len(n.table[s]) : n.table[s][i] = b
           g == [s \in B |-> <<s, at(s)>>]
<1>3. \A s \in B : \E i \in 1 .. Len(n.table[s]) : n.table[s][i] = b
  BY DEF Owners, Listed, Firsts
<1>4. \A s \in B : at(s) \in 1 .. Len(n.table[s]) /\ n.table[s][at(s)] = b
  BY <1>3
<1> HIDE DEF at
<1>5. \A s \in B : g[s] \in A
  <2> SUFFICES ASSUME NEW s \in B PROVE g[s] \in A
    OBVIOUS
  <2>1. PICK i \in 1 .. Len(n.table[s]) : g[s] = <<s, i>> /\ n.table[s][i] = b
    <3>1. g[s] = <<s, at(s)>>
      OBVIOUS
    <3> HIDE DEF g
    <3> QED BY <1>4, <3>1
  <2>2. <<s, i>> \in {s} \X DOMAIN n.table[s]
    BY <1>2
  <2>3. <<s, i>>[1] = s /\ <<s, i>>[2] = i
    OBVIOUS
  <2> HIDE DEF g
  <2> QED BY <2>1, <2>2, <2>3
<1>6. \A s, t \in B : g[s] = g[t] => s = t
  <2> SUFFICES ASSUME NEW s \in B, NEW t \in B, g[s] = g[t] PROVE s = t
    OBVIOUS
  <2>1. g[s] = <<s, at(s)>> /\ g[t] = <<t, at(t)>>
    OBVIOUS
  <2>2. <<s, at(s)>>[1] = s /\ <<t, at(t)>>[1] = t
    OBVIOUS
  <2> HIDE DEF g
  <2> QED BY <2>1, <2>2
<1>7. \A a \in A : \E s \in B : g[s] = a
  <2> SUFFICES ASSUME NEW a \in A PROVE \E s \in B : g[s] = a
    OBVIOUS
  <2>4. PICK s \in G : a \in {s} \X DOMAIN n.table[s]
    OBVIOUS
  <2>0. PICK i \in DOMAIN n.table[s] : a = <<s, i>> /\ n.table[s][i] = b
    BY <2>4
  <2>1. i \in 1 .. Len(n.table[s])
    BY <1>2
  <2>2. s \in B
    BY <1>1, <2>0, <2>1 DEF Owners, Listed, Firsts
  <2>3. at(s) = i
    BY <1>2, <1>4, <2>0, <2>1, <2>2 DEF Distinct
  <2> QED BY <2>0, <2>2, <2>3
<1>8. DOMAIN g = B
  OBVIOUS
<1> HIDE DEF g, A, B
<1>9. \E h : h \in [B -> A] /\ (\A s, t \in B : h[s] = h[t] => s = t) /\ \A a \in A : \E s \in B : h[s] = a
  <2>1. g \in [B -> A]
    BY <1>5, <1>8 DEF g
  <2> QED BY <2>1, <1>6, <1>7
<1>10. ExistsBijection(B, A)
  <2>1. PICK h : /\ h \in [B -> A] /\ \A s, t \in B : h[s] = h[t] => s = t
                 /\ \A a \in A : \E s \in B : h[s] = a
    BY <1>9
  <2>2. h \in Bijection(B, A)
    BY <2>1 DEF Bijection, Injection, Surjection, IsInjective
  <2> QED BY <2>2 DEF ExistsBijection
<1>11. IsFiniteSet(B)
  <2>1. IsFiniteSet(Owners(n, b))
    BY OwnersFinite
  <2> QED BY <2>1, FS_Intersection DEF B
<1>12. Cardinality(A) = Cardinality(B)
  BY <1>10, <1>11, FS_Bijection
<1> QED BY <1>1, <1>12 DEF A, B, Occurrences, Shared

\* x is n with the blocks O of the sequences of G moved to the blocks f gives.
Swapped(n, x, G, O, f) ==
    /\ x \in Managers
    /\ \A b \in O : /\ f[b] \in n.free
                    /\ \A c \in O : f[b] = f[c] => b = c
                    /\ x.refs[f[b]] = Shared(n, b, G) /\ f[b] \notin x.free /\ x.data[f[b]] = n.data[b]
                    /\ x.refs[b] = n.refs[b] - Shared(n, b, G)
                    /\ b \in x.free <=> n.refs[b] = Shared(n, b, G)
                    /\ n.refs[b] # Shared(n, b, G) => x.data[b] = n.data[b]
    /\ \A c \in Blocks : c \notin O /\ (\A b \in O : f[b] # c) =>
         x.refs[c] = n.refs[c] /\ (c \in x.free <=> c \in n.free) /\ x.data[c] = n.data[c]
    /\ \A s \in G : /\ Len(x.table[s]) = Len(n.table[s])
                    /\ \A i \in 1 .. Len(n.table[s]) : x.table[s][i] = f[n.table[s][i]]
    /\ \A t \in Seqs \ G : x.table[t] = n.table[t]

\* The same number of blocks, on the device, with the same content.
Carried(n, x, s, pool) ==
    /\ Len(x.table[s]) = Len(n.table[s]) /\ Listed(x.table[s]) \subseteq pool
    /\ \A i \in 1 .. Len(n.table[s]) : x.data[x.table[s][i]] = n.data[n.table[s][i]]

\* Who has which block after a swap.
LEMMA SwappedOwners ==
    ASSUME NEW n, NEW exact, Counted(n, exact), NEW G \in SUBSET Seqs, NEW O, O = Together(n, G),
           NEW f, NEW x, Swapped(n, x, G, O, f)
    PROVE  /\ \A b \in O : Owners(x, f[b]) = Owners(n, b) \cap G
           /\ \A b \in O : Owners(x, b) = Owners(n, b) \ G
           /\ \A c \in Blocks : c \notin O /\ (\A b \in O : f[b] # c) => Owners(x, c) = Owners(n, c)
           /\ \A s \in G : Distinct(x.table[s])
<1>1. n \in Managers /\ \A s \in Seqs : Distinct(n.table[s])
  BY DEF Counted
<1>2. \A b \in O : f[b] \in n.free /\ \A c \in O : f[b] = f[c] => b = c
  BY DEF Swapped
<1>3. \A s \in G : /\ Len(x.table[s]) = Len(n.table[s])
                   /\ \A i \in 1 .. Len(n.table[s]) : x.table[s][i] = f[n.table[s][i]]
  BY DEF Swapped
<1>4. \A t \in Seqs \ G : x.table[t] = n.table[t]
  BY DEF Swapped
<1>5. \A s \in G : \A b \in Listed(n.table[s]) : b \in O
  BY DEF Together
<1>6. \A s \in G : \A i \in 1 .. Len(n.table[s]) : n.table[s][i] \in Listed(n.table[s])
  BY DEF Listed, Firsts
<1>7. \A s \in G : \A b \in O : f[b] \in Listed(x.table[s]) <=> b \in Listed(n.table[s])
  <2> SUFFICES ASSUME NEW s \in G, NEW b \in O
               PROVE  f[b] \in Listed(x.table[s]) <=> b \in Listed(n.table[s])
    OBVIOUS
  <2>1. ASSUME b \in Listed(n.table[s]) PROVE f[b] \in Listed(x.table[s])
    BY <1>3, <2>1 DEF Listed, Firsts
  <2>2. ASSUME f[b] \in Listed(x.table[s]) PROVE b \in Listed(n.table[s])
    <3>1. PICK i \in 1 .. Len(n.table[s]) : f[b] = f[n.table[s][i]]
      BY <1>3, <2>2 DEF Listed, Firsts
    <3> QED BY <1>2, <1>5, <1>6, <3>1
  <2> QED BY <2>1, <2>2
<1>8. \A s \in G : \A c \in Listed(x.table[s]) : \E b \in O : c = f[b]
  <2> SUFFICES ASSUME NEW s \in G, NEW c \in Listed(x.table[s]) PROVE \E b \in O : c = f[b]
    OBVIOUS
  <2>1. PICK i \in 1 .. Len(n.table[s]) : c = f[n.table[s][i]]
    BY <1>3 DEF Listed, Firsts
  <2> QED BY <1>5, <1>6, <2>1
<1>9. \A b \in O : f[b] \notin O /\ \A t \in Seqs : f[b] \notin Listed(n.table[t])
  <2>1. \A t \in Seqs : \A c \in Listed(n.table[t]) : c \notin n.free
    BY InUse
  <2>2. \A c \in O : \E t \in Seqs : c \in Listed(n.table[t])
    BY DEF Together
  <2> QED BY <1>2, <2>1, <2>2
<1>10. ASSUME NEW b \in O PROVE Owners(x, f[b]) = Owners(n, b) \cap G
  <2> SUFFICES ASSUME NEW s \in Seqs
               PROVE  f[b] \in Listed(x.table[s]) <=> s \in G /\ b \in Listed(n.table[s])
    BY DEF Owners
  <2> QED BY <1>4, <1>7, <1>9
<1>11. ASSUME NEW b \in O PROVE Owners(x, b) = Owners(n, b) \ G
  <2> SUFFICES ASSUME NEW s \in Seqs
               PROVE  b \in Listed(x.table[s]) <=> s \notin G /\ b \in Listed(n.table[s])
    BY DEF Owners
  <2>1. s \in G => b \notin Listed(x.table[s])
    BY <1>8, <1>9
  <2> QED BY <1>4, <2>1
<1>12. ASSUME NEW c \in Blocks, c \notin O, \A b \in O : f[b] # c PROVE Owners(x, c) = Owners(n, c)
  <2> SUFFICES ASSUME NEW s \in Seqs
               PROVE  c \in Listed(x.table[s]) <=> c \in Listed(n.table[s])
    BY DEF Owners
  <2>1. s \in G => c \notin Listed(x.table[s]) /\ c \notin Listed(n.table[s])
    BY <1>5, <1>8, <1>12
  <2> QED BY <1>4, <2>1
<1>13. ASSUME NEW s \in G PROVE Distinct(x.table[s])
  <2> SUFFICES ASSUME NEW i \in 1 .. Len(n.table[s]), NEW j \in 1 .. Len(n.table[s]),
                      x.table[s][i] = x.table[s][j]
               PROVE  i = j
    BY <1>3 DEF Distinct
  <2>1. n.table[s][i] = n.table[s][j]
    BY <1>2, <1>3, <1>5, <1>6
  <2> QED BY <1>1, <2>1 DEF Distinct
<1> QED BY <1>10, <1>11, <1>12, <1>13

\* The counts stay right through a swap, and nobody else notices.
LEMMA SwappedIs ==
    ASSUME NEW n, NEW exact, Counted(n, exact), NEW G \in SUBSET Seqs, NEW O, O = Together(n, G),
           NEW f, NEW x, Swapped(n, x, G, O, f), NEW pool, \A b \in O : f[b] \in pool
    PROVE  Counted(x, exact) /\ Untouched(n, x, G) /\ \A s \in G : Carried(n, x, s, pool)
<1>1. n \in Managers /\ \A s \in Seqs : Distinct(n.table[s])
  BY DEF Counted
<1>2. /\ \A b \in O : Owners(x, f[b]) = Owners(n, b) \cap G
      /\ \A b \in O : Owners(x, b) = Owners(n, b) \ G
      /\ \A c \in Blocks : c \notin O /\ (\A b \in O : f[b] # c) => Owners(x, c) = Owners(n, c)
      /\ \A s \in G : Distinct(x.table[s])
  BY SwappedOwners
<1>3. \A b \in O : b \in Blocks /\ \E s \in G : s \in Owners(n, b)
  <2>1. \A s \in G : \A b \in Listed(n.table[s]) : b \in Blocks /\ s \in Owners(n, b)
    BY InUse
  <2> QED BY <2>1 DEF Together
<1>4. \A t \in Seqs \ G : x.table[t] = n.table[t]
  BY DEF Swapped
<1>5. ASSUME NEW c \in Blocks
      PROVE  /\ Cardinality(Owners(x, c)) <= x.refs[c]
             /\ exact => x.refs[c] = Cardinality(Owners(x, c))
             /\ c \in x.free <=> x.refs[c] = 0
  <2>1. /\ Cardinality(Owners(n, c)) <= n.refs[c]
        /\ exact => n.refs[c] = Cardinality(Owners(n, c))
        /\ c \in n.free <=> n.refs[c] = 0
        /\ n.refs[c] \in Nat
    BY <1>1, ManagerIs DEF Counted
  <2>2. Cardinality(Owners(n, c)) \in Nat
    BY OwnersFinite
  <2>3. CASE c \in O
    <3>1. /\ x.refs[c] = n.refs[c] - Shared(n, c, G)
          /\ c \in x.free <=> n.refs[c] = Shared(n, c, G)
      BY <2>3 DEF Swapped
    <3>2. /\ Shared(n, c, G) \in Nat /\ Shared(n, c, G) <= Cardinality(Owners(n, c))
          /\ Cardinality(Owners(n, c) \ G) = Cardinality(Owners(n, c)) - Shared(n, c, G)
      BY SharedIs
    <3>3. Cardinality(Owners(x, c)) = Cardinality(Owners(n, c)) - Shared(n, c, G)
      BY <1>2, <2>3, <3>2
    <3> QED BY <2>1, <2>2, <3>1, <3>2, <3>3
  <2>4. CASE \E b \in O : f[b] = c
    <3>1. PICK b \in O : f[b] = c
      BY <2>4
    <3>2. x.refs[c] = Shared(n, b, G) /\ c \notin x.free
      BY <3>1 DEF Swapped
    <3>3. Shared(n, b, G) \in Nat /\ Shared(n, b, G) # 0
      BY <1>3, SharedIs
    <3>4. Cardinality(Owners(x, c)) = Shared(n, b, G)
      BY <1>2, <3>1 DEF Shared
    <3> QED BY <3>2, <3>3, <3>4
  <2>5. CASE c \notin O /\ \A b \in O : f[b] # c
    <3>1. Owners(x, c) = Owners(n, c)
      BY <1>2, <2>5
    <3>2. x.refs[c] = n.refs[c] /\ (c \in x.free <=> c \in n.free)
      BY <2>5 DEF Swapped
    <3> QED BY <2>1, <3>1, <3>2
  <2> QED BY <2>3, <2>4, <2>5
<1>6. \A t \in Seqs : Distinct(x.table[t])
  BY <1>1, <1>2, <1>4
<1>7. x \in Managers
  BY DEF Swapped
<1>8. Counted(x, exact)
  BY <1>5, <1>6, <1>7 DEF Counted
<1>9. ASSUME NEW t \in Seqs \ G, NEW b \in Listed(n.table[t])
      PROVE  /\ x.data[b] = n.data[b]
             /\ Owners(n, b) = {t} => Owners(x, b) = {t}
  <2>1. b \in Blocks /\ t \in Owners(n, b) /\ b \notin n.free
    BY InUse
  <2>2. \A c \in O : f[c] # b
    BY <2>1 DEF Swapped
  <2>3. CASE b \notin O
    <3>1. Owners(x, b) = Owners(n, b)
      BY <1>2, <2>1, <2>2, <2>3
    <3>2. x.data[b] = n.data[b]
      BY <2>1, <2>2, <2>3 DEF Swapped
    <3> QED BY <3>1, <3>2
  <2>4. CASE b \in O
    <3>1. Owners(n, b) # {t}
      BY <1>3, <2>4
    <3>2. n.refs[b] # Shared(n, b, G)
      <4>1. Cardinality(Owners(n, b) \ G) # 0
        <5>1. IsFiniteSet(Owners(n, b))
          BY OwnersFinite
        <5>2. IsFiniteSet(Owners(n, b) \ G)
          BY <5>1, FS_Difference
        <5>3. Owners(n, b) \ G # {}
          BY <2>1
        <5> QED BY <5>2, <5>3, FS_EmptySet
      <4>2. Cardinality(Owners(n, b) \ G) = Cardinality(Owners(n, b)) - Shared(n, b, G)
            /\ Shared(n, b, G) \in Nat /\ Cardinality(Owners(n, b)) \in Nat
            /\ Shared(n, b, G) <= Cardinality(Owners(n, b))
        BY SharedIs, OwnersFinite
      <4>3. Cardinality(Owners(n, b)) <= n.refs[b] /\ n.refs[b] \in Nat
        BY <1>1, <2>1, ManagerIs DEF Counted
      <4> QED BY <4>1, <4>2, <4>3
    <3>3. x.data[b] = n.data[b]
      BY <2>4, <3>2 DEF Swapped
    <3> QED BY <3>1, <3>3
  <2> QED BY <2>3, <2>4
<1>10. Untouched(n, x, G)
  BY <1>4, <1>9 DEF Untouched
<1>11. ASSUME NEW s \in G PROVE Carried(n, x, s, pool)
  <2>1. /\ Len(x.table[s]) = Len(n.table[s])
        /\ \A i \in 1 .. Len(n.table[s]) : x.table[s][i] = f[n.table[s][i]]
    BY DEF Swapped
  <2>2. \A i \in 1 .. Len(n.table[s]) : n.table[s][i] \in O
    BY DEF Together, Listed, Firsts
  <2>3. \A b \in O : x.data[f[b]] = n.data[b]
    BY DEF Swapped
  <2>4. Listed(x.table[s]) \subseteq pool
    BY <2>1, <2>2 DEF Listed, Firsts
  <2> QED BY <2>1, <2>2, <2>3, <2>4 DEF Carried
<1> QED BY <1>8, <1>10, <1>11

\* There is a block for each member of a set that is no larger than the pool.
LEMMA InjectionExists ==
    ASSUME NEW S, IsFiniteSet(S), NEW T, IsFiniteSet(T), Cardinality(S) <= Cardinality(T)
    PROVE  Injection(S, T) # {}
<1>1. PICK k \in Nat, j \in Nat : k = Cardinality(S) /\ j = Cardinality(T) /\ k <= j
  BY FS_CardinalityType
<1>2. PICK e : e \in Bijection(1 .. k, S)
  BY <1>1, FS_CardinalityType DEF ExistsBijection
<1>3. PICK g : g \in Bijection(1 .. j, T)
  BY <1>1, FS_CardinalityType DEF ExistsBijection
<1>4. /\ e \in [1 .. k -> S] /\ \A s \in S : \E i \in 1 .. k : e[i] = s
      /\ \A a, b \in 1 .. k : e[a] = e[b] => a = b
  BY <1>2 DEF Bijection, Injection, Surjection, IsInjective
<1>5. g \in [1 .. j -> T] /\ \A a, b \in 1 .. j : g[a] = g[b] => a = b
  BY <1>3 DEF Bijection, Injection, IsInjective
<1> DEFINE at(s) == CHOOSE i \in 1 .. k : e[i] = s
           f == [s \in S |-> g[at(s)]]
<1>6. \A s \in S : at(s) \in 1 .. k /\ e[at(s)] = s
  BY <1>4
<1>7. 1 .. k \subseteq 1 .. j
  BY <1>1
<1> HIDE DEF at
<1>8. f \in [S -> T]
  BY <1>5, <1>6, <1>7
<1>9. \A s, t \in S : f[s] = f[t] => s = t
  BY <1>5, <1>6, <1>7
<1> HIDE DEF f
<1>10. f \in Injection(S, T)
  <2>1. DOMAIN f = S
    BY <1>8
  <2> QED BY <1>8, <1>9, <2>1 DEF Injection, IsInjective
<1> QED BY <1>10

\* The blocks of a device can be counted.
LEMMA BlocksFinite ==
    /\ IsFiniteSet(Blocks)
    /\ \A S \in SUBSET Blocks : IsFiniteSet(S) /\ Cardinality(S) \in Nat
<1>1. IsFiniteSet(Blocks)
  BY V1Assumption, FS_Union DEF Blocks
<1> QED BY <1>1, FS_Subset, FS_CardinalityType

\* The blocks of some sequences, as the manager collects them.
LEMMA TogetherIs ==
    ASSUME NEW n \in Managers, NEW list \in Seq(Seqs), NEW G, G = Listed(list)
    PROVE  /\ UNION {Range(n.table[s]) : s \in ToSet(list)} = Together(n, G)
           /\ Together(n, G) \in SUBSET Blocks
<1>1. ToSet(list) = G /\ G \subseteq Seqs
  BY ListedIs
<1>2. \A s \in G : Range(n.table[s]) = Listed(n.table[s]) /\ Listed(n.table[s]) \subseteq Blocks
  BY <1>1, ManagerIs, RangeIs
<1>3. \A b : b \in UNION {Range(n.table[s]) : s \in ToSet(list)} <=> b \in Together(n, G)
  BY <1>1, <1>2 DEF Together
<1>4. Together(n, G) \subseteq Blocks
  BY <1>2 DEF Together
<1> QED BY <1>3, <1>4

\* A swap that CanSwapOut or CanSwapIn allows finds the blocks it needs: it moves the
\* blocks and nothing else.
LEMMA SwapIs ==
    ASSUME NEW n, NEW exact, Counted(n, exact), NEW list \in Seq(Seqs), NEW G, G = Listed(list),
           NEW O, O = Together(n, G), NEW pool \in SUBSET Blocks,
           Cardinality(O) <= Cardinality(n.free \cap pool),
           NEW o \in Swap(n, list, pool)
    PROVE  \E x : /\ o = Ok(x) /\ Counted(x, exact) /\ Untouched(n, x, G)
                  /\ \A s \in G : Carried(n, x, s, pool)
                  /\ Cardinality(x.free \cap pool) >= Cardinality(n.free \cap pool) - Cardinality(O)
<1> DEFINE old == UNION {Range(n.table[s]) : s \in ToSet(list)}
           times == [b \in old |-> Occurrences(n, list, b)]
           Origin(f, b) == CHOOSE a \in old : f[a] = b
           Moved(f) ==
             [n EXCEPT !.free = @ \ Range(f),
                       !.refs = [b \in Blocks |-> IF b \in Range(f)
                                                  THEN Occurrences(n, list, Origin(f, b))
                                                  ELSE n.refs[b]],
                       !.data = [b \in Blocks |-> IF b \in Range(f) THEN n.data[Origin(f, b)]
                                                                    ELSE n.data[b]],
                       !.table = [s \in Seqs |-> IF s \in ToSet(list)
                                                 THEN [i \in DOMAIN n.table[s] |-> f[n.table[s][i]]]
                                                 ELSE n.table[s]]]
<1>1. n \in Managers
  BY DEF Counted
<1>2. old = O /\ O \in SUBSET Blocks
  BY <1>1, TogetherIs
<1>3. Takes(n, O, pool) # {}
  <2>1. n.free \cap pool \in SUBSET Blocks
    OBVIOUS
  <2>2. IsFiniteSet(n.free \cap pool) /\ IsFiniteSet(O)
    BY <1>2, <2>1, BlocksFinite
  <2> QED BY <2>2, InjectionExists DEF Takes
<1>4. PICK f \in Takes(n, O, pool) : o = FreeEach(Moved(f), times)
  <2>1. Takes(n, old, pool) # {}
    <3> HIDE DEF old
    <3> QED BY <1>2, <1>3
  <2>2. \E f \in Takes(n, old, pool) : o = FreeEach(Moved(f), times)
    BY Zenon, <2>1 DEF Swap
  <2> HIDE DEF old, Moved, times
  <2> QED BY <1>2, <2>2
<1> HIDE DEF old
<1>5. /\ f \in [O -> n.free \cap pool] /\ DOMAIN f = O
      /\ \A b, c \in O : f[b] = f[c] => b = c
  BY <1>4 DEF Takes, Injection, IsInjective
<1>6. \A c : c \in Range(f) <=> \E b \in O : f[b] = c
  BY <1>5 DEF Range
<1>7. \A b \in O : f[b] \in n.free /\ f[b] \in pool /\ f[b] \in Blocks /\ b \in Blocks /\ b \notin n.free
  <2>1. \A s \in G : \A b \in Listed(n.table[s]) : b \in Blocks /\ b \notin n.free
    <3>1. G \subseteq Seqs
      BY ListedIs
    <3> QED BY <3>1, InUse
  <2>2. \A b \in O : b \in Blocks /\ b \notin n.free
    BY <2>1 DEF Together
  <2> QED BY <1>5, <2>2
<1>8. \A b \in O : Origin(f, f[b]) = b
  <2> SUFFICES ASSUME NEW b \in O PROVE Origin(f, f[b]) = b
    OBVIOUS
  <2>1. \E a \in O : f[a] = f[b]
    OBVIOUS
  <2>2. Origin(f, f[b]) \in O /\ f[Origin(f, f[b])] = f[b]
    BY <1>2, <2>1
  <2> HIDE DEF Origin
  <2> QED BY <1>5, <2>2
<1>9. \A b : Occurrences(n, list, b) = Shared(n, b, G) /\ Shared(n, b, G) \in Nat
  <2> SUFFICES ASSUME NEW b
               PROVE  Occurrences(n, list, b) = Shared(n, b, G) /\ Shared(n, b, G) \in Nat
    OBVIOUS
  <2>1. Occurrences(n, list, b) = Shared(n, b, G)
    BY OccurrencesIs
  <2>2. Shared(n, b, G) \in Nat
    BY SharedIs
  <2> QED BY <2>1, <2>2
<1>10. PICK y : y = Moved(f)
  OBVIOUS
<1>11. /\ y.free = n.free \ Range(f)
       /\ y.refs = [b \in Blocks |-> IF b \in Range(f) THEN Occurrences(n, list, Origin(f, b)) ELSE n.refs[b]]
       /\ y.data = [b \in Blocks |-> IF b \in Range(f) THEN n.data[Origin(f, b)] ELSE n.data[b]]
       /\ y.table = [s \in Seqs |-> IF s \in ToSet(list) THEN [i \in DOMAIN n.table[s] |-> f[n.table[s][i]]]
                                    ELSE n.table[s]]
       /\ y = [free |-> y.free, refs |-> y.refs, table |-> y.table, data |-> y.data]
  BY <1>1, <1>10 DEF Managers
<1> HIDE DEF Moved
<1>12. \A c \in Blocks :
         /\ y.refs[c] = IF c \in Range(f) THEN Occurrences(n, list, Origin(f, c)) ELSE n.refs[c]
         /\ y.data[c] = IF c \in Range(f) THEN n.data[Origin(f, c)] ELSE n.data[c]
  BY <1>11
<1>13. \A s \in Seqs : y.table[s] = IF s \in ToSet(list) THEN [i \in DOMAIN n.table[s] |-> f[n.table[s][i]]]
                                    ELSE n.table[s]
  BY <1>11
<1> HIDE DEF Origin
<1>14. \A b \in O : y.refs[f[b]] = Shared(n, b, G) /\ y.data[f[b]] = n.data[b] /\ f[b] \notin y.free
  BY <1>6, <1>7, <1>8, <1>9, <1>11, <1>12
<1>15. \A c \in Blocks : (\A b \in O : f[b] # c) =>
         y.refs[c] = n.refs[c] /\ y.data[c] = n.data[c] /\ (c \in y.free <=> c \in n.free)
  BY <1>6, <1>11, <1>12
<1>16. \A s \in Seqs : n.table[s] \in Seq(Blocks) /\ DOMAIN n.table[s] = 1 .. Len(n.table[s])
  <2>1. \A s \in Seqs : n.table[s] \in Seq(Blocks)
    BY <1>1, ManagerIs
  <2> QED BY <2>1
<1>17. \A s \in G : \A i \in 1 .. Len(n.table[s]) : n.table[s][i] \in O
  BY DEF Together, Listed, Firsts
<1>18. ToSet(list) = G /\ G \subseteq Seqs
  BY ListedIs
<1>19. \A s \in G : /\ y.table[s] \in Seq(Blocks) /\ Len(y.table[s]) = Len(n.table[s])
                    /\ \A i \in 1 .. Len(n.table[s]) : y.table[s][i] = f[n.table[s][i]]
  <2> SUFFICES ASSUME NEW s \in G
               PROVE  /\ y.table[s] \in Seq(Blocks) /\ Len(y.table[s]) = Len(n.table[s])
                      /\ \A i \in 1 .. Len(n.table[s]) : y.table[s][i] = f[n.table[s][i]]
    OBVIOUS
  <2>1. PICK k \in Nat : k = Len(n.table[s]) /\ DOMAIN n.table[s] = 1 .. k
    BY <1>16, <1>18
  <2>2. y.table[s] = [i \in 1 .. k |-> f[n.table[s][i]]]
    BY <1>13, <1>18, <2>1
  <2>3. \A i \in 1 .. k : f[n.table[s][i]] \in Blocks
    BY <1>7, <1>17, <2>1
  <2>4. y.table[s] \in Seq(Blocks) /\ Len(y.table[s]) = k
    BY <2>2, <2>3
  <2> QED BY <2>1, <2>2, <2>4
<1>20. y \in Managers
  <2>1. y.free \subseteq Blocks
    BY <1>1, <1>11, ManagerIs
  <2>2. y.refs \in [Blocks -> Nat]
    <3>1. \A c \in Blocks : n.refs[c] \in Nat
      BY <1>1, ManagerIs
    <3>2. \A c \in Blocks : y.refs[c] \in Nat
      BY <1>9, <1>12, <3>1
    <3> QED BY <1>11, <3>2
  <2>3. y.data \in [Blocks -> [Slots -> Cells]]
    <3>1. \A c \in Blocks : n.data[c] \in [Slots -> Cells]
      BY <1>1, ManagerIs
    <3>2. \A c \in Blocks : y.data[c] \in [Slots -> Cells]
      <4> SUFFICES ASSUME NEW c \in Blocks PROVE y.data[c] \in [Slots -> Cells]
        OBVIOUS
      <4>1. CASE \E b \in O : f[b] = c
        BY <1>7, <1>14, <3>1, <4>1
      <4>2. CASE \A b \in O : f[b] # c
        BY <1>15, <3>1, <4>2
      <4> QED BY <4>1, <4>2
    <3> QED BY <1>11, <3>2
  <2>4. y.table \in [Seqs -> Seq(Blocks)]
    <3>1. \A s \in Seqs : y.table[s] \in Seq(Blocks)
      BY <1>13, <1>16, <1>18, <1>19
    <3> QED BY <1>11, <3>1
  <2> QED BY <1>11, <2>1, <2>2, <2>3, <2>4 DEF Managers
<1>21. \A b \in O : /\ y.refs[b] = n.refs[b] /\ y.data[b] = n.data[b] /\ b \notin y.free
                    /\ Shared(n, b, G) <= n.refs[b] /\ n.refs[b] \in Nat
  <2> SUFFICES ASSUME NEW b \in O
               PROVE  /\ y.refs[b] = n.refs[b] /\ y.data[b] = n.data[b] /\ b \notin y.free
                      /\ Shared(n, b, G) <= n.refs[b] /\ n.refs[b] \in Nat
    OBVIOUS
  <2>1. b \in Blocks /\ \A c \in O : f[c] # b
    BY <1>7
  <2>2. Cardinality(Owners(n, b)) <= n.refs[b] /\ n.refs[b] \in Nat
    BY <1>1, <2>1, ManagerIs DEF Counted
  <2>3. /\ Shared(n, b, G) \in Nat /\ Shared(n, b, G) <= Cardinality(Owners(n, b))
        /\ Cardinality(Owners(n, b)) \in Nat
    BY SharedIs, OwnersFinite
  <2> QED BY <1>7, <1>15, <2>1, <2>2, <2>3
<1>22. times \in [O -> Nat] /\ \A b \in O : times[b] = Shared(n, b, G)
  BY <1>2, <1>9
<1> HIDE DEF times
<1>23. Enough(y, O, times)
  BY <1>21, <1>22 DEF Enough
<1>24. PICK x : o = Ok(x) /\ Freed(y, x, O, times)
  BY <1>2, <1>4, <1>10, <1>20, <1>22, <1>23, FreeEachIs
<1>25. /\ x \in Managers /\ x.table = y.table
       /\ \A b \in Blocks :
            /\ x.refs[b] = IF b \in O THEN y.refs[b] - times[b] ELSE y.refs[b]
            /\ b \in x.free <=> b \in y.free \/ (b \in O /\ times[b] = y.refs[b])
            /\ b \notin O \/ times[b] # y.refs[b] => x.data[b] = y.data[b]
  BY <1>24 DEF Freed
<1>26. \A b \in O : f[b] \in Blocks /\ f[b] \notin O /\ b \in Blocks
  BY <1>7
<1>27. Swapped(n, x, G, O, f)
  <2>1. ASSUME NEW b \in O
        PROVE  /\ f[b] \in n.free
               /\ \A c \in O : f[b] = f[c] => b = c
               /\ x.refs[f[b]] = Shared(n, b, G) /\ f[b] \notin x.free /\ x.data[f[b]] = n.data[b]
               /\ x.refs[b] = n.refs[b] - Shared(n, b, G)
               /\ b \in x.free <=> n.refs[b] = Shared(n, b, G)
               /\ n.refs[b] # Shared(n, b, G) => x.data[b] = n.data[b]
    <3>1. f[b] \in n.free /\ \A c \in O : f[b] = f[c] => b = c
      BY <1>5, <1>7
    <3>2. x.refs[f[b]] = Shared(n, b, G) /\ f[b] \notin x.free /\ x.data[f[b]] = n.data[b]
      BY <1>14, <1>25, <1>26
    <3>3. /\ x.refs[b] = n.refs[b] - Shared(n, b, G)
          /\ b \in x.free <=> n.refs[b] = Shared(n, b, G)
          /\ n.refs[b] # Shared(n, b, G) => x.data[b] = n.data[b]
      BY <1>21, <1>22, <1>25, <1>26
    <3> QED BY <3>1, <3>2, <3>3
  <2>2. ASSUME NEW c \in Blocks, c \notin O, \A b \in O : f[b] # c
        PROVE  x.refs[c] = n.refs[c] /\ (c \in x.free <=> c \in n.free) /\ x.data[c] = n.data[c]
    BY <1>15, <1>25, <2>2
  <2>3. \A s \in G : /\ Len(x.table[s]) = Len(n.table[s])
                     /\ \A i \in 1 .. Len(n.table[s]) : x.table[s][i] = f[n.table[s][i]]
    BY <1>19, <1>25
  <2>4. \A t \in Seqs \ G : x.table[t] = n.table[t]
    BY <1>13, <1>18, <1>25
  <2> QED BY Zenon, <1>25, <2>1, <2>2, <2>3, <2>4 DEF Swapped
<1>28. Counted(x, exact) /\ Untouched(n, x, G) /\ \A s \in G : Carried(n, x, s, pool)
  <2>1. \A b \in O : f[b] \in pool
    BY <1>7
  <2>2. G \in SUBSET Seqs
    BY <1>18
  <2> QED BY <1>27, <2>1, <2>2, SwappedIs
<1>29. Cardinality(x.free \cap pool) >= Cardinality(n.free \cap pool) - Cardinality(O)
  <2> DEFINE A == n.free \cap pool
             B == x.free \cap pool
             C == A \ Range(f)
  <2>1. A \in SUBSET Blocks /\ B \in SUBSET Blocks /\ C \in SUBSET Blocks
    OBVIOUS
  <2>2. C \subseteq B
    <3>1. \A c \in Blocks : c \in n.free /\ c \notin Range(f) => c \in x.free
      BY <1>11, <1>25
    <3> QED BY <2>1, <3>1
  <2>3. /\ IsFiniteSet(A) /\ IsFiniteSet(B) /\ Cardinality(A) \in Nat /\ Cardinality(B) \in Nat
        /\ IsFiniteSet(O) /\ Cardinality(O) \in Nat /\ Cardinality(C) \in Nat
    BY <1>2, <2>1, BlocksFinite
  <2>4. Cardinality(C) <= Cardinality(B)
    BY <2>2, <2>3, FS_Subset
  <2>5. Range(f) \in SUBSET A
    BY <1>6, <1>7
  <2>6. Cardinality(Range(f)) <= Cardinality(O) /\ Cardinality(Range(f)) \in Nat
    <3>1. f \in Surjection(O, Range(f))
      BY <1>5, <1>6 DEF Surjection
    <3>2. IsFiniteSet(Range(f)) /\ Cardinality(Range(f)) <= Cardinality(O)
      BY <2>3, <3>1, FS_Surjection
    <3> QED BY <3>2, FS_CardinalityType
  <2>7. Cardinality(C) = Cardinality(A) - Cardinality(Range(f))
    <3>1. A \cap Range(f) = Range(f)
      BY <2>5
    <3>2. Cardinality(C) = Cardinality(A) - Cardinality(A \cap Range(f))
      BY <2>3, FS_Difference
    <3> QED BY <3>1, <3>2
  <2> HIDE DEF A, B, C
  <2>8. PICK a \in Nat, b \in Nat, c \in Nat, d \in Nat, e \in Nat :
          a = Cardinality(A) /\ b = Cardinality(B) /\ c = Cardinality(C) /\ d = Cardinality(O)
          /\ e = Cardinality(Range(f))
    BY <2>3, <2>6
  <2>9. b >= a - d
    BY <2>4, <2>6, <2>7, <2>8
  <2> QED BY <2>8, <2>9 DEF A, B
<1> QED BY <1>24, <1>28, <1>29

-----------------------------------------------------------------------------
(* The inductive invariant.                                                *)

Live == {"waiting", "running", "swapped"}
Statuses == {"absent", "finished"} \cup Live
Members(r) == Listed(SeqsOf[r])

\* Where the blocks of a sequence are.
Device(st) == CASE st = "running" -> GpuBlocks
                [] st = "swapped" -> CpuBlocks
                [] st = "finished" -> CpuBlocks
                [] OTHER -> {}

\* The records of a sequence.
Recorded(st, list, first, busy) ==
    /\ st \in Statuses
    /\ IF st \in Live THEN Len(list) \in 1 .. MaxTokens - 1 ELSE list = <<>>
    /\ st = "waiting" => first
    /\ first => st = "waiting" \/ (st = "running" /\ busy)

\* Its blocks.
Sound(n, s, st, list, first, busy) ==
    /\ Listed(n.table[s]) \subseteq Device(st)
    /\ st = "swapped" \/ (st = "running" /\ ~busy) => Kept(n, s, list)
    /\ st = "running" /\ busy => Prepared(n, s, list, first)

Right(n, s, st, list, first, busy) ==
    Recorded(st, list, first, busy) /\ Sound(n, s, st, list, first, busy)

\* The sequences of a group: the first comes first, the live ones are in one place,
\* one that waits is the only one, and the whole group when Exactly.
Grouped(r, st, busy) ==
    /\ busy => \E s \in Members(r) : st[s] = "running"
    /\ st[SeqsOf[r][1]] = "absent" => \A s \in Members(r) : st[s] = "absent"
    /\ \A s, t \in Members(r) : st[s] \in Live /\ st[t] \in Live =>
         st[s] = st[t] /\ (st[s] = "waiting" => s = t)
    /\ Exactly => \A s, t \in Members(r) : st[s] = "waiting" /\ s # t => st[t] = "absent"

Settled(r) ==
    /\ Grouped(r, status, r \in batch)
    /\ \A s \in Members(r) :
         Right(m, s, status[s], tokens[s], s \in prefill, r \in batch)

Typed ==
    /\ status \in [Seqs -> Statuses] /\ tokens \in [Seqs -> Seq(Seqs)]
    /\ layers \in [Requests -> {FreshLayers, NumLayers}]
    /\ batch \subseteq Requests /\ prefill \subseteq Seqs

Unborn(s) == status[s] = "absent" /\ tokens[s] = <<>> /\ m.table[s] = <<>>

Inductive ==
    /\ Typed
    /\ Counted(m, Exactly)
    /\ \A r \in Requests : Settled(r)
    /\ \A s \in Seqs : (\A r \in Requests : s \notin Members(r)) => Unborn(s)

\* A group of the batch whose stage is PREFILL is its first sequence alone; when
\* Exactly, no other sequence of a batch is to be computed in full.
Started(r) ==
    /\ IsPrefill(r) => \A s \in Members(r) : status[s] # "absent" => s = SeqsOf[r][1]
    /\ Exactly => \A s \in Members(r) : s \in prefill => s = SeqsOf[r][1]

\* The invariant of the reachable states: an engine that ended in allocate keeps the types.
IInv ==
    \/ /\ fault \in {"none", "CPU swap space", "prefill of several sequences"}
       /\ Inductive
       /\ fault = "none" => \A r \in batch : Started(r)
    \/ fault = "allocate" /\ FreshLayers < NumLayers /\ TypeOK

\* The sequences of a request.
LEMMA MembersAre ==
    ASSUME NEW r \in Requests
    PROVE  /\ SeqsOf[r] \in Seq(Seqs) /\ Distinct(SeqsOf[r]) /\ Members(r) \in SUBSET Seqs
           /\ SeqsOf[r][1] \in Members(r) /\ SeqsOf[r] # <<>>
           /\ IsFiniteSet(Members(r)) /\ Len(SeqsOf[r]) = Cardinality(Members(r))
           /\ \A q \in Requests \ {r} : Members(q) \cap Members(r) = {}
<1>1. SeqsOf[r] \in Seq(Seqs) /\ SeqsOf[r] # <<>> /\ IsInjective(SeqsOf[r])
  BY V1Assumption
<1>2. Distinct(SeqsOf[r])
  <2>1. DOMAIN SeqsOf[r] = 1 .. Len(SeqsOf[r])
    BY <1>1
  <2> QED BY <1>1, <2>1 DEF IsInjective, Distinct
<1>3. Members(r) \in SUBSET Seqs
  BY <1>1, ListedIs DEF Members
<1>4. SeqsOf[r][1] \in Members(r)
  <2>1. Len(SeqsOf[r]) \in Nat /\ Len(SeqsOf[r]) # 0
    BY <1>1, EmptySeq
  <2>2. 1 \in 1 .. Len(SeqsOf[r])
    BY <2>1
  <2> QED BY <2>2 DEF Members, Listed, Firsts
<1>5. IsFiniteSet(Members(r)) /\ Len(SeqsOf[r]) = Cardinality(Members(r))
  BY <1>1, <1>2, DistinctLen DEF Members
<1>6. ASSUME NEW q \in Requests \ {r} PROVE Members(q) \cap Members(r) = {}
  <2>1. SeqsOf[q] \in Seq(Seqs) /\ ToSet(SeqsOf[q]) \cap ToSet(SeqsOf[r]) = {}
    BY V1Assumption
  <2>2. ToSet(SeqsOf[q]) = Members(q) /\ ToSet(SeqsOf[r]) = Members(r)
    BY <1>1, <2>1, ListedIs DEF Members
  <2> QED BY <2>1, <2>2
<1> QED BY <1>1, <1>2, <1>3, <1>4, <1>5, <1>6

\* The sequences of a request that are in one place.
InPlace(r, st) == {s \in Members(r) : status[s] = st}

\* get_seqs with a status.
LEMMA SeqsInIs ==
    ASSUME NEW r \in Requests, NEW st
    PROVE  /\ SeqsIn(r, st) \in Seq(Seqs) /\ Distinct(SeqsIn(r, st))
           /\ Listed(SeqsIn(r, st)) = InPlace(r, st) /\ ToSet(SeqsIn(r, st)) = InPlace(r, st)
           /\ r \in Having(st) <=> InPlace(r, st) # {}
<1>1. SeqsOf[r] \in Seq(Seqs) /\ Distinct(SeqsOf[r]) /\ Members(r) \in SUBSET Seqs
  BY MembersAre
<1> DEFINE S == {s \in Seqs : status[s] = st}
<1>2. /\ SeqsIn(r, st) \in Seq(Seqs) /\ Distinct(SeqsIn(r, st))
      /\ Listed(SeqsIn(r, st)) = Members(r) \cap S
  <2> HIDE DEF S
  <2>1. /\ Only(SeqsOf[r], S) \in Seq(Seqs) /\ Distinct(Only(SeqsOf[r], S))
        /\ Listed(Only(SeqsOf[r], S)) = Members(r) \cap S
    BY <1>1, OnlyIs DEF Members
  <2>2. SeqsIn(r, st) = Only(SeqsOf[r], S)
    BY DEF SeqsIn, S
  <2> QED BY <2>1, <2>2
<1>3. Members(r) \cap S = InPlace(r, st)
  BY <1>1 DEF InPlace
<1>4. ToSet(SeqsIn(r, st)) = InPlace(r, st) /\ (SeqsIn(r, st) # <<>> <=> InPlace(r, st) # {})
  BY <1>2, <1>3, ListedIs
<1> QED BY <1>2, <1>3, <1>4 DEF Having

\* get_unfinished_seqs
LEMMA UnfinishedIs ==
    ASSUME NEW r \in Requests
    PROVE  /\ Unfinished(r) \in Seq(Seqs) /\ Distinct(Unfinished(r))
           /\ Listed(Unfinished(r)) = {s \in Members(r) : status[s] \in Live}
           /\ ToSet(Unfinished(r)) = Listed(Unfinished(r))
           /\ Unfinished(r) # <<>> <=> Listed(Unfinished(r)) # {}
<1>1. SeqsOf[r] \in Seq(Seqs) /\ Distinct(SeqsOf[r]) /\ Members(r) \in SUBSET Seqs
  BY MembersAre
<1> DEFINE S == {s \in Seqs : status[s] \in {"waiting", "running", "swapped"}}
<1>2. /\ Unfinished(r) \in Seq(Seqs) /\ Distinct(Unfinished(r))
      /\ Listed(Unfinished(r)) = Members(r) \cap S
  <2> HIDE DEF S
  <2>1. /\ Only(SeqsOf[r], S) \in Seq(Seqs) /\ Distinct(Only(SeqsOf[r], S))
        /\ Listed(Only(SeqsOf[r], S)) = Members(r) \cap S
    BY <1>1, OnlyIs DEF Members
  <2>2. Unfinished(r) = Only(SeqsOf[r], S)
    BY DEF Unfinished, S
  <2> QED BY <2>1, <2>2
<1>3. Members(r) \cap S = {s \in Members(r) : status[s] \in Live}
  BY <1>1 DEF Live
<1> QED BY <1>2, <1>3, ListedIs

\* A sequence that nobody touches and whose records stay has what it needs.
LEMMA RightStays ==
    ASSUME NEW n \in Managers, NEW x, NEW S, NEW s \in Seqs \ S, Untouched(n, x, S), NEW st,
           NEW list \in Seq(Seqs), NEW first, NEW busy, Right(n, s, st, list, first, busy)
    PROVE  Right(x, s, st, list, first, busy)
<1>1. Recorded(st, list, first, busy) /\ Sound(n, s, st, list, first, busy)
  BY DEF Right
<1>2. x.table[s] = n.table[s]
  BY DEF Untouched
<1>3. st \in Live => Len(list) > 0
  <2>1. Len(list) \in Nat
    OBVIOUS
  <2>2. st \in Live => Len(list) \in 1 .. MaxTokens - 1
    BY <1>1 DEF Recorded
  <2> QED BY <2>1, <2>2, V1Assumption
<1>4. CASE st \in Live
  <2>1. Kept(n, s, list) => Kept(x, s, list)
    BY <1>3, <1>4, KeptStays
  <2>2. Prepared(n, s, list, first) => Prepared(x, s, list, first)
    BY <1>3, <1>4, PreparedStays
  <2> QED BY <1>1, <1>2, <2>1, <2>2 DEF Right, Sound
<1>5. CASE st \notin Live
  BY <1>1, <1>2, <1>5 DEF Right, Sound, Live
<1> QED BY <1>4, <1>5

\* The records of the other groups stay.
Spared(r) ==
    /\ \A s \in Seqs \ Members(r) :
         status'[s] = status[s] /\ tokens'[s] = tokens[s] /\ (s \in prefill' <=> s \in prefill)
    /\ \A q \in Requests \ {r} : q \in batch' <=> q \in batch

\* A step on one group keeps the others right.
LEMMA GroupStep ==
    ASSUME Inductive, NEW r \in Requests, Typed', Counted(m', Exactly),
           Untouched(m, m', Members(r)), Spared(r), Settled(r)'
    PROVE  Inductive'
<1>1. m \in Managers
  BY DEF Inductive, Counted
<1>2. Members(r) \in SUBSET Seqs
  BY MembersAre
<1>3. ASSUME NEW q \in Requests \ {r} PROVE Settled(q)'
  <2>1. Members(q) \in SUBSET Seqs /\ Members(q) \cap Members(r) = {}
        /\ SeqsOf[q][1] \in Members(q)
    BY MembersAre
  <2>2. \A s \in Members(q) :
          /\ s \in Seqs \ Members(r) /\ status'[s] = status[s] /\ tokens'[s] = tokens[s]
          /\ (s \in prefill') = (s \in prefill)
    BY <2>1 DEF Spared
  <2>3. (q \in batch') = (q \in batch)
    BY DEF Spared
  <2>4. Grouped(q, status, q \in batch) /\ \A s \in Members(q) :
          Right(m, s, status[s], tokens[s], s \in prefill, q \in batch)
    BY DEF Inductive, Settled
  <2>5. Grouped(q, status', q \in batch')
    BY <2>1, <2>2, <2>3, <2>4 DEF Grouped
  <2>6. ASSUME NEW s \in Members(q)
        PROVE  Right(m', s, status'[s], tokens'[s], s \in prefill', q \in batch')
    <3>1. s \in Seqs \ Members(r) /\ tokens[s] \in Seq(Seqs)
      BY <2>2 DEF Inductive, Typed
    <3>2. Right(m, s, status[s], tokens[s], s \in prefill, q \in batch)
      BY <2>4
    <3>3. Right(m', s, status[s], tokens[s], s \in prefill, q \in batch)
      BY <1>1, <3>1, <3>2, RightStays
    <3> QED BY <2>2, <2>3, <3>3
  <2> QED BY <2>5, <2>6 DEF Settled
<1>4. ASSUME NEW s \in Seqs, \A q \in Requests : s \notin Members(q)
      PROVE  Unborn(s)'
  <2>1. Unborn(s) /\ s \in Seqs \ Members(r)
    BY <1>4 DEF Inductive
  <2> QED BY <2>1 DEF Unborn, Spared, Untouched
<1> QED BY <1>3, <1>4 DEF Inductive

\* Every sequence, of a group or of none, has what it needs.
LEMMA EachRight ==
    ASSUME Inductive, NEW s \in Seqs
    PROVE  /\ Recorded(status[s], tokens[s], s \in prefill, TRUE) \/ Unborn(s)
           /\ Listed(m.table[s]) \subseteq Device(status[s])
           /\ \A r \in Requests : s \in Members(r) =>
                Right(m, s, status[s], tokens[s], s \in prefill, r \in batch)
           /\ status[s] # "absent" => \E r \in Requests : s \in Members(r)
<1>1. \A r \in Requests : s \in Members(r) =>
        Right(m, s, status[s], tokens[s], s \in prefill, r \in batch)
  BY DEF Inductive, Settled
<1>2. CASE \A r \in Requests : s \notin Members(r)
  <2>1. Unborn(s)
    BY <1>2 DEF Inductive
  <2>2. Listed(m.table[s]) = {}
    <3>1. m.table[s] = <<>>
      BY <2>1 DEF Unborn
    <3> QED BY <3>1 DEF Listed, Firsts
  <2> QED BY <1>1, <1>2, <2>1, <2>2 DEF Unborn
<1>3. CASE \E r \in Requests : s \in Members(r)
  <2>1. PICK r \in Requests : s \in Members(r)
    BY <1>3
  <2>2. Right(m, s, status[s], tokens[s], s \in prefill, r \in batch)
    BY <1>1, <2>1
  <2>3. Recorded(status[s], tokens[s], s \in prefill, r \in batch)
        /\ Listed(m.table[s]) \subseteq Device(status[s])
    BY <2>2 DEF Right, Sound
  <2>4. Recorded(status[s], tokens[s], s \in prefill, TRUE)
    BY <2>3 DEF Recorded
  <2> QED BY <1>1, <1>3, <2>3, <2>4
<1> QED BY <1>2, <1>3

\* The device of the inductive invariant is that of TypeOK.
LEMMA DeviceIs ==
    ASSUME NEW st
    PROVE  Device(st) = CASE st = "running" -> GpuBlocks
                          [] st = "swapped" -> CpuBlocks
                          [] st = "finished" -> CpuBlocks
                          [] OTHER -> {}
  BY DEF Device

\* A list of no more than MaxTokens sequences.
LEMMA Bounded ==
    ASSUME NEW list \in Seq(Seqs), Len(list) <= MaxTokens
    PROVE  list \in BoundedSeq(Seqs, MaxTokens)
<1>1. PICK k \in 0 .. MaxTokens : k = Len(list)
  BY V1Assumption
<1>2. list \in [1 .. k -> Seqs]
  BY <1>1
<1> QED BY <1>2 DEF BoundedSeq, SeqOf

\* The types of the state follow from the inductive invariant.
LEMMA InductiveTypes ==
    ASSUME Inductive
    PROVE  TypeOK
<1>1. m \in Managers
  BY DEF Inductive, Counted
<1>2. /\ m.free \subseteq Blocks /\ m.refs \in [Blocks -> Nat]
      /\ m.data \in [Blocks -> [Slots -> {Nothing} \cup (Seqs \X (1 .. MaxTokens))]]
  BY <1>1, ManagerIs DEF Cells
<1>3. layers \in [Requests -> Nat] /\ batch \subseteq Requests /\ prefill \subseteq Seqs
  BY V1Assumption DEF Inductive, Typed
<1>4. ASSUME NEW s \in Seqs
      PROVE  /\ tokens[s] \in BoundedSeq(Seqs, MaxTokens)
             /\ Range(m.table[s]) \subseteq Device(status[s])
  <2>1. tokens[s] \in Seq(Seqs)
    BY DEF Inductive, Typed
  <2>2. Len(tokens[s]) <= MaxTokens
    <3>1. MaxTokens \in Nat /\ Len(tokens[s]) \in Nat
      BY <2>1, V1Assumption
    <3>2. tokens[s] = <<>> \/ Len(tokens[s]) \in 1 .. MaxTokens - 1
      BY EachRight DEF Recorded, Unborn
    <3> QED BY <3>1, <3>2
  <2>3. m.table[s] \in Seq(Blocks)
    BY <1>1, ManagerIs
  <2>4. Range(m.table[s]) = Listed(m.table[s])
    BY <2>3, RangeIs
  <2>5. Listed(m.table[s]) \subseteq Device(status[s])
    BY EachRight
  <2> QED BY <2>1, <2>2, <2>4, <2>5, Bounded
<1> QED BY <1>2, <1>3, <1>4, DeviceIs DEF TypeOK

\* The counts of the inductive invariant are exact when no group without beam search
\* is of more than one sequence.
LEMMA InductiveCounts ==
    ASSUME Inductive, Exactly
    PROVE  RefsExact
<1>1. Counted(m, TRUE)
  BY DEF Inductive, Counted
<1>2. ASSUME NEW b \in Blocks
      PROVE  /\ m.refs[b] = Cardinality({s \in Seqs : b \in Range(m.table[s])})
             /\ b \in m.free <=> m.refs[b] = 0
  <2>1. \A s \in Seqs : Range(m.table[s]) = Listed(m.table[s])
    <3>1. \A s \in Seqs : m.table[s] \in Seq(Blocks)
      BY <1>1, ManagerIs DEF Counted
    <3> QED BY <3>1, RangeIs
  <2>2. {s \in Seqs : b \in Range(m.table[s])} = Owners(m, b)
    BY <2>1 DEF Owners
  <2> QED BY <1>1, <2>2 DEF Counted
<1> QED BY <1>2 DEF RefsExact

\* A running sequence has its tokens in the cache, before and after the step that
\* computes the newest one.
LEMMA InductiveContents ==
    ASSUME Inductive, Exactly
    PROVE  KVIntact
<1> SUFFICES ASSUME NEW s \in Seqs, status[s] = "running", s \notin prefill,
                    NEW p \in 1 .. Len(tokens[s]) - 1
             PROVE  m.data[m.table[s][NumLogicalBlocks(p)]][(p - 1) % BlockSize]
                      = <<tokens[s][p], p>>
  BY DEF KVIntact
<1>1. PICK r \in Requests : s \in Members(r)
  BY EachRight
<1>2. Right(m, s, status[s], tokens[s], s \in prefill, r \in batch)
  BY <1>1, EachRight
<1>3. Holds(m, m.table[s], tokens[s], Len(tokens[s]) - 1)
  BY <1>2 DEF Right, Sound, Kept, Prepared
<1> QED BY <1>3 DEF Holds

-----------------------------------------------------------------------------
(* The steps.                                                              *)

\* What the inductive invariant says of a group.
LEMMA GroupIs ==
    ASSUME Inductive, NEW r \in Requests
    PROVE  /\ Grouped(r, status, r \in batch) /\ Members(r) \in SUBSET Seqs
           /\ \A s \in Members(r) :
                /\ Right(m, s, status[s], tokens[s], s \in prefill, r \in batch)
                /\ tokens[s] \in Seq(Seqs) /\ status[s] \in Statuses
           /\ Counted(m, Exactly) /\ m \in Managers /\ Typed
  BY MembersAre DEF Inductive, Settled, Typed, Counted

\* For a sequence that is not running it is all one whether its group is in the batch.
LEMMA RightElse ==
    ASSUME NEW n, NEW s, NEW st, st # "running", NEW list, NEW first, NEW busy, NEW other,
           Right(n, s, st, list, first, busy)
    PROVE  Right(n, s, st, list, first, other)
  BY DEF Right, Recorded, Sound

\* A new group.
LEMMA AddStep ==
    ASSUME Inductive, NEW r \in Requests, NEW k \in PromptLengths, AddSeqGroup(r, k)
    PROVE  Inductive' /\ fault' = "none"
<1>1. PICK s \in Members(r) : s = SeqsOf[r][1]
  BY MembersAre
<1>2. /\ Grouped(r, status, r \in batch) /\ Members(r) \in SUBSET Seqs
      /\ \A t \in Members(r) :
           /\ Right(m, t, status[t], tokens[t], t \in prefill, r \in batch)
           /\ tokens[t] \in Seq(Seqs) /\ status[t] \in Statuses
      /\ Counted(m, Exactly) /\ m \in Managers /\ Typed
  BY GroupIs
<1>3. /\ status[s] = "absent" /\ status' = [status EXCEPT ![s] = "waiting"]
      /\ tokens' = [tokens EXCEPT ![s] = [i \in 1 .. k |-> s]]
      /\ prefill' = prefill \cup {s} /\ m' = m /\ layers' = layers /\ batch' = batch
      /\ fault' = fault /\ fault = "none"
  BY <1>1 DEF AddSeqGroup, Up
<1>4. \A t \in Members(r) : status[t] = "absent"
  BY <1>1, <1>2, <1>3 DEF Grouped
<1>5. r \notin batch
  BY <1>2, <1>4 DEF Grouped
<1>6. k \in Nat /\ k \in 1 .. MaxTokens - 1
  BY V1Assumption
<1>7. [i \in 1 .. k |-> s] \in Seq(Seqs) /\ Len([i \in 1 .. k |-> s]) = k
  BY <1>1, <1>2, <1>6
<1>8. Typed'
  <2>1. "waiting" \in Statuses
    BY DEF Statuses, Live
  <2>2. status' \in [Seqs -> Statuses]
    BY <1>1, <1>2, <1>3, <2>1 DEF Typed
  <2>3. tokens' \in [Seqs -> Seq(Seqs)]
    BY <1>1, <1>2, <1>3, <1>7 DEF Typed
  <2> QED BY <1>1, <1>2, <1>3, <2>2, <2>3 DEF Typed
<1>9. /\ status'[s] = "waiting" /\ tokens'[s] = [i \in 1 .. k |-> s]
      /\ \A t \in Seqs \ {s} : status'[t] = status[t] /\ tokens'[t] = tokens[t]
  BY <1>1, <1>2, <1>3 DEF Typed
<1>10. Spared(r)
  BY <1>1, <1>3, <1>9 DEF Spared
<1>11. Grouped(r, status', r \in batch')
  BY <1>1, <1>3, <1>4, <1>5, <1>9 DEF Grouped, Live
<1>12. ASSUME NEW t \in Members(r)
       PROVE  Right(m', t, status'[t], tokens'[t], t \in prefill', r \in batch')
  <2>1. Right(m, t, status[t], tokens[t], t \in prefill, r \in batch)
    BY <1>2
  <2>2. CASE t = s
    <3>1. Listed(m.table[s]) \subseteq Device("absent")
      BY <1>3, <2>1, <2>2 DEF Right, Sound
    <3>2. Device("absent") = {}
      BY DEF Device
    <3>3. Recorded("waiting", tokens'[s], s \in prefill', r \in batch')
      BY <1>3, <1>6, <1>7, <1>9 DEF Recorded, Live, Statuses
    <3> QED BY <1>3, <1>9, <2>2, <3>1, <3>2, <3>3 DEF Right, Sound
  <2>3. CASE t # s
    <3>1. status'[t] = status[t] /\ tokens'[t] = tokens[t] /\ (t \in prefill') = (t \in prefill)
          /\ (r \in batch') = (r \in batch)
      BY <1>2, <1>3, <1>9, <2>3
    <3> QED BY <1>3, <2>1, <3>1
  <2> QED BY <2>2, <2>3
<1>13. Untouched(m, m', Members(r)) /\ Counted(m', Exactly)
  BY <1>2, <1>3, UntouchedNone
<1>14. Settled(r)'
  BY <1>11, <1>12 DEF Settled
<1> QED BY <1>3, <1>8, <1>10, <1>13, <1>14, GroupStep

\* The live sequences of a group.
LiveIn(r) == {s \in Members(r) : status[s] \in Live}

\* They are in one place.
LEMMA MatesAre ==
    ASSUME Inductive, NEW r \in Requests, NEW st \in Live, InPlace(r, st) # {}
    PROVE  LiveIn(r) = InPlace(r, st) /\ (st # "running" => r \notin batch)
<1>1. Grouped(r, status, r \in batch)
  BY GroupIs
<1>2. \A s \in Members(r) : status[s] \in Live => status[s] = st
  BY <1>1 DEF Grouped, InPlace
<1>3. "running" \in Live
  BY DEF Live
<1>4. r \in batch => st = "running"
  BY <1>1, <1>2, <1>3 DEF Grouped
<1> QED BY <1>2, <1>4 DEF LiveIn, InPlace

\* Who is not touched by serving some is not touched by serving more.
LEMMA UntouchedMore ==
    ASSUME NEW n, NEW x, NEW S, NEW T, S \subseteq T, Untouched(n, x, S)
    PROVE  Untouched(n, x, T)
  BY DEF Untouched

\* A group of which no live sequence remains.
LEMMA FinishStep ==
    ASSUME Inductive, NEW r \in Requests, r \notin batch, NEW E, E = LiveIn(r), E # {},
           status' = [s \in Seqs |-> IF s \in E THEN "finished" ELSE status[s]],
           tokens' = [s \in Seqs |-> IF s \in E THEN <<>> ELSE tokens[s]],
           prefill' \subseteq Seqs, \A s \in E : s \notin prefill',
           \A s \in Seqs \ E : s \in prefill' <=> s \in prefill,
           batch' = batch, layers' = layers,
           Counted(m', Exactly), Untouched(m, m', E),
           \A s \in E : Listed(m'.table[s]) \subseteq CpuBlocks
    PROVE  Inductive'
<1>1. /\ Grouped(r, status, r \in batch) /\ Members(r) \in SUBSET Seqs
      /\ \A s \in Members(r) :
           /\ Right(m, s, status[s], tokens[s], s \in prefill, r \in batch)
           /\ tokens[s] \in Seq(Seqs) /\ status[s] \in Statuses
      /\ Counted(m, Exactly) /\ m \in Managers /\ Typed
  BY GroupIs
<1>2. E \subseteq Members(r) /\ E \subseteq Seqs
  BY <1>1 DEF LiveIn
<1>3. \A s \in Seqs : /\ s \in E => status'[s] = "finished" /\ tokens'[s] = <<>>
                      /\ s \notin E => status'[s] = status[s] /\ tokens'[s] = tokens[s]
  OBVIOUS
<1>4. Typed'
  <2>1. "finished" \in Statuses
    BY DEF Statuses
  <2>2. \A s \in Seqs : status'[s] \in Statuses /\ tokens'[s] \in Seq(Seqs)
    <3>1. \A s \in Seqs : status[s] \in Statuses /\ tokens[s] \in Seq(Seqs)
      BY <1>1 DEF Typed
    <3>2. <<>> \in Seq(Seqs)
      OBVIOUS
    <3> QED BY <1>3, <2>1, <3>1, <3>2
  <2>3. status' \in [Seqs -> Statuses] /\ tokens' \in [Seqs -> Seq(Seqs)]
    <3>1. DOMAIN status' = Seqs /\ DOMAIN tokens' = Seqs
          /\ status' = [s \in Seqs |-> status'[s]] /\ tokens' = [s \in Seqs |-> tokens'[s]]
      OBVIOUS
    <3> QED BY <2>2, <3>1
  <2> QED BY <1>1, <2>3 DEF Typed
<1>5. Spared(r)
  BY <1>2, <1>3 DEF Spared
<1>6. Untouched(m, m', Members(r))
  BY <1>2, UntouchedMore
<1>7. \A s \in Members(r) : status'[s] \notin Live /\ (status'[s] = "absent" => status[s] = "absent")
  BY <1>1, <1>3 DEF LiveIn, Live
<1>8. Grouped(r, status', r \in batch')
  <2>1. SeqsOf[r][1] \in Members(r)
    BY MembersAre
  <2>2. \E s \in Members(r) : status[s] # "absent"
    BY DEF LiveIn, Live
  <2>3. status'[SeqsOf[r][1]] # "absent"
    BY <1>1, <1>7, <2>1, <2>2 DEF Grouped
  <2>4. "waiting" \in Live
    BY DEF Live
  <2> QED BY <1>7, <2>3, <2>4 DEF Grouped
<1>9. ASSUME NEW s \in Members(r)
      PROVE  Right(m', s, status'[s], tokens'[s], s \in prefill', r \in batch')
  <2>1. CASE s \in E
    <3>1. Listed(m'.table[s]) \subseteq Device("finished")
      BY <2>1 DEF Device
    <3>2. status'[s] = "finished" /\ tokens'[s] = <<>> /\ (s \in prefill') = FALSE
      BY <1>2, <1>3, <2>1
    <3>3. s \notin prefill'
      BY <2>1
    <3> QED BY <3>1, <3>2, <3>3 DEF Right, Recorded, Sound, Live, Statuses
  <2>2. CASE s \notin E
    <3>1. s \in Seqs \ E
      BY <1>1, <2>2
    <3>2. /\ status'[s] = status[s] /\ tokens'[s] = tokens[s]
          /\ (s \in prefill') = (s \in prefill) /\ (r \in batch') = (r \in batch)
      BY <1>3, <3>1
    <3>3. Right(m', s, status[s], tokens[s], s \in prefill, r \in batch)
      BY <1>1, <3>1, RightStays
    <3> QED BY <3>2, <3>3
  <2> QED BY <2>1, <2>2
<1>10. Settled(r)'
  BY <1>8, <1>9 DEF Settled
<1> QED BY <1>4, <1>5, <1>6, <1>10, GroupStep

\* A prompt that never fits is ignored.
LEMMA IgnoreStep ==
    ASSUME Inductive, NEW r \in Requests, IgnoreSeqGroup(r)
    PROVE  Inductive' /\ fault' = "none"
<1> DEFINE E == InPlace(r, "waiting")
<1>1. ToSet(SeqsIn(r, "waiting")) = E /\ E # {}
  BY SeqsInIs DEF IgnoreSeqGroup
<1>2. LiveIn(r) = E /\ r \notin batch
  BY <1>1, MatesAre DEF Live
<1>3. /\ status' = [s \in Seqs |-> IF s \in E THEN "finished" ELSE status[s]]
      /\ tokens' = [s \in Seqs |-> IF s \in E THEN <<>> ELSE tokens[s]]
      /\ prefill' = prefill \ E /\ m' = m /\ layers' = layers /\ batch' = batch
      /\ fault' = fault /\ fault = "none"
  BY <1>1 DEF IgnoreSeqGroup, SetStatus, Forget, Up
<1>4. prefill' \subseteq Seqs /\ (\A s \in E : s \notin prefill')
      /\ \A s \in Seqs \ E : s \in prefill' <=> s \in prefill
  BY <1>3, GroupIs DEF Typed
<1>5. \A s \in E : Listed(m'.table[s]) \subseteq CpuBlocks
  <2> SUFFICES ASSUME NEW s \in E PROVE Listed(m.table[s]) \subseteq CpuBlocks
    BY <1>3
  <2>1. s \in Seqs /\ status[s] = "waiting"
    BY GroupIs DEF InPlace
  <2>2. Listed(m.table[s]) \subseteq Device(status[s])
    BY <2>1, EachRight
  <2> QED BY <2>1, <2>2 DEF Device
<1>6. Counted(m', Exactly) /\ Untouched(m, m', E)
  BY <1>3, GroupIs, UntouchedNone
<1> HIDE DEF E
<1>7. Inductive'
  BY <1>1, <1>2, <1>3, <1>4, <1>5, <1>6, FinishStep
<1> QED BY <1>3, <1>7

\* A swapped group that never fits is dropped, with its blocks.
LEMMA DropStep ==
    ASSUME Inductive, NEW r \in Requests, DropSwapped(r)
    PROVE  Inductive' /\ fault' = "none"
<1> DEFINE E == InPlace(r, "swapped")
<1>1. ToSet(SeqsIn(r, "swapped")) = E /\ E # {}
  BY SeqsInIs DEF DropSwapped
<1>2. LiveIn(r) = E /\ r \notin batch
  BY <1>1, MatesAre DEF Live
<1>3. /\ status' = [s \in Seqs |-> IF s \in E THEN "finished" ELSE status[s]]
      /\ tokens' = [s \in Seqs |-> IF s \in E THEN <<>> ELSE tokens[s]]
      /\ prefill' = prefill /\ m' = m /\ layers' = layers /\ batch' = batch
      /\ fault' = fault /\ fault = "none"
  BY <1>1 DEF DropSwapped, SetStatus, Forget, Up
<1>4. prefill' \subseteq Seqs /\ \A s \in E : s \notin prefill'
  <2>1. \A s \in E : /\ Recorded(status[s], tokens[s], s \in prefill, r \in batch)
                     /\ status[s] = "swapped"
    BY GroupIs DEF InPlace, Right
  <2> QED BY <1>3, <2>1, GroupIs DEF Recorded, Typed
<1>5. \A s \in E : Listed(m'.table[s]) \subseteq CpuBlocks
  <2> SUFFICES ASSUME NEW s \in E PROVE Listed(m.table[s]) \subseteq CpuBlocks
    BY <1>3
  <2>1. s \in Seqs /\ status[s] = "swapped"
    BY GroupIs DEF InPlace
  <2>2. Listed(m.table[s]) \subseteq Device(status[s])
    BY <2>1, EachRight
  <2> QED BY <2>1, <2>2 DEF Device
<1>6. Counted(m', Exactly) /\ Untouched(m, m', E)
  BY <1>3, GroupIs, UntouchedNone
<1> HIDE DEF E
<1>7. Inductive'
  BY <1>1, <1>2, <1>3, <1>4, <1>5, <1>6, FinishStep
<1> QED BY <1>3, <1>7

\* A request is aborted between two steps.
LEMMA AbortStep ==
    ASSUME Window = 0, Inductive, NEW r \in Requests, AbortSeqGroup(r)
    PROVE  Inductive' /\ fault' = "none"
<1> DEFINE E == LiveIn(r)
<1>1. /\ Unfinished(r) \in Seq(Seqs) /\ Listed(Unfinished(r)) = E
      /\ ToSet(Unfinished(r)) = E /\ (Unfinished(r) # <<>> <=> E # {})
  BY UnfinishedIs DEF LiveIn
<1>2. Counted(m, Exactly) /\ Members(r) \in SUBSET Seqs /\ Typed
  BY GroupIs
<1>3. PICK x : /\ FreeAll(m, Unfinished(r)) = Ok(x) /\ Counted(x, Exactly)
               /\ \A s \in E : x.table[s] = <<>>
               /\ Untouched(m, x, E)
  <2> HIDE DEF E
  <2> QED BY <1>1, <1>2, FreeAllIs
<1>4. /\ status' = [s \in Seqs |-> IF s \in E THEN "finished" ELSE status[s]]
      /\ tokens' = [s \in Seqs |-> IF s \in E THEN <<>> ELSE tokens[s]]
      /\ prefill' = prefill \ E /\ layers' = layers /\ batch' = batch
      /\ m' = x /\ fault' = "none" /\ r \notin batch /\ E # {}
  BY <1>1, <1>3 DEF AbortSeqGroup, SetStatus, Forget, Call, Ok
<1>5. prefill' \subseteq Seqs /\ (\A s \in E : s \notin prefill')
      /\ \A s \in Seqs \ E : s \in prefill' <=> s \in prefill
  BY <1>2, <1>4 DEF Typed
<1>6. \A s \in E : Listed(m'.table[s]) \subseteq CpuBlocks
  BY <1>3, <1>4 DEF Listed, Firsts
<1>7. Counted(m', Exactly) /\ Untouched(m, m', E)
  BY <1>3, <1>4
<1>8. E = LiveIn(r)
  OBVIOUS
<1> HIDE DEF E
<1>9. Inductive'
  BY <1>4, <1>5, <1>6, <1>7, <1>8, FinishStep
<1> QED BY <1>4, <1>9

\* A number below the divisor is the rest.
LEMMA SmallRest ==
    ASSUME NEW k \in Nat, k > 0, NEW j \in 0 .. k - 1
    PROVE  j % k = j
  BY SMTT(30)

\* A group that waits counts at least the one that waits, and Exactly that one.
LEMMA NumSeqsIs ==
    ASSUME Inductive, NEW r \in Requests, NEW s \in InPlace(r, "waiting")
    PROVE  NumSeqs(r) \in Nat /\ NumSeqs(r) >= 1 /\ (Exactly => NumSeqs(r) = 1)
<1> DEFINE S == {t \in Seqs : status[t] # "absent"}
           A == Members(r) \cap S
<1>1. SeqsOf[r] \in Seq(Seqs) /\ Distinct(SeqsOf[r]) /\ Members(r) \in SUBSET Seqs
      /\ IsFiniteSet(Members(r))
  BY MembersAre
<1>2. s \in A /\ (Exactly => A = {s})
  <2>1. status[s] = "waiting" /\ s \in Members(r) /\ Grouped(r, status, r \in batch)
    BY GroupIs DEF InPlace
  <2> QED BY <1>1, <2>1 DEF Grouped
<1> HIDE DEF S
<1>3. NumSeqs(r) = Cardinality(A)
  <2>1. /\ Only(SeqsOf[r], S) \in Seq(Seqs) /\ Distinct(Only(SeqsOf[r], S))
        /\ Listed(Only(SeqsOf[r], S)) = A
    BY <1>1, OnlyIs DEF Members
  <2>2. NumSeqs(r) = Len(Only(SeqsOf[r], S))
    BY DEF NumSeqs, S
  <2> QED BY <2>1, <2>2, DistinctLen
<1>4. IsFiniteSet(A)
  BY <1>1, FS_Subset
<1> HIDE DEF A
<1>5. Cardinality(A) \in Nat /\ Cardinality(A) # 0
  BY <1>2, <1>4, FS_CardinalityType, FS_EmptySet
<1>6. Exactly => Cardinality(A) = 1
  BY <1>2, FS_Singleton
<1> QED BY <1>3, <1>5, <1>6

\* The manager of allocate: x is m with a table of fresh blocks f for s.
Allocated(x, r, s, k, f) ==
    /\ x \in Managers
    /\ x.table[s] = [i \in 1 .. k |-> f[i]]
    /\ \A t \in Seqs \ {s} : x.table[t] = m.table[t]
    /\ x.data = m.data
    /\ \A c \in Blocks :
         /\ x.refs[c] = IF \E i \in 1 .. k : f[i] = c THEN NumSeqs(r) ELSE m.refs[c]
         /\ c \in x.free <=> c \in m.free /\ ~ \E i \in 1 .. k : f[i] = c

\* The blocks of a prompt are fresh: they have one owner, and as many references as the
\* group has sequences.
LEMMA AllocatedIs ==
    ASSUME Inductive, NEW r \in Requests, NEW s \in InPlace(r, "waiting"),
           NEW k \in Nat, k = NumLogicalBlocks(Len(tokens[s])),
           NEW f, \A i \in 1 .. k : f[i] \in m.free \cap GpuBlocks,
           \A i, j \in 1 .. k : f[i] = f[j] => i = j,
           NEW x, Allocated(x, r, s, k, f)
    PROVE  /\ Counted(x, Exactly) /\ Untouched(m, x, {s})
           /\ Listed(x.table[s]) \subseteq GpuBlocks /\ Prepared(x, s, tokens[s], TRUE)
<1>1. /\ s \in Seqs /\ Counted(m, Exactly) /\ m \in Managers /\ status[s] = "waiting"
      /\ NumSeqs(r) \in Nat /\ NumSeqs(r) >= 1 /\ (Exactly => NumSeqs(r) = 1)
  BY GroupIs, NumSeqsIs DEF InPlace
<1>2. Listed(m.table[s]) = {}
  <2>1. Listed(m.table[s]) \subseteq Device(status[s])
    BY <1>1, EachRight
  <2> QED BY <1>1, <2>1 DEF Device
<1> DEFINE New == {c \in Blocks : \E i \in 1 .. k : f[i] = c}
<1>3. \A i \in 1 .. k : f[i] \in New /\ f[i] \in m.free /\ f[i] \in GpuBlocks
  BY <1>1 DEF Blocks
<1>4. /\ x \in Managers /\ x.table[s] = [i \in 1 .. k |-> f[i]]
      /\ \A t \in Seqs \ {s} : x.table[t] = m.table[t]
      /\ x.data = m.data
      /\ \A c \in Blocks :
           /\ x.refs[c] = IF c \in New THEN NumSeqs(r) ELSE m.refs[c]
           /\ c \in x.free <=> c \in m.free /\ c \notin New
  BY DEF Allocated
<1>5. Len(x.table[s]) = k /\ Distinct(x.table[s]) /\ Listed(x.table[s]) = New
  <2>1. Len(x.table[s]) = k /\ \A i \in 1 .. k : x.table[s][i] = f[i]
    BY <1>4
  <2>2. Distinct(x.table[s])
    BY <2>1 DEF Distinct
  <2>3. \A c : c \in Listed(x.table[s]) <=> c \in New
    BY <1>3, <2>1 DEF Listed, Firsts
  <2> QED BY <2>1, <2>2, <2>3
<1>6. \A c \in New : c \in m.free /\ c \in GpuBlocks /\ c \in Blocks
  BY <1>3
<1> HIDE DEF New
<1>7. \A c \in New : Owners(m, c) = {} /\ Owners(x, c) = {s}
  <2> SUFFICES ASSUME NEW c \in New PROVE Owners(m, c) = {} /\ Owners(x, c) = {s}
    OBVIOUS
  <2>1. Owners(m, c) = {}
    BY <1>1, <1>6, InUse
  <2>2. \A t \in Seqs : t \in Owners(x, c) <=> t = s
    BY <1>1, <1>4, <1>5, <2>1 DEF Owners
  <2>3. Owners(x, c) \subseteq Seqs
    BY OwnersFinite
  <2> QED BY <1>1, <2>1, <2>2, <2>3
<1>8. \A c : c \notin New => Owners(x, c) = Owners(m, c)
  <2> SUFFICES ASSUME NEW c, c \notin New PROVE Owners(x, c) = Owners(m, c)
    OBVIOUS
  <2>1. \A t \in Seqs : c \in Listed(x.table[t]) <=> c \in Listed(m.table[t])
    BY <1>2, <1>4, <1>5
  <2> QED BY <2>1 DEF Owners
<1>9. Counted(x, Exactly)
  <2>1. \A t \in Seqs : Distinct(x.table[t])
    BY <1>1, <1>4, <1>5 DEF Counted
  <2>2. ASSUME NEW c \in Blocks
        PROVE  /\ Cardinality(Owners(x, c)) <= x.refs[c]
               /\ Exactly => x.refs[c] = Cardinality(Owners(x, c))
               /\ c \in x.free <=> x.refs[c] = 0
    <3>1. CASE c \in New
      <4>1. Cardinality(Owners(x, c)) = 1
        BY <1>7, <3>1, FS_Singleton
      <4> QED BY <1>1, <1>4, <3>1, <4>1
    <3>2. CASE c \notin New
      <4>1. Owners(x, c) = Owners(m, c) /\ x.refs[c] = m.refs[c]
            /\ (c \in x.free <=> c \in m.free)
        BY <1>4, <1>8, <3>2
      <4> QED BY <1>1, <4>1 DEF Counted
    <3> QED BY <3>1, <3>2
  <2> QED BY <1>4, <2>1, <2>2 DEF Counted
<1>10. Untouched(m, x, {s})
  <2> SUFFICES ASSUME NEW t \in Seqs \ {s}, NEW b \in Listed(m.table[t])
               PROVE  Owners(m, b) = {t} => Owners(x, b) = {t}
    BY <1>4 DEF Untouched
  <2>1. b \notin m.free
    BY <1>1, InUse
  <2>2. Owners(x, b) = Owners(m, b)
    BY <1>6, <1>8, <2>1
  <2> QED BY <2>2
<1>11. Listed(x.table[s]) \subseteq GpuBlocks
  BY <1>5, <1>6
<1>12. Prepared(x, s, tokens[s], TRUE)
  BY <1>5, <1>7 DEF Prepared, Alone
<1> QED BY <1>9, <1>10, <1>11, <1>12

\* allocate
LEMMA AllocateIs ==
    ASSUME Window = 0, Inductive, NEW r \in Requests, NEW s, InPlace(r, "waiting") = {s},
           NEW o \in Allocate(r)
    PROVE  \/ o = Raise(m, "allocate") /\ FreeGpu(m) < NumLogicalBlocks(Len(tokens[s]))
           \/ \E x : /\ o = Ok(x) /\ Counted(x, Exactly) /\ Untouched(m, x, {s})
                     /\ Listed(x.table[s]) \subseteq GpuBlocks
                     /\ Prepared(x, s, tokens[s], TRUE)
<1>1. /\ s \in Seqs /\ s \in Members(r) /\ Counted(m, Exactly) /\ m \in Managers
      /\ s \in InPlace(r, "waiting") /\ tokens[s] \in Seq(Seqs)
      /\ NumSeqs(r) \in Nat /\ NumSeqs(r) >= 1
  <2>1. s \in InPlace(r, "waiting")
    OBVIOUS
  <2> QED BY <2>1, GroupIs, NumSeqsIs DEF InPlace
<1>2. ToSet(SeqsIn(r, "waiting")) = {s} /\ SeqsIn(r, "waiting")[1] = s
  <2>1. /\ SeqsIn(r, "waiting") \in Seq(Seqs) /\ Listed(SeqsIn(r, "waiting")) = {s}
        /\ ToSet(SeqsIn(r, "waiting")) = {s}
    BY SeqsInIs
  <2>2. SeqsIn(r, "waiting") # <<>>
    BY <2>1, ListedIs
  <2>3. 1 \in 1 .. Len(SeqsIn(r, "waiting"))
    BY <2>1, <2>2, EmptySeq
  <2>4. SeqsIn(r, "waiting")[1] \in Listed(SeqsIn(r, "waiting"))
    BY <2>3 DEF Listed, Firsts
  <2> QED BY <2>1, <2>4
<1>3. PICK k \in Nat : k = NumLogicalBlocks(Len(tokens[s])) /\ k > 0
  <2>1. PICK j \in Nat : j = Len(tokens[s]) /\ j > 0
    <3>1. Right(m, s, status[s], tokens[s], s \in prefill, r \in batch) /\ status[s] = "waiting"
      BY <1>1, GroupIs DEF InPlace
    <3>2. Len(tokens[s]) \in 1 .. MaxTokens - 1
      BY <3>1 DEF Right, Recorded, Live
    <3> QED BY <3>2, V1Assumption
  <2>2. NumLogicalBlocks(j) \in Nat /\ NumLogicalBlocks(j) > 0
    BY <2>1, BlocksStep
  <2> QED BY <2>1, <2>2
<1> DEFINE waiting == SeqsIn(r, "waiting")
           blocks == NumLogicalBlocks(Len(tokens[waiting[1]]))
           fresh == 1 .. (IF Window = 0 THEN blocks ELSE Min({blocks, Window}))
           Table(f) == [i \in 1 .. blocks |-> f[((i - 1) % Cardinality(fresh)) + 1]]
           New(f) == [m EXCEPT
                !.free = @ \ Range(f),
                !.refs = [b \in Blocks |-> IF b \in Range(f) THEN NumSeqs(r) ELSE m.refs[b]],
                !.table = [t \in Seqs |-> IF t \in ToSet(waiting) THEN Table(f) ELSE m.table[t]]]
<1>4. blocks = k /\ fresh = 1 .. k /\ Cardinality(fresh) = k
  <2>1. blocks = k
    BY <1>2, <1>3
  <2>2. fresh = 1 .. k
    BY <2>1
  <2>3. Cardinality(1 .. k) = k
    BY <1>3, FS_Interval
  <2> QED BY <2>1, <2>2, <2>3
<1>5. \/ o = Raise(m, "allocate") /\ Takes(m, fresh, GpuBlocks) = {}
      \/ \E f \in Takes(m, fresh, GpuBlocks) : o = Ok(New(f))
  BY Zenon DEF Allocate
<1>6. m.free \cap GpuBlocks \in SUBSET Blocks
  BY <1>1 DEF Blocks
<1>7. IsFiniteSet(m.free \cap GpuBlocks) /\ FreeGpu(m) \in Nat
  BY <1>6, BlocksFinite DEF FreeGpu
<1>8. CASE o = Raise(m, "allocate") /\ Takes(m, fresh, GpuBlocks) = {}
  <2>1. IsFiniteSet(fresh)
    BY <1>3, <1>4, FS_Interval
  <2>2. PICK A : A = m.free \cap GpuBlocks
    OBVIOUS
  <2> HIDE DEF fresh
  <2>3. Injection(fresh, A) = {} /\ IsFiniteSet(A) /\ FreeGpu(m) = Cardinality(A)
    BY <1>7, <1>8, <2>2 DEF Takes, FreeGpu
  <2>4. ~(Cardinality(fresh) <= Cardinality(A))
    <3> SUFFICES ASSUME Cardinality(fresh) <= Cardinality(A) PROVE FALSE
      OBVIOUS
    <3>1. IsFiniteSet(fresh) /\ IsFiniteSet(A) /\ Cardinality(fresh) <= Cardinality(A)
      BY <2>1, <2>3
    <3>2. Injection(fresh, A) # {}
      BY <3>1, InjectionExists
    <3> QED BY <2>3, <3>2
  <2>5. Cardinality(fresh) = k
    BY <1>4
  <2>6. FreeGpu(m) < k
    BY <1>3, <1>7, <2>3, <2>4, <2>5
  <2> QED BY <1>3, <1>8, <2>6
<1>9. CASE \E f \in Takes(m, fresh, GpuBlocks) : o = Ok(New(f))
  <2>1. PICK f : f \in Takes(m, fresh, GpuBlocks) /\ o = Ok(New(f))
    BY <1>9
  <2>2. f \in Injection(1 .. k, m.free \cap GpuBlocks)
    BY <1>4, <2>1 DEF Takes
  <2>3. /\ f \in [1 .. k -> m.free \cap GpuBlocks] /\ DOMAIN f = 1 .. k
        /\ \A i, j \in 1 .. k : f[i] = f[j] => i = j
    BY <2>2 DEF Injection, IsInjective
  <2>4. Table(f) = [i \in 1 .. k |-> f[i]]
    <3>1. \A i \in 1 .. k : ((i - 1) % k) + 1 = i
      <4> SUFFICES ASSUME NEW i \in 1 .. k PROVE ((i - 1) % k) + 1 = i
        OBVIOUS
      <4>1. i - 1 \in 0 .. k - 1
        BY <1>3
      <4>2. (i - 1) % k = i - 1
        BY <1>3, <4>1, SmallRest
      <4> QED BY <4>2
    <3>2. Table(f) = [i \in 1 .. k |-> f[((i - 1) % k) + 1]]
      BY <1>4
    <3> HIDE DEF Table
    <3> QED BY <3>1, <3>2
  <2>5. PICK x : x = New(f)
    BY <2>1
  <2>6. /\ x.free = m.free \ Range(f)
        /\ x.refs = [b \in Blocks |-> IF b \in Range(f) THEN NumSeqs(r) ELSE m.refs[b]]
        /\ x.table = [t \in Seqs |-> IF t \in ToSet(waiting) THEN Table(f) ELSE m.table[t]]
        /\ x.data = m.data
        /\ x = [free |-> x.free, refs |-> x.refs, table |-> x.table, data |-> x.data]
    <3> HIDE DEF Table
    <3> QED BY <1>1, <2>5 DEF Managers
  <2> HIDE DEF New
  <2>7. \A c : c \in Range(f) <=> \E i \in 1 .. k : f[i] = c
    BY <2>3 DEF Range
  <2>8. x.table[s] = [i \in 1 .. k |-> f[i]] /\ \A t \in Seqs \ {s} : x.table[t] = m.table[t]
    <3> HIDE DEF Table
    <3> QED BY <1>1, <1>2, <2>4, <2>6
  <2>9. x \in Managers
    <3>1. x.free \subseteq Blocks /\ x.data \in [Blocks -> [Slots -> Cells]]
      BY <1>1, <2>6, ManagerIs
    <3>2. x.refs \in [Blocks -> Nat]
      <4>1. \A c \in Blocks : m.refs[c] \in Nat
        BY <1>1, ManagerIs
      <4> QED BY <1>1, <2>6, <4>1
    <3>3. \A t \in Seqs : x.table[t] \in Seq(Blocks)
      <4>1. \A i \in 1 .. k : f[i] \in Blocks
        BY <2>3 DEF Blocks
      <4>2. x.table[s] \in Seq(Blocks)
        BY <2>8, <4>1
      <4>3. \A t \in Seqs : m.table[t] \in Seq(Blocks)
        BY <1>1, ManagerIs
      <4> QED BY <2>8, <4>2, <4>3
    <3>4. x.table \in [Seqs -> Seq(Blocks)]
      <4>1. x.table = [t \in Seqs |-> x.table[t]]
        BY <2>6
      <4> QED BY <3>3, <4>1
    <3> QED BY <2>6, <3>1, <3>2, <3>4 DEF Managers
  <2>10. Allocated(x, r, s, k, f)
    BY <2>6, <2>7, <2>8, <2>9 DEF Allocated
  <2>11. \A i \in 1 .. k : f[i] \in m.free \cap GpuBlocks
    BY <2>3
  <2>12. /\ Counted(x, Exactly) /\ Untouched(m, x, {s})
         /\ Listed(x.table[s]) \subseteq GpuBlocks /\ Prepared(x, s, tokens[s], TRUE)
    BY <1>1, <1>3, <2>3, <2>10, <2>11, AllocatedIs
  <2> QED BY <2>1, <2>5, <2>12
<1> QED BY <1>5, <1>8, <1>9

\* The live sequences of a group are all that the manager served.
LEMMA MoveStep ==
    ASSUME Inductive, NEW r \in Requests, NEW from \in Live, NEW st \in Live,
           NEW E, E = InPlace(r, from), E # {},
           Typed', tokens' = tokens,
           \A s \in Seqs : status'[s] = IF s \in E THEN st ELSE status[s],
           \A s \in Seqs \ E : s \in prefill' <=> s \in prefill,
           \A q \in Requests \ {r} : q \in batch' <=> q \in batch,
           r \in batch' => st = "running",
           st = "waiting" => /\ \A s, t \in E : s = t
                             /\ Exactly => \A t \in Members(r) \ E : status[t] = "absent",
           Counted(m', Exactly), Untouched(m, m', E),
           \A s \in E : /\ Sound(m', s, st, tokens[s], s \in prefill', r \in batch')
                        /\ st = "waiting" => s \in prefill'
                        /\ s \in prefill' => st = "waiting" \/ (st = "running" /\ r \in batch')
    PROVE  Inductive'
<1>1. /\ Grouped(r, status, r \in batch) /\ Members(r) \in SUBSET Seqs
      /\ \A s \in Members(r) :
           /\ Right(m, s, status[s], tokens[s], s \in prefill, r \in batch)
           /\ tokens[s] \in Seq(Seqs) /\ status[s] \in Statuses
      /\ Counted(m, Exactly) /\ m \in Managers /\ Typed
  BY GroupIs
<1>2. E \subseteq Members(r) /\ E \subseteq Seqs /\ LiveIn(r) = E /\ \A s \in E : status[s] = from
  BY <1>1, MatesAre DEF InPlace
<1>3. \A s \in Members(r) \ E : status[s] \notin Live
  BY <1>2 DEF LiveIn
<1>4. /\ \A s \in E : status'[s] = st
      /\ \A s \in Seqs \ E : status'[s] = status[s]
  BY <1>2
<1>5. Spared(r)
  BY <1>2, <1>4 DEF Spared
<1>6. Untouched(m, m', Members(r))
  BY <1>2, UntouchedMore
<1>7. Grouped(r, status', r \in batch')
  <2>1. r \in batch' => \E s \in Members(r) : status'[s] = "running"
    BY <1>2, <1>4
  <2>2. status'[SeqsOf[r][1]] # "absent"
    <3>1. SeqsOf[r][1] \in Members(r)
      BY MembersAre
    <3>2. st # "absent" /\ from # "absent"
      BY DEF Live
    <3>3. CASE SeqsOf[r][1] \in E
      BY <1>4, <3>2, <3>3
    <3>4. CASE SeqsOf[r][1] \notin E
      <4>1. status[SeqsOf[r][1]] # "absent"
        BY <1>1, <1>2, <3>2 DEF Grouped
      <4> QED BY <1>1, <1>4, <3>1, <3>4, <4>1
    <3> QED BY <3>3, <3>4
  <2>3. \A s \in Members(r) : status'[s] \in Live <=> s \in E
    BY <1>1, <1>3, <1>4
  <2>4. \A s \in Members(r) : status'[s] = "waiting" => s \in E /\ st = "waiting"
    BY <1>4, <2>3 DEF Live
  <2>5. \A s, t \in Members(r) : status'[s] \in Live /\ status'[t] \in Live =>
          status'[s] = status'[t] /\ (status'[s] = "waiting" => s = t)
    BY <1>4, <2>3
  <2>6. Exactly => \A s, t \in Members(r) : status'[s] = "waiting" /\ s # t => status'[t] = "absent"
    <3> SUFFICES ASSUME Exactly, NEW s \in Members(r), NEW t \in Members(r), status'[s] = "waiting",
                        s # t
                 PROVE  status'[t] = "absent"
      OBVIOUS
    <3>1. s \in E /\ st = "waiting"
      BY <2>4
    <3>2. t \notin E /\ t \in Seqs
      BY <1>1, <3>1
    <3>3. status[t] = "absent"
      BY <3>1, <3>2
    <3> QED BY <1>4, <3>2, <3>3
  <2> QED BY <2>1, <2>2, <2>5, <2>6 DEF Grouped
<1>8. ASSUME NEW s \in Members(r)
      PROVE  Right(m', s, status'[s], tokens'[s], s \in prefill', r \in batch')
  <2>1. Right(m, s, status[s], tokens[s], s \in prefill, r \in batch)
    BY <1>1
  <2>2. CASE s \in E
    <3>1. Len(tokens[s]) \in 1 .. MaxTokens - 1
      BY <1>2, <2>1, <2>2 DEF Right, Recorded
    <3>2. Sound(m', s, st, tokens[s], s \in prefill', r \in batch')
      BY <2>2
    <3>3. Recorded(st, tokens[s], s \in prefill', r \in batch')
      BY <2>2, <3>1 DEF Recorded, Statuses
    <3> QED BY <1>4, <2>2, <3>2, <3>3 DEF Right
  <2>3. CASE s \notin E
    <3>1. s \in Seqs \ E /\ status[s] # "running"
      BY <1>1, <1>3, <2>3 DEF Live
    <3>2. status'[s] = status[s] /\ tokens'[s] = tokens[s] /\ (s \in prefill') = (s \in prefill)
      BY <1>4, <3>1
    <3>3. Right(m', s, status[s], tokens[s], s \in prefill, r \in batch)
      BY <1>1, <3>1, RightStays
    <3>4. Right(m', s, status[s], tokens[s], s \in prefill, r \in batch')
      BY <3>1, <3>3, RightElse
    <3> QED BY <3>2, <3>4
  <2> QED BY <2>2, <2>3
<1>9. Settled(r)'
  BY <1>7, <1>8 DEF Settled
<1> QED BY <1>5, <1>6, <1>9, GroupStep

\* The layers that the metadata sets, and the batch.
LEMMA ScheduledIs ==
    ASSUME Inductive, NEW r \in Requests, NEW o, Scheduled(r, o)
    PROVE  /\ layers' \in [Requests -> {FreshLayers, NumLayers}]
           /\ batch' \subseteq Requests /\ r \in batch'
           /\ \A q \in Requests \ {r} : q \in batch' <=> q \in batch
  BY DEF Scheduled, Inductive, Typed

\* A call that does not raise, and then the metadata may.
LEMMA ScheduledOk ==
    ASSUME NEW r, NEW x, Scheduled(r, Ok(x))
    PROVE  m' = x /\ fault' \in {"none", "prefill of several sequences"}
  BY DEF Scheduled, Ok

\* A status for some sequences.
LEMMA SetStatusIs ==
    ASSUME Inductive, NEW list, NEW st \in Statuses, SetStatus(list, st)
    PROVE  /\ status' \in [Seqs -> Statuses]
           /\ \A s \in Seqs : status'[s] = IF s \in ToSet(list) THEN st ELSE status[s]
<1>1. \A s \in Seqs : status[s] \in Statuses
  BY DEF Inductive, Typed
<1> QED BY <1>1 DEF SetStatus

\* More layers than the model has mean at least as many blocks as the prompt.
LEMMA ScaledBlocks ==
    ASSUME NEW j \in Nat, j >= NumLayers, NEW k \in Nat
    PROVE  (j \div NumLayers) * k \in Nat /\ (j \div NumLayers) * k >= k
<1>1. NumLayers \in Nat /\ NumLayers > 0
  BY V1Assumption
<1>2. j \div NumLayers \in Nat /\ j \div NumLayers >= 1
  <2>1. j \div NumLayers \in Int /\ j = NumLayers * (j \div NumLayers) + (j % NumLayers)
        /\ j % NumLayers \in 0 .. NumLayers - 1
    BY <1>1, SMTT(30)
  <2>2. \A q \in Int : q <= 0 => NumLayers * q <= 0
    BY <1>1, SMTT(30)
  <2>3. PICK q \in Int, e \in 0 .. NumLayers - 1 : q = j \div NumLayers /\ j = NumLayers * q + e
    BY <2>1
  <2>4. PICK p \in Int : p = NumLayers * q
    BY <1>1
  <2>5. ~(q <= 0)
    BY <1>1, <2>2, <2>3, <2>4
  <2> QED BY <2>3, <2>5
<1>3. \A q \in Nat : q >= 1 => q * k \in Nat /\ q * k >= k
  BY SMTT(30)
<1> QED BY <1>2, <1>3

\* A group is admitted: CanAllocate has seen the blocks that allocate takes, unless the
\* layers of a new group are fewer than those of the model.
LEMMA AllocateStep ==
    ASSUME Window = 0, Inductive, NEW r \in Requests, AllocateAndSetRunning(r)
    PROVE  \/ Inductive' /\ fault' \in {"none", "prefill of several sequences"}
           \/ TypeOK' /\ fault' = "allocate" /\ FreshLayers < NumLayers
<1>1. ToSet(SeqsIn(r, "waiting")) = InPlace(r, "waiting") /\ InPlace(r, "waiting") # {}
      /\ Listed(SeqsIn(r, "waiting")) = InPlace(r, "waiting")
      /\ SeqsIn(r, "waiting") \in Seq(Seqs)
  BY SeqsInIs DEF AllocateAndSetRunning
<1>2. "waiting" \in Live /\ "running" \in Live /\ "running" \in Statuses
  BY DEF Live, Statuses
<1>3. PICK s \in Members(r) : InPlace(r, "waiting") = {s}
  BY <1>1, <1>2, GroupIs DEF InPlace, Grouped
<1>4. PICK o \in Allocate(r) : Scheduled(r, o)
  BY DEF AllocateAndSetRunning
<1>5. /\ tokens' = tokens /\ prefill' = prefill
      /\ SetStatus(SeqsIn(r, "waiting"), "running") /\ CanAllocate(r) = "OK"
  BY DEF AllocateAndSetRunning
<1>6. /\ layers' \in [Requests -> {FreshLayers, NumLayers}]
      /\ batch' \subseteq Requests /\ r \in batch'
      /\ \A q \in Requests \ {r} : q \in batch' <=> q \in batch
  BY <1>4, ScheduledIs
<1>7. /\ status' \in [Seqs -> Statuses]
      /\ \A t \in Seqs : status'[t] = IF t \in InPlace(r, "waiting") THEN "running" ELSE status[t]
  BY <1>1, <1>2, <1>5, SetStatusIs
<1>8. Typed'
  BY <1>5, <1>6, <1>7 DEF Inductive, Typed
<1>9. s \in Seqs /\ status[s] = "waiting" /\ s \in prefill
  <2>1. s \in Members(r) /\ s \in InPlace(r, "waiting")
    BY <1>3
  <2>2. s \in Seqs /\ status[s] = "waiting"
        /\ Right(m, s, status[s], tokens[s], s \in prefill, r \in batch)
    BY <2>1, GroupIs DEF InPlace
  <2> QED BY <2>2 DEF Right, Recorded
<1>10. CASE o = Raise(m, "allocate") /\ FreeGpu(m) < NumLogicalBlocks(Len(tokens[s]))
  <2>1. m' = m /\ fault' = "allocate"
    BY <1>4, <1>10 DEF Raise, Scheduled
  <2>2. FreshLayers < NumLayers
    <3>1. PICK k \in Nat : k = NumLogicalBlocks(Len(tokens[s]))
      <4>1. Len(tokens[s]) \in Nat
        BY <1>9 DEF Inductive, Typed
      <4> QED BY <4>1, BlocksStep
    <3>2. SeqsIn(r, "waiting")[1] = s
      <4>1. SeqsIn(r, "waiting") # <<>>
        BY <1>1, ListedIs
      <4>2. 1 \in 1 .. Len(SeqsIn(r, "waiting"))
        BY <1>1, <4>1, EmptySeq
      <4>3. SeqsIn(r, "waiting")[1] \in Listed(SeqsIn(r, "waiting"))
        BY <4>2 DEF Listed, Firsts
      <4> QED BY <1>1, <1>3, <4>3
    <3>3. PICK j \in Nat : j = layers[r] /\ j \in {FreshLayers, NumLayers}
      BY V1Assumption DEF Inductive, Typed
    <3>4. FreeGpu(m) \in Nat
      <4>1. m.free \cap GpuBlocks \in SUBSET Blocks
        BY DEF Blocks
      <4> QED BY <4>1, BlocksFinite DEF FreeGpu
    <3>5. PICK g \in Nat : g = FreeGpu(m) /\ g < k
      BY <1>10, <3>1, <3>4
    <3>6. PICK z : z = (j \div NumLayers) * k
      OBVIOUS
    <3>7. g - z >= Watermark
      <4>1. NumFreeGpu = g
        BY <3>5 DEF NumFreeGpu, FreeGpu
      <4>2. CanAllocate(r) = IF Cardinality(GpuBlocks) - z < Watermark THEN "NEVER"
                             ELSE IF g - z >= Watermark THEN "OK" ELSE "LATER"
        BY <3>1, <3>2, <3>3, <3>6, <4>1 DEF CanAllocate
      <4> QED BY <1>5, <4>2
    <3>8. ~(j >= NumLayers)
      <4>1. j >= NumLayers => z \in Nat /\ z >= k
        BY <3>6, ScaledBlocks
      <4>2. Watermark \in Nat
        BY V1Assumption
      <4> QED BY <3>5, <3>7, <4>1, <4>2
    <3> QED BY <3>3, <3>8, V1Assumption
  <2>3. TypeOK'
    <3>1. TypeOK
      BY InductiveTypes
    <3>2. Listed(m.table[s]) = {}
      <4>1. Listed(m.table[s]) \subseteq Device("waiting")
        BY <1>9, EachRight
      <4> QED BY <4>1 DEF Device
    <3>3. m.table[s] \in Seq(Blocks)
      BY <1>9, GroupIs, ManagerIs
    <3>4. Range(m.table[s]) = {}
      BY <3>2, <3>3, RangeIs
    <3>5. layers' \in [Requests -> Nat] /\ batch' \subseteq Requests /\ prefill' \subseteq Seqs
      BY <1>5, <1>6, V1Assumption DEF Inductive, Typed
    <3>6. \A t \in Seqs : /\ tokens[t] \in BoundedSeq(Seqs, MaxTokens)
                          /\ Range(m.table[t]) \subseteq Device(status[t])
      BY <3>1, DeviceIs DEF TypeOK
    <3>7. \A t \in Seqs : Range(m.table[t]) \subseteq Device(status'[t])
      BY <1>3, <1>7, <3>4, <3>6
    <3>8. m.free \subseteq Blocks /\ m.refs \in [Blocks -> Nat]
          /\ m.data \in [Blocks -> [Slots -> {Nothing} \cup (Seqs \X (1 .. MaxTokens))]]
      BY <3>1 DEF TypeOK
    <3> QED BY <1>5, <2>1, <3>5, <3>6, <3>7, <3>8, DeviceIs DEF TypeOK
  <2> QED BY <2>1, <2>2, <2>3
<1>11. ASSUME NEW x, o = Ok(x), Counted(x, Exactly), Untouched(m, x, {s}),
              Listed(x.table[s]) \subseteq GpuBlocks, Prepared(x, s, tokens[s], TRUE)
       PROVE  Inductive' /\ fault' \in {"none", "prefill of several sequences"}
  <2>1. m' = x /\ fault' \in {"none", "prefill of several sequences"}
    BY <1>4, <1>11, ScheduledOk
  <2>2. Sound(x, s, "running", tokens[s], TRUE, TRUE)
    BY <1>11 DEF Sound, Device
  <2>3. (s \in prefill') = TRUE /\ (r \in batch') = TRUE
    BY <1>5, <1>6, <1>9
  <2>4. Sound(m', s, "running", tokens[s], s \in prefill', r \in batch')
    BY <2>1, <2>2, <2>3
  <2>5. PICK E : E = InPlace(r, "waiting") /\ E # {} /\ \A t : t \in E <=> t = s
    BY <1>3
  <2>6. Counted(m', Exactly) /\ Untouched(m, m', E)
    BY <1>3, <1>11, <2>1, <2>5
  <2>7. \A t \in E : /\ Sound(m', t, "running", tokens[t], t \in prefill', r \in batch')
                     /\ "running" = "waiting" => t \in prefill'
                     /\ t \in prefill' => "running" = "waiting" \/ ("running" = "running" /\ r \in batch')
    BY <1>6, <2>4, <2>5
  <2>8. \A t \in Seqs : status'[t] = IF t \in E THEN "running" ELSE status[t]
    BY <1>7, <2>5
  <2>9. \A t \in Seqs \ E : t \in prefill' <=> t \in prefill
    BY <1>5
  <2>10. Inductive'
    BY <1>2, <1>5, <1>6, <1>8, <2>5, <2>6, <2>7, <2>8, <2>9, MoveStep
  <2> QED BY <2>1, <2>10
<1> QED BY <1>3, <1>4, <1>10, <1>11, AllocateIs

\* Tokens that are kept at n are kept at x, if each block has its content there.
LEMMA HoldsCarried ==
    ASSUME NEW n \in Managers, NEW x, NEW s \in Seqs, NEW list, NEW k \in Nat,
           Len(n.table[s]) = NumLogicalBlocks(k),
           \A i \in 1 .. Len(n.table[s]) : x.data[x.table[s][i]] = n.data[n.table[s][i]],
           Holds(n, n.table[s], list, k)
    PROVE  Holds(x, x.table[s], list, k)
<1> SUFFICES ASSUME Exactly, NEW p \in 1 .. k
             PROVE  x.data[x.table[s][NumLogicalBlocks(p)]][(p - 1) % BlockSize] = <<list[p], p>>
  BY DEF Holds
<1>1. NumLogicalBlocks(p) \in 1 .. Len(n.table[s])
  BY Places
<1>2. n.data[n.table[s][NumLogicalBlocks(p)]][(p - 1) % BlockSize] = <<list[p], p>>
  BY DEF Holds
<1> QED BY <1>1, <1>2

\* A swap carries what a sequence keeps.
LEMMA CarriedKept ==
    ASSUME NEW n \in Managers, NEW x, NEW s \in Seqs, NEW list \in Seq(Seqs), Len(list) > 0,
           NEW pool, Carried(n, x, s, pool), Kept(n, s, list)
    PROVE  Kept(x, s, list)
<1>1. PICK k \in Nat : k = Len(list) - 1
  OBVIOUS
<1>2. Len(n.table[s]) = NumLogicalBlocks(k) /\ Holds(n, n.table[s], list, k)
  BY <1>1 DEF Kept
<1>3. /\ Len(x.table[s]) = Len(n.table[s])
      /\ \A i \in 1 .. Len(n.table[s]) : x.data[x.table[s][i]] = n.data[n.table[s][i]]
  BY DEF Carried
<1>4. Holds(x, x.table[s], list, k)
  BY <1>2, <1>3, HoldsCarried
<1> QED BY <1>1, <1>2, <1>3, <1>4 DEF Kept

\* Between two steps a sequence lacks the place of its newest token.
LEMMA KeptLacking ==
    ASSUME NEW n, NEW s, tokens[s] \in Seq(Seqs), Len(tokens[s]) > 0, Kept(n, s, tokens[s]),
           Listed(n.table[s]) \subseteq GpuBlocks
    PROVE  Lacking(n, s)
<1>1. PICK k \in Nat : Len(tokens[s]) = k + 1 /\ Len(tokens[s]) - 1 = k
  <2>1. Len(tokens[s]) \in Nat
    OBVIOUS
  <2>2. Len(tokens[s]) - 1 \in Nat /\ Len(tokens[s]) = (Len(tokens[s]) - 1) + 1
    BY <2>1
  <2> QED BY <2>2
<1> QED BY <1>1 DEF Kept, Lacking

\* With a slot for it, the sequence is ready for a step.
LEMMA SlottedPrepared ==
    ASSUME NEW n \in Managers, NEW x, NEW s \in Seqs, tokens[s] \in Seq(Seqs),
           Len(tokens[s]) > 0, Kept(n, s, tokens[s]), Slotted(n, x, s)
    PROVE  Sound(x, s, "running", tokens[s], FALSE, TRUE)
<1>1. PICK k \in Nat : k = Len(tokens[s]) - 1
  OBVIOUS
<1>2. Len(n.table[s]) = NumLogicalBlocks(k) /\ Holds(n, n.table[s], tokens[s], k)
  BY <1>1 DEF Kept
<1>3. /\ Len(x.table[s]) = NumLogicalBlocks(Len(tokens[s]))
      /\ Listed(x.table[s]) \subseteq GpuBlocks
      /\ Alone(x, x.table[s][Len(x.table[s])], s)
      /\ \A i \in 1 .. Len(n.table[s]) : x.data[x.table[s][i]] = n.data[n.table[s][i]]
  BY DEF Slotted
<1>4. Holds(x, x.table[s], tokens[s], k)
  BY <1>2, <1>3, HoldsCarried
<1> QED BY <1>1, <1>3, <1>4 DEF Sound, Prepared, Device

\* The running sequences of a queued group keep their tokens, as the swapped ones do.
LEMMA QueuedKeep ==
    ASSUME Inductive, NEW r \in Requests, NEW st \in {"running", "swapped"},
           st = "running" => r \notin batch, NEW s \in InPlace(r, st)
    PROVE  /\ s \in Seqs /\ tokens[s] \in Seq(Seqs) /\ Len(tokens[s]) > 0
           /\ Kept(m, s, tokens[s]) /\ s \notin prefill /\ Listed(m.table[s]) \subseteq Device(st)
<1>1. /\ s \in Members(r) /\ s \in Seqs /\ status[s] = st /\ tokens[s] \in Seq(Seqs)
      /\ Right(m, s, status[s], tokens[s], s \in prefill, r \in batch)
  BY GroupIs DEF InPlace
<1>2. Len(tokens[s]) > 0
  <2>1. Len(tokens[s]) \in 1 .. MaxTokens - 1
    BY <1>1 DEF Right, Recorded, Live
  <2> QED BY <2>1, V1Assumption
<1>3. Kept(m, s, tokens[s]) /\ Listed(m.table[s]) \subseteq Device(st)
  BY <1>1 DEF Right, Sound
<1>4. s \notin prefill
  BY <1>1 DEF Right, Recorded
<1> QED BY <1>1, <1>2, <1>3, <1>4

\* A running group gets the slots that CanAppendSlots has seen free.
LEMMA ScheduleStep ==
    ASSUME Window = 0, Inductive, NEW r \in Requests, ScheduleRunning(r)
    PROVE  Inductive' /\ fault' \in {"none", "prefill of several sequences"}
<1>1. PICK E : E = InPlace(r, "running")
  OBVIOUS
<1>2. PICK list : list = SeqsIn(r, "running")
  OBVIOUS
<1>3. /\ list \in Seq(Seqs) /\ Distinct(list) /\ Listed(list) = E
      /\ r \in Having("running") <=> E # {}
  BY <1>1, <1>2, SeqsInIs
<1>4. r \notin batch /\ E # {} /\ Len(list) <= FreeGpu(m)
  BY <1>2, <1>3 DEF ScheduleRunning, Queued, CanAppendSlots, FreeGpu, NumFreeGpu
<1>5. PICK o \in AppendAll(m, list) : Scheduled(r, o)
  BY <1>2 DEF ScheduleRunning
<1>6. tokens' = tokens /\ prefill' = prefill /\ status' = status
  BY DEF ScheduleRunning
<1>7. \A s \in E : /\ s \in Seqs /\ tokens[s] \in Seq(Seqs) /\ Len(tokens[s]) > 0
                   /\ Kept(m, s, tokens[s]) /\ s \notin prefill
                   /\ Listed(m.table[s]) \subseteq Device("running")
  BY <1>1, <1>4, QueuedKeep
<1>8. \A s \in Listed(list) : Lacking(m, s)
  <2>1. Device("running") = GpuBlocks
    BY DEF Device
  <2> QED BY <1>3, <1>7, <2>1, KeptLacking
<1>9. Counted(m, Exactly) /\ m \in Managers /\ Typed
  BY GroupIs
<1>10. PICK x : /\ o = Ok(x) /\ Counted(x, Exactly) /\ Untouched(m, x, Listed(list))
                /\ \A s \in Listed(list) : Slotted(m, x, s)
  BY <1>3, <1>4, <1>8, <1>9, AppendAllIs
<1>11. m' = x /\ fault' \in {"none", "prefill of several sequences"}
  BY <1>5, <1>10, ScheduledOk
<1>12. /\ layers' \in [Requests -> {FreshLayers, NumLayers}]
       /\ batch' \subseteq Requests /\ r \in batch'
       /\ \A q \in Requests \ {r} : q \in batch' <=> q \in batch
  BY <1>5, ScheduledIs
<1>13. Typed'
  BY <1>6, <1>9, <1>12 DEF Typed
<1>14. \A s \in E : /\ Sound(m', s, "running", tokens[s], s \in prefill', r \in batch')
                    /\ "running" = "waiting" => s \in prefill'
                    /\ s \in prefill' => "running" = "waiting" \/ ("running" = "running" /\ r \in batch')
  <2> SUFFICES ASSUME NEW s \in E
               PROVE  Sound(m', s, "running", tokens[s], s \in prefill', r \in batch')
    BY <1>12
  <2>1. Sound(x, s, "running", tokens[s], FALSE, TRUE)
    BY <1>3, <1>7, <1>9, <1>10, SlottedPrepared
  <2>2. (s \in prefill') = FALSE /\ (r \in batch') = TRUE
    BY <1>6, <1>7, <1>12
  <2> QED BY <1>11, <2>1, <2>2
<1>15. \A s \in Seqs : status'[s] = IF s \in E THEN "running" ELSE status[s]
  BY <1>1, <1>6 DEF InPlace
<1>16. Counted(m', Exactly) /\ Untouched(m, m', E)
  BY <1>3, <1>10, <1>11
<1>17. \A s \in Seqs \ E : s \in prefill' <=> s \in prefill
  BY <1>6
<1>18. "running" \in Live /\ "running" # "waiting"
  BY DEF Live
<1>19. Inductive'
  BY <1>1, <1>4, <1>6, <1>12, <1>13, <1>14, <1>15, <1>16, <1>17, <1>18, MoveStep
<1> QED BY <1>11, <1>19

\* The blocks that CanSwapOut and CanSwapIn count are those of the sequences that move.
LEMMA PhysicalIs ==
    ASSUME Inductive, NEW r \in Requests, NEW st \in Live, InPlace(r, st) # {}
    PROVE  /\ PhysicalBlocks(r) = Together(m, InPlace(r, st))
           /\ Together(m, InPlace(r, st)) \in SUBSET Blocks
           /\ Cardinality(Together(m, InPlace(r, st))) \in Nat
<1>1. Unfinished(r) \in Seq(Seqs) /\ Listed(Unfinished(r)) = LiveIn(r)
  BY UnfinishedIs DEF LiveIn
<1>2. LiveIn(r) = InPlace(r, st) /\ m \in Managers
  BY MatesAre, GroupIs
<1>3. /\ UNION {Range(m.table[s]) : s \in ToSet(Unfinished(r))} = Together(m, InPlace(r, st))
      /\ Together(m, InPlace(r, st)) \in SUBSET Blocks
  BY <1>1, <1>2, TogetherIs
<1> QED BY <1>3, BlocksFinite DEF PhysicalBlocks

\* A swapped group comes back and gets its slots: CanSwapIn has seen the blocks for both.
LEMMA SwapInStep ==
    ASSUME Window = 0, Inductive, NEW r \in Requests, ScheduleSwapped(r)
    PROVE  Inductive' /\ fault' \in {"none", "prefill of several sequences"}
<1>1. PICK E : E = InPlace(r, "swapped")
  OBVIOUS
<1>2. PICK list : list = SeqsIn(r, "swapped")
  OBVIOUS
<1>3. /\ list \in Seq(Seqs) /\ Distinct(list) /\ Listed(list) = E /\ ToSet(list) = E
      /\ r \in Having("swapped") <=> E # {}
  BY <1>1, <1>2, SeqsInIs
<1>4. "running" \in Live /\ "swapped" \in Live /\ "running" # "waiting" /\ "running" \in Statuses
  BY DEF Live, Statuses
<1>5. /\ E # {} /\ CanSwapIn(r) = "OK"
      /\ tokens' = tokens /\ prefill' = prefill /\ SetStatus(list, "running")
  BY <1>2, <1>3 DEF ScheduleSwapped
<1>6. Counted(m, Exactly) /\ m \in Managers /\ Typed /\ Members(r) \in SUBSET Seqs
  BY GroupIs
<1>7. PICK O : O = Together(m, E)
  OBVIOUS
<1>8. PhysicalBlocks(r) = O /\ O \in SUBSET Blocks /\ Cardinality(O) \in Nat
  BY <1>1, <1>4, <1>5, <1>7, PhysicalIs
<1>9. PICK g \in Nat, c \in Nat, l \in Nat : g = FreeGpu(m) /\ c = Cardinality(O) /\ l = Len(list)
  <2>1. m.free \cap GpuBlocks \in SUBSET Blocks
    BY DEF Blocks
  <2>2. FreeGpu(m) \in Nat
    BY <2>1, BlocksFinite DEF FreeGpu
  <2>3. Len(list) \in Nat
    BY <1>3
  <2> QED BY <1>8, <2>2, <2>3
<1>10. g - (c + l) >= Watermark
  <2>1. NumFreeGpu = g
    BY <1>9 DEF NumFreeGpu, FreeGpu
  <2>2. CanSwapIn(r) = IF Cardinality(GpuBlocks) < c + l THEN "NEVER"
                       ELSE IF g - (c + l) >= Watermark THEN "OK" ELSE "LATER"
    BY <1>2, <1>8, <1>9, <2>1 DEF CanSwapIn
  <2> QED BY <1>5, <2>2
<1>11. c + l <= g
  BY <1>9, <1>10, V1Assumption
<1>12. \A s \in E : /\ s \in Seqs /\ tokens[s] \in Seq(Seqs) /\ Len(tokens[s]) > 0
                    /\ Kept(m, s, tokens[s]) /\ s \notin prefill
  BY <1>1, QueuedKeep
<1>13. PICK o \in Swap(m, list, GpuBlocks) :
         \E p \in IF o.raised = "none" THEN AppendAll(o.m, list) ELSE {o} : Scheduled(r, p)
  BY <1>2 DEF ScheduleSwapped
<1>14. PICK x : /\ o = Ok(x) /\ Counted(x, Exactly) /\ Untouched(m, x, E)
                /\ \A s \in E : Carried(m, x, s, GpuBlocks)
                /\ FreeGpu(x) >= g - c
  <2>1. GpuBlocks \in SUBSET Blocks
    BY DEF Blocks
  <2>2. Cardinality(O) <= Cardinality(m.free \cap GpuBlocks)
    BY <1>9, <1>11 DEF FreeGpu
  <2>3. E = Listed(list)
    BY <1>3
  <2>4. \E x : /\ o = Ok(x) /\ Counted(x, Exactly) /\ Untouched(m, x, E)
               /\ \A s \in E : Carried(m, x, s, GpuBlocks)
               /\ Cardinality(x.free \cap GpuBlocks)
                    >= Cardinality(m.free \cap GpuBlocks) - Cardinality(O)
    BY <1>3, <1>6, <1>7, <2>1, <2>2, <2>3, SwapIs
  <2> QED BY <1>9, <2>4 DEF FreeGpu
<1>15. x \in Managers
  BY <1>14 DEF Counted
<1>16. \A s \in E : Kept(x, s, tokens[s]) /\ Listed(x.table[s]) \subseteq GpuBlocks
  <2>1. \A s \in E : Kept(x, s, tokens[s])
    BY <1>6, <1>12, <1>14, CarriedKept
  <2> QED BY <1>14, <2>1 DEF Carried
<1>17. PICK p \in AppendAll(x, list) : Scheduled(r, p)
  BY <1>13, <1>14 DEF Ok
<1>18. PICK y : /\ p = Ok(y) /\ Counted(y, Exactly) /\ Untouched(x, y, E)
                /\ \A s \in E : Slotted(x, y, s)
  <2>1. \A s \in Listed(list) : Lacking(x, s)
    BY <1>3, <1>12, <1>16, KeptLacking
  <2>2. Len(list) <= FreeGpu(x)
    <3>1. FreeGpu(x) \in Nat
      <4>1. x.free \cap GpuBlocks \in SUBSET Blocks
        BY DEF Blocks
      <4> QED BY <4>1, BlocksFinite DEF FreeGpu
    <3>2. g - c >= l
      BY <1>9, <1>11
    <3>3. FreeGpu(x) >= g - c /\ g - c \in Int
      BY <1>9, <1>14
    <3> QED BY <1>9, <3>1, <3>2, <3>3
  <2>3. \E y : /\ p = Ok(y) /\ Counted(y, Exactly) /\ Untouched(x, y, Listed(list))
               /\ \A s \in Listed(list) : Slotted(x, y, s)
    BY <1>3, <1>14, <2>1, <2>2, AppendAllIs
  <2> QED BY <1>3, <2>3
<1>19. m' = y /\ fault' \in {"none", "prefill of several sequences"}
  BY <1>17, <1>18, ScheduledOk
<1>20. /\ layers' \in [Requests -> {FreshLayers, NumLayers}]
       /\ batch' \subseteq Requests /\ r \in batch'
       /\ \A q \in Requests \ {r} : q \in batch' <=> q \in batch
  BY <1>17, ScheduledIs
<1>21. /\ status' \in [Seqs -> Statuses]
       /\ \A s \in Seqs : status'[s] = IF s \in E THEN "running" ELSE status[s]
  BY <1>3, <1>4, <1>5, SetStatusIs
<1>22. Typed'
  BY <1>5, <1>6, <1>20, <1>21 DEF Typed
<1>23. \A s \in E : /\ Sound(m', s, "running", tokens[s], s \in prefill', r \in batch')
                    /\ "running" = "waiting" => s \in prefill'
                    /\ s \in prefill' => "running" = "waiting" \/ ("running" = "running" /\ r \in batch')
  <2> SUFFICES ASSUME NEW s \in E
               PROVE  Sound(m', s, "running", tokens[s], s \in prefill', r \in batch')
    BY <1>20
  <2>1. Sound(y, s, "running", tokens[s], FALSE, TRUE)
    BY <1>12, <1>15, <1>16, <1>18, SlottedPrepared
  <2>2. (s \in prefill') = FALSE /\ (r \in batch') = TRUE
    BY <1>5, <1>12, <1>20
  <2> QED BY <1>19, <2>1, <2>2
<1>24. Untouched(m, y, E)
  BY <1>14, <1>18, UntouchedTwice
<1>25. Counted(m', Exactly) /\ Untouched(m, m', E)
  BY <1>18, <1>19, <1>24
<1>26. \A s \in Seqs \ E : s \in prefill' <=> s \in prefill
  BY <1>5
<1>27. Inductive'
  BY <1>1, <1>4, <1>5, <1>20, <1>21, <1>22, <1>23, <1>25, <1>26, MoveStep
<1> QED BY <1>19, <1>27

\* A preemption by recompute is of a group with one live sequence, which is the whole
\* group when Exactly.
LEMMA RecomputeStep ==
    ASSUME Window = 0, Inductive, NEW v \in Requests, v \in Queued, MaxNumRunningSeqs(v) = 1,
           PreemptByRecompute(v), tokens' = tokens, layers' = layers, batch' = batch
    PROVE  Inductive' /\ fault' = "none"
<1>1. PICK E : E = InPlace(v, "running")
  OBVIOUS
<1>2. PICK list : list = SeqsIn(v, "running")
  OBVIOUS
<1>3. /\ list \in Seq(Seqs) /\ Listed(list) = E /\ ToSet(list) = E
      /\ v \in Having("running") <=> E # {}
  BY <1>1, <1>2, SeqsInIs
<1>4. "running" \in Live /\ "waiting" \in Live /\ "waiting" \in Statuses
  BY DEF Live, Statuses
<1>5. E # {} /\ v \notin batch
  BY <1>3 DEF Queued
<1>6. /\ FreeAll(m, list).m = m' /\ FreeAll(m, list).raised = fault'
      /\ SetStatus(list, "waiting") /\ prefill' = prefill \cup E
  BY <1>2, <1>3 DEF PreemptByRecompute, Call
<1>7. Counted(m, Exactly) /\ m \in Managers /\ Typed /\ Members(v) \in SUBSET Seqs
      /\ \A s \in Members(v) : status[s] \in Statuses
  BY GroupIs
<1>8. E \subseteq Members(v) /\ E \subseteq Seqs /\ LiveIn(v) = E
  BY <1>1, <1>4, <1>5, <1>7, MatesAre DEF InPlace
<1>9. PICK x : /\ FreeAll(m, list) = Ok(x) /\ Counted(x, Exactly)
               /\ \A s \in E : x.table[s] = <<>>
               /\ Untouched(m, x, E)
  BY <1>3, <1>7, FreeAllIs
<1>10. m' = x /\ fault' = "none"
  BY <1>6, <1>9 DEF Ok
<1>11. /\ IsFiniteSet(Members(v)) /\ Len(SeqsOf[v]) = Cardinality(Members(v))
       /\ SeqsOf[v] \in Seq(Seqs)
  BY MembersAre
<1>12. /\ Len(SeqsOf[v]) = 1 => \A s, t \in Members(v) : s = t
       /\ Len(Unfinished(v)) = 1 => \A s, t \in E : s = t
  <2>1. \A S : IsFiniteSet(S) /\ Cardinality(S) = 1 => \A s, t \in S : s = t
    <3> SUFFICES ASSUME NEW S, IsFiniteSet(S), Cardinality(S) = 1, NEW s \in S, NEW t \in S
                 PROVE  s = t
      OBVIOUS
    <3>1. \E u : S = {u}
      BY FS_Singleton
    <3> QED BY <3>1
  <2>2. IsFiniteSet(E) /\ Len(Unfinished(v)) = Cardinality(E)
    <3>1. /\ Unfinished(v) \in Seq(Seqs) /\ Distinct(Unfinished(v))
          /\ Listed(Unfinished(v)) = LiveIn(v)
      BY UnfinishedIs DEF LiveIn
    <3> QED BY <1>8, <3>1, DistinctLen
  <2> QED BY <1>11, <2>1, <2>2
<1>13. /\ \A s, t \in E : s = t
       /\ Exactly => \A t \in Members(v) \ E : status[t] = "absent"
  <2>1. CASE v \in Beam \/ Len(SeqsOf[v]) > NumSeqs(v)
    <3>1. Len(SeqsOf[v]) = 1
      BY <2>1 DEF MaxNumRunningSeqs
    <3> QED BY <1>5, <1>8, <1>12, <3>1
  <2>2. CASE ~(v \in Beam \/ Len(SeqsOf[v]) > NumSeqs(v))
    <3>1. Len(Unfinished(v)) = 1
      BY <2>2 DEF MaxNumRunningSeqs
    <3>2. Exactly => Len(SeqsOf[v]) = 1
      BY <2>2 DEF Exactly
    <3> QED BY <1>5, <1>8, <1>12, <3>1, <3>2
  <2> QED BY <2>1, <2>2
<1>14. /\ status' \in [Seqs -> Statuses]
       /\ \A s \in Seqs : status'[s] = IF s \in E THEN "waiting" ELSE status[s]
  BY <1>3, <1>4, <1>6, SetStatusIs
<1>15. Typed'
  BY <1>6, <1>7, <1>8, <1>14 DEF Typed
<1>16. \A s \in E : /\ Sound(m', s, "waiting", tokens[s], s \in prefill', v \in batch')
                    /\ "waiting" = "waiting" => s \in prefill'
                    /\ s \in prefill' => "waiting" = "waiting" \/ ("waiting" = "running" /\ v \in batch')
  <2> SUFFICES ASSUME NEW s \in E
               PROVE  Sound(m', s, "waiting", tokens[s], s \in prefill', v \in batch')
    BY <1>6
  <2>1. Listed(m'.table[s]) = {}
    BY <1>9, <1>10 DEF Listed, Firsts
  <2> QED BY <2>1 DEF Sound
<1>17. \A s \in Seqs \ E : s \in prefill' <=> s \in prefill
  BY <1>6
<1>18. /\ v \in batch' => "waiting" = "running"
       /\ \A q \in Requests \ {v} : q \in batch' <=> q \in batch
  BY <1>5
<1>19. Inductive'
  BY <1>1, <1>4, <1>5, <1>9, <1>10, <1>13, <1>14, <1>15, <1>16, <1>17, <1>18, MoveStep
<1> QED BY <1>10, <1>19

\* A preemption by swap: CanSwapOut has seen the CPU blocks it takes, or the engine ends.
LEMMA SwapOutStep ==
    ASSUME Window = 0, Inductive, fault = "none", NEW v \in Requests, v \in Queued,
           PreemptBySwap(v), tokens' = tokens, layers' = layers, batch' = batch
    PROVE  Inductive' /\ fault' \in {"none", "CPU swap space"}
<1>1. PICK E : E = InPlace(v, "running")
  OBVIOUS
<1>2. PICK list : list = SeqsIn(v, "running")
  OBVIOUS
<1>3. /\ list \in Seq(Seqs) /\ Listed(list) = E /\ ToSet(list) = E
      /\ v \in Having("running") <=> E # {}
  BY <1>1, <1>2, SeqsInIs
<1>4. "running" \in Live /\ "swapped" \in Live /\ "swapped" \in Statuses /\ "swapped" # "waiting"
  BY DEF Live, Statuses
<1>5. E # {} /\ v \notin batch
  BY <1>3 DEF Queued
<1>6. Counted(m, Exactly) /\ m \in Managers /\ Typed /\ Members(v) \in SUBSET Seqs
  BY GroupIs
<1>7. prefill' = prefill
  BY DEF PreemptBySwap
<1>8. CASE ~CanSwapOut(v)
  <2>1. m' = m /\ status' = status /\ fault' = "CPU swap space"
    BY <1>8 DEF PreemptBySwap
  <2>2. Inductive'
    BY <1>7, <2>1 DEF Inductive, Typed, Settled, Unborn
  <2> QED BY <2>1, <2>2
<1>9. CASE CanSwapOut(v)
  <2>1. PICK O : O = Together(m, E)
    OBVIOUS
  <2>2. Cardinality(O) <= Cardinality(m.free \cap CpuBlocks)
    <3>1. PhysicalBlocks(v) = O
      BY <1>1, <1>4, <1>5, <2>1, PhysicalIs
    <3> QED BY <1>9, <3>1 DEF CanSwapOut
  <2>3. PICK o \in Swap(m, list, CpuBlocks) : m' = o.m /\ fault' = o.raised
    BY <1>2, <1>9 DEF PreemptBySwap, Call
  <2>4. PICK x : /\ o = Ok(x) /\ Counted(x, Exactly) /\ Untouched(m, x, E)
                 /\ \A s \in E : Carried(m, x, s, CpuBlocks)
    <3>1. CpuBlocks \in SUBSET Blocks
      BY DEF Blocks
    <3>2. E = Listed(list)
      BY <1>3
    <3>3. \E x : /\ o = Ok(x) /\ Counted(x, Exactly) /\ Untouched(m, x, E)
                 /\ \A s \in E : Carried(m, x, s, CpuBlocks)
                 /\ Cardinality(x.free \cap CpuBlocks)
                      >= Cardinality(m.free \cap CpuBlocks) - Cardinality(O)
      BY <1>3, <1>6, <2>1, <2>2, <3>1, <3>2, SwapIs
    <3> QED BY <3>3
  <2>5. m' = x /\ fault' = "none"
    BY <2>3, <2>4 DEF Ok
  <2>6. \A s \in E : /\ s \in Seqs /\ tokens[s] \in Seq(Seqs) /\ Len(tokens[s]) > 0
                     /\ Kept(m, s, tokens[s]) /\ s \notin prefill
    BY <1>1, <1>5, QueuedKeep
  <2>7. /\ status' \in [Seqs -> Statuses]
        /\ \A s \in Seqs : status'[s] = IF s \in E THEN "swapped" ELSE status[s]
    <3>1. SetStatus(list, "swapped")
      BY <1>2, <1>9 DEF PreemptBySwap
    <3> QED BY <1>3, <1>4, <3>1, SetStatusIs
  <2>8. Typed'
    BY <1>6, <1>7, <2>7 DEF Typed
  <2>9. \A s \in E : /\ Sound(m', s, "swapped", tokens[s], s \in prefill', v \in batch')
                     /\ "swapped" = "waiting" => s \in prefill'
                     /\ s \in prefill' => "swapped" = "waiting" \/ ("swapped" = "running" /\ v \in batch')
    <3> SUFFICES ASSUME NEW s \in E
                 PROVE  Sound(m', s, "swapped", tokens[s], s \in prefill', v \in batch')
      BY <1>7, <2>6
    <3>1. Kept(x, s, tokens[s])
      BY <1>6, <2>4, <2>6, CarriedKept
    <3>2. Listed(x.table[s]) \subseteq CpuBlocks
      BY <2>4 DEF Carried
    <3> QED BY <2>5, <3>1, <3>2 DEF Sound, Device
  <2>10. \A s \in Seqs \ E : s \in prefill' <=> s \in prefill
    BY <1>7
  <2>11. /\ v \in batch' => "swapped" = "running"
         /\ \A q \in Requests \ {v} : q \in batch' <=> q \in batch
    BY <1>5
  <2>12. Counted(m', Exactly) /\ Untouched(m, m', E)
    BY <2>4, <2>5
  <2>13. Inductive'
    BY <1>1, <1>4, <1>5, <2>7, <2>8, <2>9, <2>10, <2>11, <2>12, MoveStep
  <2> QED BY <2>5, <2>13
<1> QED BY <1>8, <1>9

\* A running group without room for its slots: another one, or it, gives its blocks.
LEMMA PreemptStep ==
    ASSUME Window = 0, Inductive, NEW r \in Requests, NEW v \in Requests, Preempt(r, v)
    PROVE  Inductive' /\ fault' \in {"none", "CPU swap space"}
<1>1. v \in Queued
  BY DEF Preempt
<1>2. fault = "none" /\ tokens' = tokens /\ layers' = layers /\ batch' = batch
  BY DEF Preempt, Up
<1>3. CASE MaxNumRunningSeqs(v) = 1
  <2>1. PreemptByRecompute(v)
    BY <1>3 DEF Preempt
  <2> QED BY <1>1, <1>2, <1>3, <2>1, RecomputeStep
<1>4. CASE MaxNumRunningSeqs(v) # 1
  <2>1. PreemptBySwap(v)
    BY <1>4 DEF Preempt
  <2> QED BY <1>1, <1>2, <2>1, SwapOutStep
<1> QED BY <1>3, <1>4

\* A sequence has the blocks for the tokens of list, on the GPU and with their content.
Cached(x, s, list) ==
    /\ Len(x.table[s]) = NumLogicalBlocks(Len(list)) /\ Listed(x.table[s]) \subseteq GpuBlocks
    /\ Holds(x, x.table[s], list, Len(list))

\* The model has computed every token of the running sequences of a group in the batch.
LEMMA BatchExecuted ==
    ASSUME Window = 0, Inductive, NEW r \in Requests, r \in batch, Started(r),
           NEW R, R = InPlace(r, "running"), NEW o, o = Execute(r)
    PROVE  /\ Counted(o, Exactly) /\ Untouched(m, o, R) /\ o.table = m.table
           /\ \A s \in R : Cached(o, s, tokens[s])
<1>1. PICK list : list = SeqsIn(r, "running")
  OBVIOUS
<1>2. list \in Seq(Seqs) /\ Distinct(list) /\ Listed(list) = R
  BY <1>1, SeqsInIs
<1>3. \A s \in R : /\ tokens[s] \in Seq(Seqs) /\ Len(tokens[s]) \in 1 .. MaxTokens
                   /\ Prepared(m, s, tokens[s], s \in prefill)
                   /\ Listed(m.table[s]) \subseteq GpuBlocks
  <2> SUFFICES ASSUME NEW s \in R
               PROVE  /\ tokens[s] \in Seq(Seqs) /\ Len(tokens[s]) \in 1 .. MaxTokens
                      /\ Prepared(m, s, tokens[s], s \in prefill)
                      /\ Listed(m.table[s]) \subseteq GpuBlocks
    OBVIOUS
  <2>1. /\ s \in Members(r) /\ status[s] = "running" /\ tokens[s] \in Seq(Seqs)
        /\ Right(m, s, status[s], tokens[s], s \in prefill, r \in batch)
    BY GroupIs DEF InPlace
  <2>2. Len(tokens[s]) \in 1 .. MaxTokens - 1
    BY <2>1 DEF Right, Recorded, Live
  <2>3. Prepared(m, s, tokens[s], s \in prefill) /\ Listed(m.table[s]) \subseteq Device("running")
    BY <2>1 DEF Right, Sound
  <2>4. Device("running") = GpuBlocks
    BY DEF Device
  <2> QED BY <2>1, <2>2, <2>3, <2>4, V1Assumption
<1>4. Counted(m, Exactly)
  BY GroupIs
<1>8. \A s \in R : /\ IsPrefill(r) => s \in prefill
                   /\ Exactly /\ s \in prefill => IsPrefill(r)
  <2>1. \A s \in R : s \in Members(r) /\ status[s] # "absent"
    BY DEF InPlace
  <2> QED BY <2>1 DEF Started, IsPrefill
<1>5. \A s \in Listed(list) :
        /\ tokens[s] \in Seq(Seqs) /\ Len(tokens[s]) \in 1 .. MaxTokens
        /\ Prepared(m, s, tokens[s], s \in prefill)
        /\ IsPrefill(r) => s \in prefill
        /\ Exactly /\ s \in prefill => IsPrefill(r)
  BY <1>2, <1>3, <1>8
<1>6. /\ Counted(o, Exactly) /\ Untouched(m, o, Listed(list))
      /\ o.table = m.table /\ o.free = m.free
      /\ \A s \in Listed(list) : Holds(o, m.table[s], tokens[s], Len(tokens[s]))
  BY <1>1, <1>2, <1>4, <1>5, ExecuteIs
<1>7. \A s \in R : Cached(o, s, tokens[s])
  <2> SUFFICES ASSUME NEW s \in R PROVE Cached(o, s, tokens[s])
    OBVIOUS
  <2>1. Holds(o, o.table[s], tokens[s], Len(tokens[s])) /\ o.table[s] = m.table[s]
    BY <1>2, <1>6
  <2>2. Len(m.table[s]) = NumLogicalBlocks(Len(tokens[s]))
    BY <1>3 DEF Prepared
  <2> QED BY <1>3, <2>1, <2>2 DEF Cached
<1> QED BY <1>2, <1>6, <1>7

\* The parent of a new child, or the running sequence itself.
Mother(born, parent, s) == IF s \in born THEN parent[s] ELSE s

\* x is m with the tokens of the step for those that go on, and without the blocks of
\* those that end.
Delivered(x, R, born, parent, ended) ==
    /\ Untouched(m, x, R \cup born)
    /\ \A s \in ended : Bare(x, s)
    /\ \A s \in (R \cup born) \ ended : Cached(x, s, tokens[Mother(born, parent, s)])

\* The manager after process_outputs: forks for the new children, and the blocks of the
\* sequences that end are free.
LEMMA OutputsIs ==
    ASSUME Window = 0, Inductive, NEW r \in Requests, r \in batch, Started(r),
           NEW R, R = InPlace(r, "running"), NEW running, running = SeqsIn(r, "running"),
           NEW A, A = InPlace(r, "absent"), NEW absent, absent = SeqsIn(r, "absent"),
           NEW born \in SUBSET A, NEW parent \in [born -> R], NEW ended \in SUBSET (R \cup born),
           NEW o, o = FreeAll(ForkAll(Execute(r), parent, Only(absent, born \ ended)),
                              Only(running, ended))
    PROVE  \E x : o = Ok(x) /\ Counted(x, Exactly) /\ Delivered(x, R, born, parent, ended)
<1>1. /\ running \in Seq(Seqs) /\ Distinct(running) /\ Listed(running) = R
      /\ absent \in Seq(Seqs) /\ Distinct(absent) /\ Listed(absent) = A
  BY SeqsInIs
<1>2. R \in SUBSET Seqs /\ A \in SUBSET Seqs /\ \A s \in A : s \notin R
  BY GroupIs DEF InPlace
<1>3. PICK e : e = Execute(r)
  OBVIOUS
<1>4. /\ Counted(e, Exactly) /\ Untouched(m, e, R) /\ e.table = m.table
      /\ \A s \in R : Cached(e, s, tokens[s])
  BY <1>3, BatchExecuted
<1>5. PICK kids : kids = Only(absent, born \ ended)
  OBVIOUS
<1>6. kids \in Seq(Seqs) /\ Distinct(kids) /\ \A s : s \in Listed(kids) <=> s \in born /\ s \notin ended
  <2>1. kids \in Seq(Seqs) /\ Distinct(kids) /\ Listed(kids) = A \cap (born \ ended)
    BY <1>1, <1>5, OnlyIs
  <2> QED BY <2>1
<1>7. \A s \in A : Bare(e, s)
  <2> SUFFICES ASSUME NEW s \in A PROVE m.table[s] = <<>>
    BY <1>4 DEF Bare
  <2>1. s \in Seqs /\ status[s] = "absent"
    BY <1>2 DEF InPlace
  <2>2. Listed(m.table[s]) = {}
    <3>1. Listed(m.table[s]) \subseteq Device(status[s])
      BY <2>1, EachRight
    <3> QED BY <2>1, <3>1 DEF Device
  <2>3. m.table[s] \in Seq(Blocks)
    BY <2>1, GroupIs, ManagerIs
  <2> QED BY <2>2, <2>3, ListedIs
<1>8. PICK g : g = ForkAll(e, parent, kids)
  OBVIOUS
<1>9. /\ Counted(g, Exactly) /\ Untouched(e, g, R \cup Listed(kids))
      /\ g.data = e.data /\ g.free = e.free
      /\ \A s \in Listed(kids) : g.table[s] = e.table[parent[s]]
      /\ \A s \in Seqs \ Listed(kids) : g.table[s] = e.table[s]
  <2>1. \A s \in Listed(kids) : parent[s] \in R
    BY <1>6
  <2>2. \A s \in Listed(kids) : s \notin R /\ Bare(e, s)
    BY <1>2, <1>6, <1>7
  <2>3. R \in SUBSET Seqs
    BY <1>2
  <2>4. /\ Counted(e, Exactly) /\ kids \in Seq(Seqs) /\ Distinct(kids) /\ R \in SUBSET Seqs
        /\ Born(e, parent, R, kids) /\ g = ForkAll(e, parent, kids)
    BY <1>4, <1>6, <1>8, <2>1, <2>2, <2>3 DEF Born
  <2>5. Counted(g, Exactly) /\ Forked(e, g, parent, R, Listed(kids))
    BY <2>4, ForkAllIs
  <2> QED BY <2>5 DEF Forked
<1>10. PICK gone : gone = Only(running, ended)
  OBVIOUS
<1>11. gone \in Seq(Seqs) /\ \A s : s \in Listed(gone) <=> s \in R /\ s \in ended
  <2>1. gone \in Seq(Seqs) /\ Listed(gone) = R \cap ended
    BY <1>1, <1>10, OnlyIs
  <2> QED BY <2>1
<1>12. PICK x : /\ FreeAll(g, gone) = Ok(x) /\ Counted(x, Exactly)
                /\ \A s \in Listed(gone) : x.table[s] = <<>>
                /\ Untouched(g, x, Listed(gone))
  BY <1>9, <1>11, FreeAllIs
<1>13. o = Ok(x)
  BY <1>3, <1>5, <1>8, <1>10, <1>12
<1>14. Untouched(m, x, R \cup born)
  <2>1. R \subseteq R \cup born /\ R \cup Listed(kids) \subseteq R \cup born
        /\ Listed(gone) \subseteq R \cup born /\ R \cup born \subseteq R \cup born
    BY <1>6, <1>11
  <2>2. Untouched(m, g, R \cup born)
    BY <1>4, <1>9, <2>1, UntouchedTwice
  <2> QED BY <1>12, <2>1, <2>2, UntouchedTwice
<1>15. ASSUME NEW s \in ended PROVE x.table[s] = <<>>
  <2>1. CASE s \in R
    BY <1>11, <1>12, <2>1
  <2>2. CASE s \notin R
    <3>1. s \in A /\ s \in Seqs \ Listed(gone) /\ s \in Seqs \ Listed(kids)
      BY <1>2, <1>6, <1>11, <2>2
    <3>2. x.table[s] = g.table[s] /\ g.table[s] = e.table[s]
      BY <1>9, <1>12, <3>1 DEF Untouched
    <3> QED BY <1>7, <3>1, <3>2 DEF Bare
  <2> QED BY <2>1, <2>2
<1>16. ASSUME NEW s \in (R \cup born) \ ended
       PROVE  Cached(x, s, tokens[Mother(born, parent, s)])
  <2>1. PICK p \in R : p = Mother(born, parent, s)
    BY DEF Mother
  <2>2. s \in Seqs /\ s \in Seqs \ Listed(gone) /\ p \in Seqs
    BY <1>2, <1>11
  <2>3. g.table[s] = e.table[p]
    <3>1. CASE s \in born
      <4>1. s \in Listed(kids) /\ p = parent[s]
        BY <1>6, <2>1, <3>1 DEF Mother
      <4> QED BY <1>9, <4>1
    <3>2. CASE s \notin born
      <4>1. s \in Seqs \ Listed(kids) /\ p = s
        BY <1>6, <2>1, <2>2, <3>2 DEF Mother
      <4> QED BY <1>9, <4>1
    <3> QED BY <3>1, <3>2
  <2>4. PICK k \in Nat : k = Len(tokens[p])
    <3>1. tokens[p] \in Seq(Seqs)
      BY <2>2 DEF Inductive, Typed
    <3> QED BY <3>1
  <2>5. /\ Len(e.table[p]) = NumLogicalBlocks(k) /\ Listed(e.table[p]) \subseteq GpuBlocks
        /\ Holds(e, e.table[p], tokens[p], k)
    BY <1>4, <2>4 DEF Cached
  <2>6. Holds(g, g.table[s], tokens[p], k)
    BY <1>9, <2>3, <2>5 DEF Holds
  <2>7. g \in Managers
    BY <1>9 DEF Counted
  <2>8. NumLogicalBlocks(k) <= Len(g.table[s])
    BY <2>3, <2>4, <2>5, BlocksStep
  <2>9. Holds(x, x.table[s], tokens[p], k)
    BY <1>12, <2>2, <2>6, <2>7, <2>8, HoldsStays
  <2>10. x.table[s] = g.table[s]
    BY <1>12, <2>2 DEF Untouched
  <2> QED BY <2>1, <2>3, <2>4, <2>5, <2>9, <2>10 DEF Cached
<1>17. Delivered(x, R, born, parent, ended)
  BY <1>14, <1>15, <1>16 DEF Delivered, Bare
<1> QED BY <1>12, <1>13, <1>17

\* What process_outputs chooses: the children that are born, their parents, and who ends.
Outcome(r, running, absent, born, parent, ended) ==
    LET now == ToSet(running) \cup born
        list(s) == Append(tokens[IF s \in born THEN parent[s] ELSE s], s)
    IN  /\ \A s \in now : Len(list(s)) = MaxTokens => s \in ended
        /\ Call(FreeAll(ForkAll(Execute(r), parent, Only(absent, born \ ended)),
                        Only(running, ended)))
        /\ tokens' = [s \in Seqs |-> IF s \in ended THEN <<>>
                                     ELSE IF s \in now THEN list(s)
                                     ELSE tokens[s]]
        /\ status' = [s \in Seqs |-> IF s \in ended THEN "finished"
                                     ELSE IF s \in now THEN "running"
                                     ELSE status[s]]

\* process_outputs chooses one outcome, and the children are sequences not yet born.
LEMMA OutcomeIs ==
    ASSUME NEW r \in Requests, ProcessOutputs(r),
           NEW R, R = InPlace(r, "running"), NEW A, A = InPlace(r, "absent")
    PROVE  \E born \in SUBSET A : \E parent \in [born -> R], ended \in SUBSET (R \cup born) :
             Outcome(r, SeqsIn(r, "running"), SeqsIn(r, "absent"), born, parent, ended)
<1> DEFINE running == SeqsIn(r, "running")
           absent == SeqsIn(r, "absent")
<1>1. ToSet(running) = R /\ absent \in Seq(Seqs) /\ Listed(absent) = A
  BY SeqsInIs
<1> DEFINE Born1(n) == ToSet(SubSeq(absent, 1, n))
           Is(n) == \E parent \in [Born1(n) -> ToSet(running)],
                       ended \in SUBSET (ToSet(running) \cup Born1(n)) :
                      Outcome(r, running, absent, Born1(n), parent, ended)
<1>2. \E n \in IF r \in Beam THEN 0 .. Len(absent) ELSE {Len(absent)} : Is(n)
  BY Zenon DEF ProcessOutputs, Outcome
<1>3. Len(absent) \in Nat
  BY <1>1
<1> HIDE DEF Is, running, absent
<1>4. PICK n \in 0 .. Len(absent) : Is(n)
  BY <1>2, <1>3
<1>5. Born1(n) \in SUBSET A
  <2>1. SubSeq(absent, 1, n) \in Seq(Seqs) /\ Len(SubSeq(absent, 1, n)) = n
        /\ \A i \in 1 .. n : SubSeq(absent, 1, n)[i] = absent[i]
    BY <1>1, <1>3
  <2>2. ToSet(SubSeq(absent, 1, n)) = Listed(SubSeq(absent, 1, n))
    BY <2>1, ListedIs
  <2>3. \A i \in 1 .. n : absent[i] \in A
    <3>1. \A i \in 1 .. n : i \in 1 .. Len(absent)
      BY <1>3
    <3> QED BY <1>1, <3>1 DEF Listed, Firsts
  <2> QED BY <2>1, <2>2, <2>3 DEF Listed, Firsts
<1> HIDE DEF Born1
<1>6. PICK born \in SUBSET A : \E parent \in [born -> ToSet(running)],
                                  ended \in SUBSET (ToSet(running) \cup born) :
                                 Outcome(r, running, absent, born, parent, ended)
  BY <1>4, <1>5 DEF Is
<1> QED BY <1>1, <1>6 DEF running, absent

\* A step of the model and of process_outputs on a group of the batch.
LEMMA ProcessStep ==
    ASSUME Window = 0, Inductive, NEW r \in Requests, ProcessOutputs(r), Started(r)
    PROVE  Inductive' /\ fault' = "none"
<1>1. PICK R, A : R = InPlace(r, "running") /\ A = InPlace(r, "absent")
  OBVIOUS
<1>2. PICK running, absent : running = SeqsIn(r, "running") /\ absent = SeqsIn(r, "absent")
  OBVIOUS
<1>0. PICK born \in SUBSET A : \E parent \in [born -> R], ended \in SUBSET (R \cup born) :
        Outcome(r, running, absent, born, parent, ended)
  BY <1>1, <1>2, OutcomeIs
<1>3. PICK parent \in [born -> R], ended \in SUBSET (R \cup born) :
        Outcome(r, running, absent, born, parent, ended)
  BY <1>0
<1>4. ToSet(running) = R
  BY <1>1, <1>2, SeqsInIs
<1>5. /\ r \in batch /\ prefill' = prefill \ R /\ batch' = batch \ {r} /\ layers' = layers
  BY <1>2, <1>4 DEF ProcessOutputs
<1>6. /\ Grouped(r, status, r \in batch) /\ Members(r) \in SUBSET Seqs
      /\ \A s \in Members(r) :
           /\ Right(m, s, status[s], tokens[s], s \in prefill, r \in batch)
           /\ tokens[s] \in Seq(Seqs) /\ status[s] \in Statuses
      /\ Counted(m, Exactly) /\ m \in Managers /\ Typed
  BY GroupIs
<1>7. PICK now : now = R \cup born
  OBVIOUS
<1>8. /\ \A s \in R : s \in Members(r) /\ s \in Seqs /\ status[s] = "running"
      /\ \A s \in born : s \in Members(r) /\ s \in Seqs /\ status[s] = "absent"
      /\ \A s \in Members(r) : s \notin R => status[s] # "running"
  BY <1>1, <1>6 DEF InPlace
<1>9. PICK x : /\ m' = x /\ fault' = "none" /\ Counted(x, Exactly) /\ Untouched(m, x, now)
               /\ \A s \in ended : x.table[s] = <<>>
               /\ \A s \in now \ ended : Cached(x, s, tokens[Mother(born, parent, s)])
  <2>1. PICK o : o = FreeAll(ForkAll(Execute(r), parent, Only(absent, born \ ended)),
                             Only(running, ended))
    OBVIOUS
  <2>2. m' = o.m /\ fault' = o.raised
    BY <1>3, <2>1 DEF Outcome, Call
  <2>3. PICK x : o = Ok(x) /\ Counted(x, Exactly) /\ Delivered(x, R, born, parent, ended)
    BY <1>1, <1>2, <1>5, <2>1, OutputsIs
  <2>4. m' = x /\ fault' = "none"
    BY <2>2, <2>3 DEF Ok
  <2> QED BY <1>7, <2>3, <2>4 DEF Delivered, Bare
<1>10. \A s \in Seqs :
         /\ status'[s] = IF s \in ended THEN "finished" ELSE IF s \in now THEN "running" ELSE status[s]
         /\ tokens'[s] = IF s \in ended THEN <<>>
                         ELSE IF s \in now THEN Append(tokens[Mother(born, parent, s)], s)
                         ELSE tokens[s]
  BY <1>3, <1>4, <1>7 DEF Outcome, Mother
<1>11. /\ \A s \in ended : s \in now
       /\ \A s \in now : s \in Members(r) /\ s \in Seqs
  BY <1>7, <1>8
<1>12. \A s \in now : Len(Append(tokens[Mother(born, parent, s)], s)) = MaxTokens => s \in ended
  BY <1>3, <1>4, <1>7 DEF Outcome, Mother
<1>13. ASSUME NEW s \in now \ ended
       PROVE  /\ Append(tokens[Mother(born, parent, s)], s) \in Seq(Seqs)
              /\ Len(Append(tokens[Mother(born, parent, s)], s)) \in 1 .. MaxTokens - 1
              /\ Kept(x, s, Append(tokens[Mother(born, parent, s)], s))
              /\ Listed(x.table[s]) \subseteq GpuBlocks
  <2>1. PICK p \in R : p = Mother(born, parent, s)
    BY <1>7 DEF Mother
  <2>2. /\ p \in Members(r) /\ tokens[p] \in Seq(Seqs) /\ status[p] = "running" /\ s \in Seqs
        /\ Right(m, p, status[p], tokens[p], p \in prefill, r \in batch)
    BY <1>6, <1>8, <1>11
  <2>3. PICK k \in Nat : k = Len(tokens[p]) /\ k < MaxTokens
    <3>1. Len(tokens[p]) \in 1 .. MaxTokens - 1
      BY <2>2 DEF Right, Recorded, Live
    <3> QED BY <3>1, V1Assumption
  <2>4. PICK list : list = Append(tokens[p], s)
    OBVIOUS
  <2>5. /\ list \in Seq(Seqs) /\ Len(list) = k + 1
        /\ \A i \in 1 .. k : list[i] = tokens[p][i]
    BY <2>2, <2>3, <2>4
  <2>6. Len(list) \in 1 .. MaxTokens - 1
    <3>1. Len(list) # MaxTokens
      BY <1>12, <2>1, <2>4
    <3> QED BY <2>3, <2>5, <3>1, V1Assumption
  <2>7. /\ Len(x.table[s]) = NumLogicalBlocks(k) /\ Listed(x.table[s]) \subseteq GpuBlocks
        /\ Holds(x, x.table[s], tokens[p], k)
    BY <1>9, <2>1, <2>3 DEF Cached
  <2>8. Holds(x, x.table[s], list, k)
    BY <2>5, <2>7 DEF Holds
  <2>9. Len(list) - 1 = k
    BY <2>5
  <2>10. Kept(x, s, list)
    BY <2>7, <2>8, <2>9 DEF Kept
  <2> QED BY <2>1, <2>4, <2>5, <2>6, <2>7, <2>10
<1>14. "finished" \in Statuses /\ "running" \in Statuses /\ "running" \in Live
       /\ "finished" \notin Live /\ "absent" \notin Live
  BY DEF Statuses, Live
<1>15. Typed'
  <2>1. \A s \in Seqs : status'[s] \in Statuses /\ tokens'[s] \in Seq(Seqs)
    <3> SUFFICES ASSUME NEW s \in Seqs PROVE status'[s] \in Statuses /\ tokens'[s] \in Seq(Seqs)
      OBVIOUS
    <3>1. status[s] \in Statuses /\ tokens[s] \in Seq(Seqs) /\ <<>> \in Seq(Seqs)
      BY <1>6 DEF Typed
    <3>2. CASE s \in ended
      BY <1>10, <1>14, <3>1, <3>2
    <3>3. CASE s \in now \ ended
      BY <1>10, <1>13, <1>14, <3>3
    <3>4. CASE s \notin now
      BY <1>10, <1>11, <3>1, <3>4
    <3> QED BY <3>2, <3>3, <3>4
  <2>2. status' = [s \in Seqs |-> status'[s]] /\ tokens' = [s \in Seqs |-> tokens'[s]]
    BY <1>3 DEF Outcome
  <2>3. status' \in [Seqs -> Statuses] /\ tokens' \in [Seqs -> Seq(Seqs)]
    BY <2>1, <2>2
  <2> QED BY <1>5, <1>6, <2>3 DEF Typed
<1>16. Spared(r)
  BY <1>5, <1>8, <1>10, <1>11 DEF Spared
<1>17. Untouched(m, x, Members(r))
  BY <1>9, <1>11, UntouchedMore
<1>18. (\E s \in Members(r) : status[s] = "running")
       /\ \A s \in Members(r) : s \notin now => status[s] \notin Live /\ status'[s] = status[s]
  <2>1. PICK s \in Members(r) : status[s] = "running"
    BY <1>5, <1>6 DEF Grouped
  <2>2. \A t \in Members(r) : status[t] \in Live => status[t] = "running"
    BY <1>6, <1>14, <2>1 DEF Grouped
  <2> QED BY <1>6, <1>7, <1>8, <1>10, <1>11, <2>1, <2>2
<1>19. \A s \in Members(r) : s \in now => status'[s] = "finished" \/ status'[s] = "running"
  BY <1>10, <1>11
<1>20. Grouped(r, status', r \in batch')
  <2>1. \A s \in Members(r) : status'[s] \in Live => status'[s] = "running"
    BY <1>14, <1>18, <1>19
  <2>2. status'[SeqsOf[r][1]] # "absent"
    <3>1. SeqsOf[r][1] \in Members(r)
      BY MembersAre
    <3>2. status[SeqsOf[r][1]] # "absent"
      BY <1>6, <1>18 DEF Grouped
    <3> QED BY <1>18, <1>19, <3>1, <3>2
  <2>3. \A s \in Members(r) : status'[s] # "waiting"
    BY <2>1 DEF Live
  <2> QED BY <1>5, <2>1, <2>2, <2>3 DEF Grouped
<1>21. ASSUME NEW s \in Members(r)
       PROVE  Right(x, s, status'[s], tokens'[s], s \in prefill', r \in batch')
  <2>1. s \in Seqs /\ Right(m, s, status[s], tokens[s], s \in prefill, r \in batch)
    BY <1>6
  <2>2. (r \in batch') = FALSE /\ (s \in R => (s \in prefill') = FALSE)
    BY <1>5
  <2>3. s \notin R => (s \in prefill') = (s \in prefill)
    BY <1>5
  <2>4. s \in now => s \notin prefill'
    <3>1. CASE s \in R
      BY <2>2, <3>1
    <3>2. CASE s \in born
      <4>1. status[s] = "absent"
        BY <1>8, <3>2
      <4>2. s \notin prefill
        BY <2>1, <4>1 DEF Right, Recorded
      <4> QED BY <1>5, <4>2
    <3> QED BY <1>7, <3>1, <3>2
  <2>5. CASE s \in ended
    <3>1. status'[s] = "finished" /\ tokens'[s] = <<>>
      BY <1>10, <2>1, <2>5
    <3>2. Listed(x.table[s]) \subseteq Device("finished")
      BY <1>9, <2>5 DEF Listed, Firsts
    <3>3. s \notin prefill'
      BY <1>11, <2>4, <2>5
    <3> QED BY <3>1, <3>2, <3>3 DEF Right, Recorded, Sound, Live, Statuses
  <2>6. CASE s \in now \ ended
    <3>1. status'[s] = "running" /\ tokens'[s] = Append(tokens[Mother(born, parent, s)], s)
      BY <1>10, <2>1, <2>6
    <3>2. /\ Len(tokens'[s]) \in 1 .. MaxTokens - 1 /\ Kept(x, s, tokens'[s])
          /\ Listed(x.table[s]) \subseteq GpuBlocks
      BY <1>13, <2>6, <3>1
    <3>3. s \notin prefill' /\ r \notin batch'
      BY <2>2, <2>4, <2>6
    <3> QED BY <1>14, <3>1, <3>2, <3>3 DEF Right, Recorded, Sound, Device
  <2>7. CASE s \notin now
    <3>1. status'[s] = status[s] /\ tokens'[s] = tokens[s] /\ s \notin R /\ status[s] # "running"
      BY <1>7, <1>8, <1>10, <1>11, <2>1, <2>7
    <3>2. Right(x, s, status[s], tokens[s], s \in prefill, r \in batch)
      <4>1. s \in Seqs \ now /\ tokens[s] \in Seq(Seqs)
        BY <1>6, <2>1, <2>7
      <4> QED BY <1>6, <1>9, <2>1, <4>1, RightStays
    <3>3. Right(x, s, status[s], tokens[s], s \in prefill, r \in batch')
      BY <3>1, <3>2, RightElse
    <3> QED BY <2>3, <3>1, <3>3
  <2> QED BY <1>11, <2>5, <2>6, <2>7
<1>22. Settled(r)'
  BY <1>9, <1>20, <1>21 DEF Settled
<1>23. Counted(m', Exactly) /\ Untouched(m, m', Members(r))
  BY <1>9, <1>17
<1>24. Inductive'
  BY <1>15, <1>16, <1>22, <1>23, GroupStep
<1> QED BY <1>9, <1>24

-----------------------------------------------------------------------------
(* The stage of the groups of the batch.                                   *)

\* A step on one group leaves the stage of the others.
LEMMA StartedStays ==
    ASSUME Inductive', NEW r \in Requests, Spared(r), \A q \in batch : Started(q),
           r \in batch' => Started(r)'
    PROVE  \A q \in batch' : Started(q)'
<1> SUFFICES ASSUME NEW q \in batch', q # r PROVE Started(q)'
  OBVIOUS
<1>1. q \in Requests \ {r} /\ q \in batch /\ Started(q)
  BY DEF Inductive, Typed, Spared
<1>2. Members(q) \in SUBSET Seqs /\ Members(q) \cap Members(r) = {} /\ SeqsOf[q][1] \in Members(q)
  BY <1>1, MembersAre
<1>3. \A s \in Members(q) : status'[s] = status[s] /\ (s \in prefill' <=> s \in prefill)
  BY <1>2 DEF Spared
<1> QED BY <1>1, <1>2, <1>3 DEF Started, IsPrefill

\* A group with no sequence to be computed in full.
LEMMA StartedLater ==
    ASSUME NEW r \in Requests, \A s \in Members(r) : s \notin prefill'
    PROVE  Started(r)'
  BY MembersAre DEF Started, IsPrefill

\* Whose sequences are all in one place and past their prefill.
LEMMA PastPrefill ==
    ASSUME Inductive, NEW r \in Requests, NEW st \in {"running", "swapped"},
           st = "running" => r \notin batch, InPlace(r, st) # {}
    PROVE  \A s \in Members(r) : s \notin prefill
<1> SUFFICES ASSUME NEW s \in Members(r), s \in prefill PROVE FALSE
  OBVIOUS
<1>1. Right(m, s, status[s], tokens[s], s \in prefill, r \in batch)
  BY GroupIs
<1>2. status[s] \in Live
  BY <1>1 DEF Right, Recorded, Live
<1>3. st \in Live
  BY DEF Live
<1>4. s \in InPlace(r, st)
  BY <1>2, <1>3, MatesAre DEF LiveIn
<1> QED BY <1>4, QueuedKeep

\* A group that is admitted, and of which the metadata finds one sequence.
LEMMA AdmittedStarted ==
    ASSUME Inductive, NEW r \in Requests, InPlace(r, "waiting") # {},
           IsPrefill(r) => NumSeqs(r) = 1
    PROVE  /\ IsPrefill(r) => \A s \in Members(r) : status[s] # "absent" => s = SeqsOf[r][1]
           /\ Exactly => \A s \in Members(r) : s \in prefill => s = SeqsOf[r][1]
<1>1. PICK first \in Members(r) : first = SeqsOf[r][1]
  BY MembersAre
<1>2. "waiting" \in Live /\ "waiting" # "running"
  BY DEF Live
<1>3. Grouped(r, status, r \in batch) /\ r \notin batch
  BY <1>2, GroupIs, MatesAre
<1>4. ASSUME NEW s \in Members(r), s \in prefill PROVE status[s] = "waiting"
  BY <1>3, <1>4, GroupIs DEF Right, Recorded
<1>5. ASSUME IsPrefill(r), NEW s \in Members(r), status[s] # "absent" PROVE s = first
  <2> DEFINE S == {t \in Seqs : status[t] # "absent"}
             A == Members(r) \cap S
  <2>1. SeqsOf[r] \in Seq(Seqs) /\ Distinct(SeqsOf[r]) /\ Members(r) \in SUBSET Seqs
        /\ IsFiniteSet(Members(r))
    BY MembersAre
  <2>2. s \in A /\ first \in A
    <3>1. first \in prefill
      BY <1>1, <1>5 DEF IsPrefill
    <3> QED BY <1>4, <1>5, <2>1, <3>1
  <2> HIDE DEF S
  <2>3. NumSeqs(r) = Cardinality(A)
    <3>1. /\ Only(SeqsOf[r], S) \in Seq(Seqs) /\ Distinct(Only(SeqsOf[r], S))
          /\ Listed(Only(SeqsOf[r], S)) = A
      BY <2>1, OnlyIs DEF Members
    <3>2. NumSeqs(r) = Len(Only(SeqsOf[r], S))
      BY DEF NumSeqs, S
    <3> QED BY <3>1, <3>2, DistinctLen
  <2>4. IsFiniteSet(A)
    BY <2>1, FS_Subset
  <2>5. Cardinality(A) = 1
    BY <1>5, <2>3
  <2> HIDE DEF A
  <2>6. PICK t : A = {t}
    BY <2>4, <2>5, FS_Singleton
  <2> QED BY <2>2, <2>6
<1>6. ASSUME Exactly, NEW s \in Members(r), s \in prefill PROVE s = first
  BY <1>1, <1>3, <1>4, <1>6 DEF Grouped
<1> QED BY <1>1, <1>5, <1>6

\* The records of the other groups stay when those of some sequences of r change.
LEMMA SparedIs ==
    ASSUME NEW r \in Requests, NEW E, E \subseteq Members(r),
           \A s \in Seqs \ E :
             status'[s] = status[s] /\ tokens'[s] = tokens[s] /\ (s \in prefill' <=> s \in prefill),
           \A q \in Requests \ {r} : q \in batch' <=> q \in batch
    PROVE  Spared(r)
  BY DEF Spared

\* A new group is not in the batch.
LEMMA AddStarted ==
    ASSUME Inductive, Inductive', NEW r \in Requests, NEW k \in PromptLengths, AddSeqGroup(r, k),
           \A q \in batch : Started(q)
    PROVE  \A q \in batch' : Started(q)'
<1>1. PICK s \in Members(r) : s = SeqsOf[r][1]
  BY MembersAre
<1>2. /\ status[s] = "absent" /\ status' = [status EXCEPT ![s] = "waiting"]
      /\ tokens' = [tokens EXCEPT ![s] = [i \in 1 .. k |-> s]]
      /\ prefill' = prefill \cup {s} /\ batch' = batch
  BY <1>1 DEF AddSeqGroup
<1>3. Typed /\ {s} \subseteq Members(r)
  BY DEF Inductive
<1>4. \A t \in Seqs \ {s} :
        status'[t] = status[t] /\ tokens'[t] = tokens[t] /\ (t \in prefill' <=> t \in prefill)
  BY <1>2, <1>3 DEF Typed
<1>5. Spared(r)
  BY <1>2, <1>3, <1>4, SparedIs
<1>6. r \notin batch
  <2>1. Grouped(r, status, r \in batch)
    BY GroupIs
  <2> QED BY <1>1, <1>2, <2>1 DEF Grouped
<1> QED BY <1>2, <1>5, <1>6, StartedStays

\* An admitted group has its first sequence to compute, and only that one.
LEMMA AllocateStarted ==
    ASSUME Inductive, Inductive', NEW r \in Requests, AllocateAndSetRunning(r), fault' = "none",
           \A q \in batch : Started(q)
    PROVE  \A q \in batch' : Started(q)'
<1> DEFINE E == InPlace(r, "waiting")
<1>1. ToSet(SeqsIn(r, "waiting")) = E /\ E # {}
  BY SeqsInIs DEF AllocateAndSetRunning
<1>2. PICK o \in Allocate(r) : Scheduled(r, o)
  BY DEF AllocateAndSetRunning
<1>3. tokens' = tokens /\ prefill' = prefill /\ SetStatus(SeqsIn(r, "waiting"), "running")
  BY DEF AllocateAndSetRunning
<1>4. \A q \in Requests \ {r} : q \in batch' <=> q \in batch
  BY <1>2, ScheduledIs
<1>5. \A s \in Seqs : status'[s] = IF s \in E THEN "running" ELSE status[s]
  BY <1>1, <1>3 DEF SetStatus
<1>6. E \subseteq Members(r) /\ \A s \in E : status[s] = "waiting"
  BY DEF InPlace
<1>7. IsPrefill(r) => NumSeqs(r) = 1
  BY <1>2 DEF Scheduled
<1>8. /\ IsPrefill(r) => \A s \in Members(r) : status[s] # "absent" => s = SeqsOf[r][1]
      /\ Exactly => \A s \in Members(r) : s \in prefill => s = SeqsOf[r][1]
  BY <1>1, <1>7, AdmittedStarted
<1> HIDE DEF E
<1>9. Started(r)'
  <2>1. \A s \in Members(r) : status'[s] # "absent" => status[s] # "absent"
    BY <1>5, <1>6, MembersAre
  <2> QED BY <1>3, <1>8, <2>1 DEF Started, IsPrefill
<1>10. Spared(r)
  BY <1>3, <1>4, <1>5, <1>6, SparedIs
<1> QED BY <1>9, <1>10, StartedStays

\* A running group is past its prefill.
LEMMA ScheduleStarted ==
    ASSUME Inductive, Inductive', NEW r \in Requests, ScheduleRunning(r),
           \A q \in batch : Started(q)
    PROVE  \A q \in batch' : Started(q)'
<1>1. PICK o : Scheduled(r, o)
  BY DEF ScheduleRunning
<1>2. status' = status /\ tokens' = tokens /\ prefill' = prefill
  BY DEF ScheduleRunning
<1>3. \A q \in Requests \ {r} : q \in batch' <=> q \in batch
  BY <1>1, ScheduledIs
<1>4. Spared(r)
  BY <1>2, <1>3 DEF Spared
<1>5. InPlace(r, "running") # {} /\ r \notin batch
  BY SeqsInIs DEF ScheduleRunning, Queued
<1>6. \A s \in Members(r) : s \notin prefill
  BY <1>5, PastPrefill
<1>7. Started(r)'
  BY <1>2, <1>6, StartedLater
<1> QED BY <1>4, <1>7, StartedStays

\* So is one that comes back.
LEMMA SwapInStarted ==
    ASSUME Inductive, Inductive', NEW r \in Requests, ScheduleSwapped(r),
           \A q \in batch : Started(q)
    PROVE  \A q \in batch' : Started(q)'
<1> DEFINE E == InPlace(r, "swapped")
<1>1. ToSet(SeqsIn(r, "swapped")) = E /\ E # {}
  BY SeqsInIs DEF ScheduleSwapped
<1>2. PICK o : Scheduled(r, o)
  BY DEF ScheduleSwapped
<1>3. tokens' = tokens /\ prefill' = prefill /\ SetStatus(SeqsIn(r, "swapped"), "running")
  BY DEF ScheduleSwapped
<1>4. \A q \in Requests \ {r} : q \in batch' <=> q \in batch
  BY <1>2, ScheduledIs
<1>5. \A s \in Seqs : status'[s] = IF s \in E THEN "running" ELSE status[s]
  BY <1>1, <1>3 DEF SetStatus
<1>6. E \subseteq Members(r)
  BY DEF InPlace
<1>7. \A s \in Members(r) : s \notin prefill
  BY <1>1, PastPrefill
<1> HIDE DEF E
<1>8. Spared(r)
  BY <1>3, <1>4, <1>5, <1>6, SparedIs
<1>9. Started(r)'
  BY <1>3, <1>7, StartedLater
<1> QED BY <1>8, <1>9, StartedStays

\* The victim of a preemption is not in the batch.
LEMMA PreemptStarted ==
    ASSUME Inductive, Inductive', NEW r \in Requests, NEW v \in Requests, Preempt(r, v),
           \A q \in batch : Started(q)
    PROVE  \A q \in batch' : Started(q)'
<1> DEFINE E == InPlace(v, "running")
<1>1. ToSet(SeqsIn(v, "running")) = E
  BY SeqsInIs
<1>2. v \notin batch /\ tokens' = tokens /\ batch' = batch
  BY DEF Preempt, Queued
<1>3. E \subseteq Members(v)
  BY DEF InPlace
<1>4. \A s \in Seqs \ E : status'[s] = status[s] /\ (s \in prefill' <=> s \in prefill)
  <2>1. CASE PreemptByRecompute(v)
    BY <1>1, <2>1 DEF PreemptByRecompute, SetStatus
  <2>2. CASE PreemptBySwap(v)
    BY <1>1, <2>2 DEF PreemptBySwap, SetStatus
  <2> QED BY <2>1, <2>2 DEF Preempt
<1> HIDE DEF E
<1>5. Spared(v)
  BY <1>2, <1>3, <1>4, SparedIs
<1> QED BY <1>2, <1>5, StartedStays

\* A group that ends is not in the batch.
LEMMA EndStarted ==
    ASSUME Inductive, Inductive', NEW r \in Requests,
           IgnoreSeqGroup(r) \/ DropSwapped(r) \/ AbortSeqGroup(r),
           \A q \in batch : Started(q)
    PROVE  \A q \in batch' : Started(q)'
<1>1. PICK list : /\ SetStatus(list, "finished") /\ Forget(list) /\ ToSet(list) \subseteq Members(r)
                  /\ \A s \in Seqs \ ToSet(list) : s \in prefill' <=> s \in prefill
  <2>1. CASE IgnoreSeqGroup(r)
    BY <2>1, SeqsInIs DEF IgnoreSeqGroup, InPlace
  <2>2. CASE DropSwapped(r)
    BY <2>2, SeqsInIs DEF DropSwapped, InPlace
  <2>3. CASE AbortSeqGroup(r)
    BY <2>3, UnfinishedIs DEF AbortSeqGroup
  <2> QED BY <2>1, <2>2, <2>3
<1>2. batch' = batch /\ r \notin batch
  <2>1. CASE IgnoreSeqGroup(r)
    BY <2>1, SeqsInIs, MatesAre DEF IgnoreSeqGroup, Live
  <2>2. CASE DropSwapped(r)
    BY <2>2, SeqsInIs, MatesAre DEF DropSwapped, Live
  <2>3. CASE AbortSeqGroup(r)
    BY <2>3 DEF AbortSeqGroup
  <2> QED BY <2>1, <2>2, <2>3
<1>3. \A s \in Seqs \ ToSet(list) : status'[s] = status[s] /\ tokens'[s] = tokens[s]
  BY <1>1 DEF SetStatus, Forget
<1>4. Spared(r)
  BY <1>1, <1>2, <1>3, SparedIs
<1> QED BY <1>2, <1>4, StartedStays

\* After a step of the model the group leaves the batch.
LEMMA ProcessStarted ==
    ASSUME Inductive, Inductive', NEW r \in Requests, ProcessOutputs(r),
           \A q \in batch : Started(q)
    PROVE  \A q \in batch' : Started(q)'
<1>1. PICK R, A : R = InPlace(r, "running") /\ A = InPlace(r, "absent")
  OBVIOUS
<1>2. PICK running, absent : running = SeqsIn(r, "running") /\ absent = SeqsIn(r, "absent")
  OBVIOUS
<1>3. PICK born \in SUBSET A : \E parent \in [born -> R], ended \in SUBSET (R \cup born) :
        Outcome(r, running, absent, born, parent, ended)
  BY <1>1, <1>2, OutcomeIs
<1>4. PICK parent \in [born -> R], ended \in SUBSET (R \cup born) :
        Outcome(r, running, absent, born, parent, ended)
  BY <1>3
<1>5. ToSet(running) = R /\ R \subseteq Members(r) /\ A \subseteq Members(r)
  BY <1>1, <1>2, SeqsInIs DEF InPlace
<1>6. PICK E : E = R \cup born /\ E \subseteq Members(r)
  BY <1>5
<1>7. \A s \in Seqs \ E : status'[s] = status[s] /\ tokens'[s] = tokens[s]
  BY <1>4, <1>5, <1>6 DEF Outcome
<1>8. prefill' = prefill \ R /\ batch' = batch \ {r}
  BY <1>2, <1>5 DEF ProcessOutputs
<1>9. Spared(r)
  BY <1>6, <1>7, <1>8, SparedIs
<1> QED BY <1>8, <1>9, StartedStays

-----------------------------------------------------------------------------
(* The theorems.                                                           *)

\* The manager of a new engine has every block free, and no tables.
LEMMA EmptyManagerIs ==
    Counted(EmptyManager, Exactly)
<1>1. EmptyManager \in Managers
  <2>1. <<>> \in Seq(Blocks) /\ Unwritten \in [Slots -> Cells]
    BY DEF Unwritten, Cells
  <2> QED BY <2>1 DEF EmptyManager, Managers
<1>2. \A s \in Seqs : EmptyManager.table[s] = <<>>
  BY DEF EmptyManager
<1>3. ASSUME NEW b \in Blocks
      PROVE  /\ Cardinality(Owners(EmptyManager, b)) = 0 /\ EmptyManager.refs[b] = 0
             /\ b \in EmptyManager.free
  <2>1. Owners(EmptyManager, b) = {}
    BY <1>2 DEF Owners, Listed, Firsts
  <2>2. EmptyManager.refs[b] = 0 /\ b \in EmptyManager.free
    BY DEF EmptyManager
  <2> QED BY <2>1, <2>2, FS_EmptySet
<1>4. \A s \in Seqs : Distinct(EmptyManager.table[s])
  BY <1>2 DEF Distinct
<1> QED BY <1>1, <1>3, <1>4 DEF Counted

\* A new engine.
LEMMA InitStep ==
    Init => IInv
<1> SUFFICES ASSUME Init PROVE Inductive
  BY DEF Init, IInv
<1>1. /\ m = EmptyManager /\ prefill = {} /\ batch = {}
      /\ \A s \in Seqs : status[s] = "absent" /\ tokens[s] = <<>> /\ m.table[s] = <<>>
  BY DEF Init, EmptyManager
<1>2. Typed
  <2>1. "absent" \in Statuses
    BY DEF Statuses
  <2>2. status \in [Seqs -> Statuses] /\ layers \in [Requests -> {FreshLayers, NumLayers}]
    BY <2>1 DEF Init
  <2>3. tokens \in [Seqs -> Seq(Seqs)]
    BY DEF Init
  <2> QED BY <1>1, <2>2, <2>3 DEF Typed
<1>3. ASSUME NEW r \in Requests
      PROVE  Settled(r)
  <2>1. SeqsOf[r][1] \in Members(r) /\ Members(r) \in SUBSET Seqs
    BY MembersAre
  <2>2. "absent" \notin Live /\ "absent" \in Statuses
    BY DEF Live, Statuses
  <2>3. Grouped(r, status, r \in batch)
    BY <1>1, <2>1, <2>2 DEF Grouped
  <2>4. ASSUME NEW s \in Members(r)
        PROVE  Right(m, s, status[s], tokens[s], s \in prefill, r \in batch)
    <3>1. status[s] = "absent" /\ tokens[s] = <<>> /\ m.table[s] = <<>>
      BY <1>1, <2>1
    <3>2. Listed(m.table[s]) = {}
      BY <3>1 DEF Listed, Firsts
    <3> QED BY <1>1, <2>2, <3>1, <3>2 DEF Right, Recorded, Sound
  <2> QED BY <2>3, <2>4 DEF Settled
<1>4. \A s \in Seqs : Unborn(s)
  BY <1>1 DEF Unborn
<1> QED BY <1>1, <1>2, <1>3, <1>4, EmptyManagerIs DEF Inductive

\* A step keeps the stage of the groups that are executed.
LEMMA StartedStep ==
    ASSUME Inductive, Inductive', Next, fault' = "none", \A q \in batch : Started(q)
    PROVE  \A q \in batch' : Started(q)'
<1>1. CASE \E r \in Requests, k \in PromptLengths : AddSeqGroup(r, k)
  BY <1>1, AddStarted
<1>2. CASE \E r \in Requests : AllocateAndSetRunning(r)
  BY <1>2, AllocateStarted
<1>3. CASE \E r \in Requests : ScheduleRunning(r)
  BY <1>3, ScheduleStarted
<1>4. CASE \E r, v \in Requests : Preempt(r, v)
  BY <1>4, PreemptStarted
<1>5. CASE \E r \in Requests : ScheduleSwapped(r)
  BY <1>5, SwapInStarted
<1>6. CASE \E r \in Requests : IgnoreSeqGroup(r) \/ DropSwapped(r) \/ AbortSeqGroup(r)
  BY <1>6, EndStarted
<1>7. CASE \E r \in Requests : ProcessOutputs(r)
  BY <1>7, ProcessStarted
<1> QED BY <1>1, <1>2, <1>3, <1>4, <1>5, <1>6, <1>7 DEF Next

\* Every step keeps the invariant. An engine that has ended makes none.
LEMMA NextStep ==
    ASSUME Window = 0, IInv, [Next]_vars
    PROVE  IInv'
<1>1. CASE UNCHANGED vars
  <2>1. /\ m' = m /\ status' = status /\ tokens' = tokens /\ layers' = layers
        /\ prefill' = prefill /\ batch' = batch /\ fault' = fault
    BY <1>1 DEF vars
  <2>2. ASSUME Inductive PROVE Inductive'
    BY <2>1, <2>2 DEF Inductive, Typed, Settled, Unborn
  <2>3. ASSUME \A r \in batch : Started(r) PROVE \A r \in batch' : Started(r)'
    BY <2>1, <2>3 DEF Started, IsPrefill
  <2>4. ASSUME TypeOK PROVE TypeOK'
    BY <2>1, <2>4 DEF TypeOK
  <2> QED BY <2>1, <2>2, <2>3, <2>4 DEF IInv
<1>2. CASE Next
  <2>1. fault = "none"
    BY <1>2 DEF Next, AddSeqGroup, AllocateAndSetRunning, IgnoreSeqGroup, ScheduleRunning,
                Preempt, ScheduleSwapped, DropSwapped, ProcessOutputs, AbortSeqGroup, Up
  <2>2. Inductive /\ \A r \in batch : Started(r)
    BY <2>1 DEF IInv
  <2>3. \/ Inductive' /\ fault' \in {"none", "CPU swap space", "prefill of several sequences"}
        \/ TypeOK' /\ fault' = "allocate" /\ FreshLayers < NumLayers
    <3>1. CASE \E r \in Requests, k \in PromptLengths : AddSeqGroup(r, k)
      BY <2>2, <3>1, AddStep
    <3>2. CASE \E r \in Requests : AllocateAndSetRunning(r)
      BY <2>2, <3>2, AllocateStep
    <3>3. CASE \E r \in Requests : IgnoreSeqGroup(r)
      BY <2>2, <3>3, IgnoreStep
    <3>4. CASE \E r \in Requests : ScheduleRunning(r)
      BY <2>2, <3>4, ScheduleStep
    <3>5. CASE \E r, v \in Requests : Preempt(r, v)
      BY <2>2, <3>5, PreemptStep
    <3>6. CASE \E r \in Requests : ScheduleSwapped(r)
      BY <2>2, <3>6, SwapInStep
    <3>7. CASE \E r \in Requests : DropSwapped(r)
      BY <2>2, <3>7, DropStep
    <3>8. CASE \E r \in Requests : ProcessOutputs(r)
      <4>1. PICK r \in Requests : ProcessOutputs(r)
        BY <3>8
      <4>2. Started(r)
        BY <2>2, <4>1 DEF ProcessOutputs
      <4> QED BY <2>2, <4>1, <4>2, ProcessStep
    <3>9. CASE \E r \in Requests : AbortSeqGroup(r)
      BY <2>2, <3>9, AbortStep
    <3> QED BY <1>2, <3>1, <3>2, <3>3, <3>4, <3>5, <3>6, <3>7, <3>8, <3>9 DEF Next
  <2>4. ASSUME Inductive', fault' = "none" PROVE \A r \in batch' : Started(r)'
    BY <1>2, <2>2, <2>4, StartedStep
  <2> QED BY <2>3, <2>4 DEF IInv
<1> QED BY <1>1, <1>2

\* The inductive invariant holds in every reachable state, without a sliding window:
\* with one, a table goes round, and a block that stands in it several times has
\* neither one reference per table nor one content per position.
THEOREM Invariant ==
    ASSUME Window = 0
    PROVE  Spec => []IInv
<1>1. Init => IInv
  BY InitStep
<1>2. IInv /\ [Next]_vars => IInv'
  BY NextStep
<1> QED BY <1>1, <1>2, PTL DEF Spec

\* The types of the manager and of the scheduler's records stay, and the tables of a
\* sequence stay on the device that its status says: no call leaves a running sequence
\* with a CPU block, nor one that waits with any.
THEOREM TypesRight ==
    ASSUME Window = 0
    PROVE  Spec => []TypeOK
<1>1. IInv => TypeOK
  BY InductiveTypes DEF IInv
<1> QED BY <1>1, Invariant, PTL

\* The reference count of a block is the number of tables that have it, and the free
\* list has exactly the blocks of no table: through admissions, copies on write,
\* forks, both preemptions, aborts, and the way of shared blocks to the CPU and back.
\* A request for several sequences without beam search is excluded: when some of them
\* have finished and the last one is preempted by recompute, it is allocated again with
\* references for the finished ones too.
THEOREM ReferencesExact ==
    ASSUME Window = 0, Exactly
    PROVE  Spec => []RefsExact
<1>1. IInv => RefsExact
  <2>1. ASSUME IInv, ~Up PROVE RefsExact
    BY <2>1 DEF RefsExact
  <2>2. ASSUME IInv, Up PROVE RefsExact
    BY <2>2, InductiveCounts DEF IInv, Up
  <2> QED BY <2>1, <2>2
<1> QED BY <1>1, Invariant, PTL

\* The cache of a running sequence holds its own tokens in their positions, whatever
\* was forked, copied, swapped, preempted or given to others in between: what a step
\* of the model reads is what the sequence wrote. Excluded as above: the sequence that
\* is recomputed is not the first one, from which the stage of the group is read, so
\* that its group is decoded and only its newest token computed.
THEOREM ContentsRight ==
    ASSUME Window = 0, Exactly
    PROVE  Spec => []KVIntact
<1>1. IInv => KVIntact
  <2>1. ASSUME IInv, ~Up PROVE KVIntact
    BY <2>1 DEF KVIntact
  <2>2. ASSUME IInv, Up PROVE KVIntact
    BY <2>2, InductiveContents DEF IInv, Up
  <2> QED BY <2>1, <2>2
<1> QED BY <1>1, Invariant, PTL

\* For any numbers of layers: what can_append_slots, can_swap_out and can_swap_in agree
\* to does not raise, no block is freed twice, and allocate() raises only in a model of
\* more layers than a new group's cache_layers, where can_allocate counts no block.
THEOREM ChecksSufficient ==
    ASSUME Window = 0
    PROVE  Spec => []CheckedCallsSucceed
<1>1. IInv => CheckedCallsSucceed
  BY DEF IInv, CheckedCallsSucceed
<1> QED BY <1>1, Invariant, PTL

=============================================================================
