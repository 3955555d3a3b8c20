---------------------- MODULE TokenLayerKVMap_proofs ----------------------
(***************************************************************************)
(* The methods of the KV block map keep the map in order (MapOK), for      *)
(* every number of sequences, blocks and layer groups and every block      *)
(* size: lemmas about block counts, then about one group's pool, then the  *)
(* map as a value, then one lemma per method.                              *)
(***************************************************************************)
EXTENDS TokenLayerKVMap, FiniteSetTheorems, TLAPS

-----------------------------------------------------------------------------
(* Counting blocks: NumLogicalBlocks is a ceiling division.                *)

\* A number is the multiple of the block size below it, and a rest.
LEMMA DivisionParts ==
    \A n \in Nat : /\ n \div BlockSize \in Nat
                   /\ n % BlockSize \in 0 .. BlockSize - 1
                   /\ n = BlockSize * (n \div BlockSize) + (n % BlockSize)
  BY SizesAssumption, SMTT(30)

\* Multiples of the block size are a block apart.
LEMMA StrictMultiples ==
    ASSUME NEW a \in Int, NEW b \in Int, a < b
    PROVE  BlockSize * a + BlockSize <= BlockSize * b
<1>1. BlockSize * (b - a) >= BlockSize
  <2>1. \A x \in Int : x >= 1 => BlockSize * x >= BlockSize
    BY SizesAssumption, SMTT(30)
  <2> QED BY <2>1
<1>2. BlockSize * (b - a) = BlockSize * b - BlockSize * a
  BY SizesAssumption, SMTT(30)
<1> QED BY <1>1, <1>2, SizesAssumption, SMTT(30)

\* More tokens fill no fewer blocks.
LEMMA DivisionMonotone ==
    ASSUME NEW n \in Nat, NEW k \in Nat, n <= k
    PROVE  n \div BlockSize <= k \div BlockSize
<1> SUFFICES ASSUME k \div BlockSize < n \div BlockSize PROVE FALSE
  BY DivisionParts
<1>1. BlockSize * (k \div BlockSize) + BlockSize <= BlockSize * (n \div BlockSize)
  BY StrictMultiples, DivisionParts
<1> QED BY <1>1, DivisionParts, SizesAssumption, SMTT(30)

\* More tokens need no fewer blocks.
LEMMA BlocksMonotone ==
    ASSUME NEW n \in Nat, NEW k \in Nat, n <= k
    PROVE  NumLogicalBlocks(n) <= NumLogicalBlocks(k)
<1>1. n + BlockSize - 1 \in Nat /\ k + BlockSize - 1 \in Nat
      /\ n + BlockSize - 1 <= k + BlockSize - 1
  BY SizesAssumption
<1> QED BY <1>1, DivisionMonotone DEF NumLogicalBlocks

\* The ceiling of zero, of a positive length and of one more token.
LEMMA BlocksStep ==
    ASSUME NEW n \in Nat
    PROVE  /\ NumLogicalBlocks(n) \in Nat
           /\ NumLogicalBlocks(0) = 0
           /\ n > 0 => NumLogicalBlocks(n) > 0
           /\ NumLogicalBlocks(n + 1) \in {NumLogicalBlocks(n), NumLogicalBlocks(n) + 1}
<1>1. n + BlockSize - 1 \in Nat /\ n + BlockSize \in Nat /\ BlockSize - 1 \in Nat
  BY SizesAssumption
<1>2. NumLogicalBlocks(n) \in Nat
  BY <1>1, DivisionParts DEF NumLogicalBlocks
<1>3. (BlockSize - 1) \div BlockSize = 0
  <2> DEFINE q == (BlockSize - 1) \div BlockSize
  <2>1. q \in Nat /\ BlockSize * q <= BlockSize - 1
    BY <1>1, DivisionParts, SizesAssumption
  <2>2. ~ 0 < q
    BY <2>1, StrictMultiples, SizesAssumption
  <2> QED BY <2>1, <2>2
<1>4. NumLogicalBlocks(0) = 0
  BY <1>3, SizesAssumption DEF NumLogicalBlocks
<1>5. BlockSize \div BlockSize = 1
  BY SizesAssumption, SMTT(30)
<1>6. ASSUME n > 0 PROVE NumLogicalBlocks(n) > 0
  <2>1. BlockSize <= n + BlockSize - 1
    BY <1>6, SizesAssumption
  <2> QED BY <2>1, <1>1, <1>2, <1>5, DivisionMonotone, SizesAssumption
          DEF NumLogicalBlocks
<1>7. NumLogicalBlocks(n + 1) <= NumLogicalBlocks(n) + 1
  <2> DEFINE x == n + BlockSize - 1
             q == x \div BlockSize
             r == (x + 1) \div BlockSize
  <2>1. x \in Nat /\ x + 1 \in Nat /\ q \in Nat /\ r \in Nat
    BY <1>1, DivisionParts, SizesAssumption
  <2>2. BlockSize * r <= x + 1 /\ x + 1 <= BlockSize * q + BlockSize
    BY <2>1, DivisionParts, SizesAssumption, SMTT(30)
  <2>3. ~ q + 1 < r
    <3> SUFFICES ASSUME q + 1 < r PROVE FALSE OBVIOUS
    <3>1. BlockSize * (q + 1) + BlockSize <= BlockSize * r
      BY <2>1, StrictMultiples
    <3>2. BlockSize * (q + 1) = BlockSize * q + BlockSize
      BY <2>1, SizesAssumption, SMTT(30)
    <3> HIDE DEF q, r, x
    <3> QED BY <2>1, <2>2, <3>1, <3>2, SizesAssumption, SMTT(30)
  <2>4. NumLogicalBlocks(n) = q /\ NumLogicalBlocks(n + 1) = r
    BY SizesAssumption DEF NumLogicalBlocks
  <2> HIDE DEF q, r
  <2> QED BY <2>1, <2>3, <2>4
<1>8. NumLogicalBlocks(n) <= NumLogicalBlocks(n + 1)
  BY BlocksMonotone
<1>9. NumLogicalBlocks(n + 1) \in Nat
  BY <1>1, DivisionParts, SizesAssumption DEF NumLogicalBlocks
<1> QED BY <1>2, <1>4, <1>6, <1>7, <1>8, <1>9

-----------------------------------------------------------------------------
(* One layer group's pool.                                                 *)

CellOK(c) == CellType(c) /\ CellRefsExact(c)

\* There are finitely many keys.
LEMMA KeysFinite == IsFiniteSet(Keys)
<1>1. NumLogicalBlocks(MaxTokens) \in Nat
  BY BlocksStep, SizesAssumption
<1>2. IsFiniteSet(LogicalBlocks)
  BY <1>1, FS_Interval DEF LogicalBlocks
<1>3. IsFiniteSet(Seqs \X LogicalBlocks)
  BY <1>2, FiniteAssumption, FS_Product
<1>4. IsFiniteSet({"kept", "temp", "copy"})
  <2>1. IsFiniteSet({"kept"}) /\ IsFiniteSet({"temp"}) /\ IsFiniteSet({"copy"})
    BY FS_Singleton
  <2>2. IsFiniteSet({"kept"} \cup {"temp"})
    BY <2>1, FS_Union
  <2>3. IsFiniteSet(({"kept"} \cup {"temp"}) \cup {"copy"})
    BY <2>1, <2>2, FS_Union
  <2>4. ({"kept"} \cup {"temp"}) \cup {"copy"} = {"kept", "temp", "copy"}
    OBVIOUS
  <2> QED BY <2>3, <2>4
<1> DEFINE Nested == {"kept", "temp", "copy"} \X (Seqs \X LogicalBlocks)
           nest == [k \in Keys |-> <<k[1], <<k[2], k[3]>>>>]
<1>5. IsFiniteSet(Nested)
  BY <1>3, <1>4, FS_Product
<1>6. nest \in Injection(Keys, Nested)
  BY DEF Injection, IsInjective, Keys
<1> HIDE DEF Nested, nest
<1> QED BY <1>5, <1>6, FS_Injection

\* Disjoint finite sets add up.
LEMMA DisjointCount ==
    ASSUME NEW S, NEW T, IsFiniteSet(S), IsFiniteSet(T), S \cap T = {}
    PROVE  Cardinality(S \cup T) = Cardinality(S) + Cardinality(T)
<1>1. Cardinality(S \cap T) = 0
  BY FS_EmptySet
<1>2. Cardinality(S) \in Nat /\ Cardinality(T) \in Nat
  BY FS_CardinalityType
<1>3. Cardinality(S \cup T)
        = Cardinality(S) + Cardinality(T) - Cardinality(S \cap T)
  BY FS_Union, Zenon
<1> QED BY <1>1, <1>2, <1>3

\* New entries, whether they name free blocks or blocks already in use, keep
\* the counts exact.
LEMMA AddedOK ==
    ASSUME NEW c, CellOK(c),
           NEW D \in SUBSET Keys, NEW f \in [D -> Blocks],
           D \cap DOMAIN c.table = {}
    PROVE  /\ CellOK(Added(c, f))
           /\ DOMAIN Added(c, f).table = DOMAIN c.table \cup D
           /\ \A k \in D : Added(c, f).table[k] = f[k]
           /\ \A k \in DOMAIN c.table : Added(c, f).table[k] = c.table[k]
<1> DEFINE a == Added(c, f)
           hits(b) == {k \in DOMAIN f : f[k] = b}
<1>1. /\ a.free = c.free \ Range(f)
      /\ a.refs = [b \in Blocks |-> c.refs[b] + Cardinality(hits(b))]
      /\ a.table = Merged(f, c.table)
      /\ a = [free |-> a.free, refs |-> a.refs, table |-> a.table]
  BY DEF Added
<1>2. /\ DOMAIN a.table = DOMAIN c.table \cup D
      /\ \A k \in D : a.table[k] = f[k]
      /\ \A k \in DOMAIN c.table : a.table[k] = c.table[k]
  BY <1>1 DEF Merged
<1>3. a.table \in [DOMAIN a.table -> Blocks]
  BY <1>1, <1>2 DEF Merged, CellOK, CellType
<1>4. \A b \in Blocks : /\ IsFiniteSet(hits(b))
                        /\ IsFiniteSet(Users(c, DOMAIN c.table, b))
                        /\ Cardinality(hits(b)) \in Nat
                        /\ (Cardinality(hits(b)) = 0) <=> (hits(b) = {})
                        /\ Cardinality(Users(c, DOMAIN c.table, b)) \in Nat
  BY KeysFinite, FS_Subset, FS_CardinalityType, FS_EmptySet
     DEF Users, CellOK, CellType
<1>5. ASSUME NEW b \in Blocks
      PROVE  a.refs[b] = Cardinality(Users(a, DOMAIN a.table, b))
  <2>1. Users(a, DOMAIN a.table, b) = Users(c, DOMAIN c.table, b) \cup hits(b)
    BY <1>2 DEF Users
  <2>2. Users(c, DOMAIN c.table, b) \cap hits(b) = {}
    BY DEF Users
  <2>3. Cardinality(Users(a, DOMAIN a.table, b))
          = Cardinality(Users(c, DOMAIN c.table, b)) + Cardinality(hits(b))
    <3> HIDE DEF a, hits
    <3> QED BY <2>1, <2>2, <1>4, DisjointCount
  <2> QED BY <2>3, <1>1 DEF CellOK, CellRefsExact
<1>6. a.free = {b \in Blocks : a.refs[b] = 0}
  <2>1. /\ \A b \in Blocks : c.refs[b] \in Nat
        /\ \A b \in Blocks : b \in Range(f) <=> hits(b) # {}
    <3>1. \A b \in Blocks : c.refs[b] \in Nat
      <4> HIDE DEF a, hits
      <4> QED BY <1>4 DEF CellOK, CellRefsExact
    <3>2. \A b \in Blocks : b \in Range(f) <=> hits(b) # {}
      BY DEF Range
    <3> QED BY <3>1, <3>2
  <2>2. c.free = {b \in Blocks : c.refs[b] = 0}
    BY DEF CellOK, CellRefsExact
  <2>3. \A b \in Blocks : a.refs[b] = c.refs[b] + Cardinality(hits(b))
    BY <1>1
  <2> HIDE DEF hits, a
  <2> QED BY <1>1, <1>4, <2>1, <2>2, <2>3
<1>7. a.refs \in [Blocks -> Int]
  <2> HIDE DEF a, hits
  <2> QED BY <1>1, <1>4 DEF CellOK, CellType
<1>8. CellType(a)
  BY <1>1, <1>2, <1>3, <1>7, <1>6 DEF CellType, CellOK
<1> QED BY <1>2, <1>5, <1>6, <1>8 DEF CellOK, CellRefsExact

\* Popping entries keeps the counts exact, and frees a block with its last one.
LEMMA DroppedOK ==
    ASSUME NEW c, CellOK(c), NEW K \in SUBSET DOMAIN c.table
    PROVE  /\ CellOK(Dropped(c, K))
           /\ DOMAIN Dropped(c, K).table = DOMAIN c.table \ K
           /\ \A k \in DOMAIN c.table \ K : Dropped(c, K).table[k] = c.table[k]
<1> DEFINE d == Dropped(c, K)
           U == DOMAIN c.table
<1>1. /\ d.free = c.free \cup {b \in Blocks : Users(c, K, b) # {} /\ d.refs[b] = 0}
      /\ d.refs = [b \in Blocks |-> c.refs[b] - Cardinality(Users(c, K, b))]
      /\ d.table = Restrict(c.table, U \ K)
      /\ d = [free |-> d.free, refs |-> d.refs, table |-> d.table]
  BY DEF Dropped
<1>2. /\ DOMAIN d.table = U \ K
      /\ \A k \in U \ K : d.table[k] = c.table[k]
      /\ d.table \in [DOMAIN d.table -> Blocks]
  BY <1>1 DEF Restrict, CellOK, CellType
<1>3. \A b \in Blocks, S \in SUBSET U :
        /\ IsFiniteSet(Users(c, S, b))
        /\ Cardinality(Users(c, S, b)) \in Nat
        /\ (Cardinality(Users(c, S, b)) = 0) <=> (Users(c, S, b) = {})
  BY KeysFinite, FS_Subset, FS_CardinalityType, FS_EmptySet
     DEF Users, CellOK, CellType
<1>4. ASSUME NEW b \in Blocks
      PROVE  /\ d.refs[b] = Cardinality(Users(c, U \ K, b))
             /\ d.refs[b] = Cardinality(Users(d, DOMAIN d.table, b))
  <2>1. Users(c, U, b) = Users(c, U \ K, b) \cup Users(c, K, b)
        /\ Users(c, U \ K, b) \cap Users(c, K, b) = {}
    BY DEF Users
  <2>2. Cardinality(Users(c, U, b))
          = Cardinality(Users(c, U \ K, b)) + Cardinality(Users(c, K, b))
    BY <2>1, <1>3, DisjointCount
  <2>3. Users(d, DOMAIN d.table, b) = Users(c, U \ K, b)
    BY <1>2 DEF Users
  <2> QED BY <2>2, <2>3, <1>1, <1>3 DEF CellOK, CellRefsExact
<1>5. d.free = {b \in Blocks : d.refs[b] = 0}
  <2>1. c.free = {b \in Blocks : c.refs[b] = 0}
    BY DEF CellOK, CellRefsExact
  <2>2. \A b \in Blocks : c.refs[b] = Cardinality(Users(c, U, b))
    BY DEF CellOK, CellRefsExact
  <2>3. \A b \in Blocks : c.refs[b] = 0 => Users(c, U, b) = {} /\ Users(c, U \ K, b) = {}
    BY <2>2, <1>3 DEF Users
  <2>4. \A b \in Blocks : d.refs[b] = 0 /\ c.refs[b] # 0 => Users(c, K, b) # {}
    BY <1>1, <1>3, <2>2, FS_EmptySet
  <2>5. \A b \in Blocks : c.refs[b] = 0 => d.refs[b] = 0
    BY <2>3, <1>4, <1>3
  <2> HIDE DEF d
  <2> QED BY <1>1, <2>1, <2>4, <2>5
<1>6. d.refs \in [Blocks -> Int]
  BY <1>1, <1>3 DEF CellOK, CellType
<1>7. CellType(d)
  BY <1>1, <1>2, <1>5, <1>6 DEF CellType, CellOK
<1> QED BY <1>2, <1>4, <1>5, <1>7 DEF CellOK, CellRefsExact

\* Taking free blocks and giving all of them back is no change at all.
LEMMA RollbackOK ==
    ASSUME NEW c, CellOK(c),
           NEW D \in SUBSET Keys, NEW f \in [D -> c.free],
           D \cap DOMAIN c.table = {}
    PROVE  Dropped(Added(c, f), D) = c
<1> DEFINE a == Added(c, f)
           d == Dropped(a, D)
           hits(b) == {k \in D : f[k] = b}
<1>0. f \in [D -> Blocks] /\ c.free \subseteq Blocks
  BY DEF CellOK, CellType
<1>1. /\ CellOK(a)
      /\ DOMAIN a.table = DOMAIN c.table \cup D
      /\ \A k \in D : a.table[k] = f[k]
      /\ \A k \in DOMAIN c.table : a.table[k] = c.table[k]
  BY <1>0, AddedOK
<1>2. /\ a.free = c.free \ Range(f)
      /\ a.refs = [b \in Blocks |-> c.refs[b] + Cardinality(hits(b))]
  BY <1>0 DEF Added
<1>3. \A b \in Blocks : Users(a, D, b) = hits(b) /\ Cardinality(hits(b)) \in Nat
  BY <1>1, KeysFinite, FS_Subset, FS_CardinalityType DEF Users
<1>4. c.refs \in [Blocks -> Int]
  BY DEF CellOK, CellType
<1>5. d.refs = c.refs
  <2>1. d.refs = [b \in Blocks |-> a.refs[b] - Cardinality(Users(a, D, b))]
    BY DEF Dropped
  <2>2. \A b \in Blocks : d.refs[b] = c.refs[b]
    BY <2>1, <1>2, <1>3, <1>4
  <2> QED BY <2>1, <2>2, <1>4
<1>6. d.free = c.free
  <2>1. d.free = a.free \cup {b \in Blocks : Users(a, D, b) # {} /\ d.refs[b] = 0}
    BY DEF Dropped
  <2>2. \A b \in Blocks : Users(a, D, b) # {} <=> b \in Range(f)
    BY <1>0, <1>3 DEF Range
  <2>3. c.free = {b \in Blocks : c.refs[b] = 0}
    BY DEF CellOK, CellRefsExact
  <2> HIDE DEF a, d
  <2> QED BY <2>1, <2>2, <2>3, <1>0, <1>2, <1>5
<1>7. d.table = c.table
  <2>1. d.table = Restrict(a.table, DOMAIN a.table \ D)
    BY DEF Dropped
  <2>2. DOMAIN a.table \ D = DOMAIN c.table
    BY <1>1
  <2> HIDE DEF a, d
  <2> QED BY <2>1, <2>2, <1>1 DEF Restrict, CellOK, CellType
<1>8. d = [free |-> d.free, refs |-> d.refs, table |-> d.table]
  BY DEF Dropped
<1>9. c = [free |-> c.free, refs |-> c.refs, table |-> c.table]
  BY DEF CellOK, CellType
<1>10. d = c
  <2> HIDE DEF d
  <2> QED BY <1>5, <1>6, <1>7, <1>8, <1>9
<1> QED BY <1>10

-----------------------------------------------------------------------------
(* The map as a value.                                                     *)

MapOK(m) == MapType(m) /\ MapRefsExact(m) /\ MapWindow(m)

\* MapWindow, one key at a time.
MapRanges(m) ==
    \A s \in Seqs :
      /\ PrefixBelowTail(m.length[s], m.evicted[s])
      /\ \A g \in Groups :
           /\ \A l \in LogicalBlocks :
                /\ <<"kept", s, l>> \in DOMAIN m.cells[g].table
                     <=> m.evicted[s] <= l /\ l < NumLogicalBlocks(m.length[s])
                /\ <<"copy", s, l>> \notin DOMAIN m.cells[g].table
           /\ \/ \A l \in LogicalBlocks : <<"temp", s, l>> \notin DOMAIN m.cells[g].table
              \/ \A l \in LogicalBlocks :
                   <<"temp", s, l>> \in DOMAIN m.cells[g].table <=> l < m.evicted[s]

\* The blocks of a length that the map may have.
LEMMA LengthBlocks ==
    ASSUME NEW n \in 0 .. MaxTokens
    PROVE  /\ NumLogicalBlocks(n) \in Nat
           /\ NumLogicalBlocks(n) <= NumLogicalBlocks(MaxTokens)
           /\ NumLogicalBlocks(MaxTokens) \in Nat
           /\ \A l \in Nat : l < NumLogicalBlocks(n) => l \in LogicalBlocks
<1>1. n \in Nat /\ MaxTokens \in Nat /\ n <= MaxTokens
  BY SizesAssumption
<1>2. /\ NumLogicalBlocks(n) \in Nat
      /\ NumLogicalBlocks(n) <= NumLogicalBlocks(MaxTokens)
      /\ NumLogicalBlocks(MaxTokens) \in Nat
  BY <1>1, BlocksStep, BlocksMonotone
<1> QED BY <1>2 DEF LogicalBlocks

\* A key is a kind, a sequence and a logical block.
LEMMA KeyForm ==
    /\ \A k \in Keys : /\ k = <<k[1], k[2], k[3]>>
                       /\ k[1] \in {"kept", "temp", "copy"}
                       /\ k[2] \in Seqs
                       /\ k[3] \in LogicalBlocks
    /\ \A x \in {"kept", "temp", "copy"}, s \in Seqs, l \in LogicalBlocks :
         <<x, s, l>> \in Keys
  BY DEF Keys

\* Two ways to say that each sequence has the blocks from its evicted prefix to its
\* end.
LEMMA WindowRanges ==
    ASSUME NEW m, MapType(m)
    PROVE  MapWindow(m) <=> MapRanges(m)
<1> DEFINE D(g) == DOMAIN m.cells[g].table
           lo(s) == m.evicted[s]
           hi(s) == NumLogicalBlocks(m.length[s])
<1>1. \A g \in Groups : D(g) \subseteq Keys
  BY DEF MapType, CellType
<1>2. \A s \in Seqs : /\ lo(s) \in Nat /\ hi(s) \in Nat
                      /\ \A l \in Nat : l < hi(s) => l \in LogicalBlocks
  BY LengthBlocks DEF MapType
<1>3. LogicalBlocks \subseteq Nat
  BY DEF LogicalBlocks
<1> SUFFICES ASSUME NEW s \in Seqs, NEW g \in Groups,
                    PrefixBelowTail(m.length[s], m.evicted[s])
             PROVE  /\ Entries(m, g, "kept", {s}) = KeysOf("kept", {s}, lo(s) .. hi(s) - 1)
                         <=> \A l \in LogicalBlocks :
                               <<"kept", s, l>> \in D(g) <=> lo(s) <= l /\ l < hi(s)
                    /\ Entries(m, g, "copy", {s}) = {}
                         <=> \A l \in LogicalBlocks : <<"copy", s, l>> \notin D(g)
                    /\ Entries(m, g, "temp", {s}) = {}
                         <=> \A l \in LogicalBlocks : <<"temp", s, l>> \notin D(g)
                    /\ Entries(m, g, "temp", {s}) = KeysOf("temp", {s}, 0 .. lo(s) - 1)
                         <=> \A l \in LogicalBlocks : <<"temp", s, l>> \in D(g) <=> l < lo(s)
  BY DEF MapWindow, MapRanges
<1>4. ASSUME NEW x \in {"kept", "temp", "copy"}
      PROVE  /\ \A l \in LogicalBlocks :
                  <<x, s, l>> \in Entries(m, g, x, {s}) <=> <<x, s, l>> \in D(g)
             /\ \A k \in Entries(m, g, x, {s}) :
                  \E l \in LogicalBlocks : k = <<x, s, l>>
  <2>1. ASSUME NEW k \in Entries(m, g, x, {s})
        PROVE  \E l \in LogicalBlocks : k = <<x, s, l>>
    <3>1. k \in Keys /\ k[1] = x /\ k[2] = s
      BY <1>1 DEF Entries
    <3>2. k = <<k[1], k[2], k[3]>> /\ k[3] \in LogicalBlocks
      BY <3>1, KeyForm
    <3> QED BY <3>1, <3>2
  <2>2. \A l \in LogicalBlocks :
          <<x, s, l>> \in Entries(m, g, x, {s}) <=> <<x, s, l>> \in D(g)
    BY DEF Entries
  <2> QED BY <2>1, <2>2
<1>5. ASSUME NEW x \in {"kept", "temp", "copy"}, NEW i \in Nat, NEW j \in Nat,
             \A l \in Nat : l < j => l \in LogicalBlocks
      PROVE  Entries(m, g, x, {s}) = KeysOf(x, {s}, i .. j - 1)
               <=> \A l \in LogicalBlocks : <<x, s, l>> \in D(g) <=> i <= l /\ l < j
  <2> DEFINE A == Entries(m, g, x, {s})
             B == KeysOf(x, {s}, i .. j - 1)
  <2>1. \A l \in LogicalBlocks : <<x, s, l>> \in B <=> i <= l /\ l < j
    <3>1. \A l : <<x, s, l>> \in B <=> l \in i .. j - 1
      <4> HIDE DEF D, lo, hi, A
      <4> QED BY Zenon DEF KeysOf
    <3>2. \A l \in LogicalBlocks : l \in i .. j - 1 <=> i <= l /\ l < j
      <4> HIDE DEF D, lo, hi, A, B
      <4> QED BY <1>3
    <3> HIDE DEF D, lo, hi, A, B
    <3> QED BY <3>1, <3>2
  <2>2. \A k \in B : \E l \in LogicalBlocks : k = <<x, s, l>>
    <3>1. \A k \in B : \E l \in i .. j - 1 : k = <<x, s, l>>
      BY DEF KeysOf
    <3>2. \A l \in i .. j - 1 : l \in LogicalBlocks
      BY <1>5
    <3> QED BY <3>1, <3>2
  <2>3. A = B <=> \A l \in LogicalBlocks : <<x, s, l>> \in A <=> <<x, s, l>> \in B
    <3>1. \A k \in A : \E l \in LogicalBlocks : k = <<x, s, l>>
      BY <1>4
    <3> HIDE DEF A, B
    <3> QED BY <2>2, <3>1
  <2>4. \A l \in LogicalBlocks : <<x, s, l>> \in A <=> <<x, s, l>> \in D(g)
    BY <1>4
  <2> HIDE DEF A, B, D
  <2>5. QED BY <2>1, <2>3, <2>4 DEF A, B
<1>7. Entries(m, g, "kept", {s}) = KeysOf("kept", {s}, lo(s) .. hi(s) - 1)
        <=> \A l \in LogicalBlocks : <<"kept", s, l>> \in D(g) <=> lo(s) <= l /\ l < hi(s)
  <2> HIDE DEF D, lo, hi
  <2> QED BY <1>2, <1>5
<1>8. \A x \in {"copy", "temp"} :
        Entries(m, g, x, {s}) = {}
          <=> \A l \in LogicalBlocks : <<x, s, l>> \notin D(g)
  <2> HIDE DEF D
  <2> QED BY <1>4
<1>10. Entries(m, g, "temp", {s}) = KeysOf("temp", {s}, 0 .. lo(s) - 1)
         <=> \A l \in LogicalBlocks : <<"temp", s, l>> \in D(g) <=> l < lo(s)
  <2>0. lo(s) <= hi(s)
    <3>1. lo(s) < hi(s) \/ lo(s) = 0
      BY DEF PrefixBelowTail
    <3> HIDE DEF lo, hi
    <3> QED BY <1>2, <3>1
  <2> HIDE DEF D, lo, hi
  <2>1. \A l \in Nat : l < lo(s) => l \in LogicalBlocks
    BY <1>2, <2>0
  <2>2. Entries(m, g, "temp", {s}) = KeysOf("temp", {s}, 0 .. lo(s) - 1)
          <=> \A l \in LogicalBlocks : <<"temp", s, l>> \in D(g) <=> 0 <= l /\ l < lo(s)
    BY <1>2, <1>5, <2>1
  <2>3. \A l \in LogicalBlocks : 0 <= l
    BY <1>3
  <2> QED BY <2>2, <2>3
<1> QED BY <1>7, <1>8, <1>10

\* What the allocation loop may hold when it stops.
LEMMA GrantsShape ==
    ASSUME NEW m, MapType(m), NEW K, NEW f \in Grants(m, K), NEW g \in Groups
    PROVE  /\ DOMAIN f[g] \subseteq K[g]
           /\ f[g] \in [DOMAIN f[g] -> m.cells[g].free]
           /\ (\A h \in Groups : Fits(m, K, h)) => DOMAIN f[g] = K[g]
<1>1. f[g] \in Grantable(m, K, g)
  BY DEF Grants
<1>2. CASE \E h \in 0 .. g - 1 : ~Fits(m, K, h)
  <2>1. f[g] = [k \in {} |-> k]
    BY <1>1, <1>2 DEF Grantable
  <2>2. \E h \in Groups : ~Fits(m, K, h)
    BY <1>2, SizesAssumption DEF Groups
  <2>3. DOMAIN f[g] = {}
    BY <2>1
  <2>4. f[g] \in [{} -> m.cells[g].free]
    BY <2>1
  <2> QED BY <2>2, <2>3, <2>4
<1>3. CASE ~(\E h \in 0 .. g - 1 : ~Fits(m, K, h)) /\ Fits(m, K, g)
  <2>1. f[g] \in Injection(K[g], m.cells[g].free)
    BY <1>1, <1>3 DEF Grantable
  <2> QED BY <2>1 DEF Injection
<1>4. CASE ~(\E h \in 0 .. g - 1 : ~Fits(m, K, h)) /\ ~Fits(m, K, g)
  <2>1. PICK T \in SUBSET K[g] : f[g] \in Injection(T, m.cells[g].free)
    BY <1>1, <1>4 DEF Grantable
  <2> QED BY <2>1, <1>4 DEF Injection
<1> QED BY <1>2, <1>3, <1>4

\* A pool of a map in order is in order.
LEMMA MapCells ==
    ASSUME NEW m, MapType(m), MapRefsExact(m), NEW g \in Groups
    PROVE  CellOK(m.cells[g])
  BY DEF MapType, MapRefsExact, CellOK

\* Keys that are free in every group.
Fresh(m, K) == \A g \in Groups : K[g] \in SUBSET Keys
                                 /\ K[g] \cap DOMAIN m.cells[g].table = {}

\* Free blocks that are granted leave the counts exact.
LEMMA TakenOK ==
    ASSUME NEW m, MapType(m), MapRefsExact(m),
           NEW K, Fresh(m, K), NEW f \in Grants(m, K)
    PROVE  /\ MapType(Taken(m, f)) /\ MapRefsExact(Taken(m, f))
           /\ Taken(m, f).length = m.length /\ Taken(m, f).evicted = m.evicted
           /\ \A g \in Groups :
                DOMAIN Taken(m, f).cells[g].table
                  = DOMAIN m.cells[g].table \cup DOMAIN f[g]
<1> DEFINE t == Taken(m, f)
<1>1. /\ t.cells = [g \in Groups |-> Added(m.cells[g], f[g])]
      /\ t.length = m.length /\ t.evicted = m.evicted
      /\ t = [cells |-> t.cells, length |-> t.length, evicted |-> t.evicted]
  BY DEF Taken, MapType
<1>2. ASSUME NEW g \in Groups
      PROVE  /\ CellOK(Added(m.cells[g], f[g]))
             /\ DOMAIN Added(m.cells[g], f[g]).table
                  = DOMAIN m.cells[g].table \cup DOMAIN f[g]
  <2>1. CellOK(m.cells[g])
    BY MapCells
  <2>2. /\ DOMAIN f[g] \in SUBSET Keys
        /\ f[g] \in [DOMAIN f[g] -> m.cells[g].free]
        /\ DOMAIN f[g] \cap DOMAIN m.cells[g].table = {}
    BY GrantsShape DEF Fresh
  <2>3. f[g] \in [DOMAIN f[g] -> Blocks]
    BY <2>1, <2>2 DEF CellOK, CellType
  <2> QED BY <2>1, <2>2, <2>3, AddedOK
<1> HIDE DEF t
<1>3. \A g \in Groups : t.cells[g] = Added(m.cells[g], f[g])
  BY <1>1
<1>4. MapType(t)
  BY <1>1, <1>2, <1>3 DEF MapType, CellOK
<1>5. MapRefsExact(t)
  BY <1>2, <1>3 DEF MapRefsExact, CellOK
<1> QED BY <1>1, <1>2, <1>3, <1>4, <1>5 DEF t

\* The except clauses undo exactly what the loop did.
LEMMA RolledBackOK ==
    ASSUME NEW m, MapType(m), MapRefsExact(m),
           NEW K, Fresh(m, K), NEW f \in Grants(m, K)
    PROVE  RolledBack(m, f) = m
<1> DEFINE r == RolledBack(m, f)
<1>1. r = [m EXCEPT !.cells =
             [g \in Groups |-> Dropped(Taken(m, f).cells[g], DOMAIN f[g])]]
  BY DEF RolledBack
<1>2. ASSUME NEW g \in Groups
      PROVE  Dropped(Taken(m, f).cells[g], DOMAIN f[g]) = m.cells[g]
  <2>1. Taken(m, f).cells[g] = Added(m.cells[g], f[g])
    BY DEF Taken, MapType
  <2>2. CellOK(m.cells[g])
    BY MapCells
  <2>3. /\ DOMAIN f[g] \in SUBSET Keys
        /\ f[g] \in [DOMAIN f[g] -> m.cells[g].free]
        /\ DOMAIN f[g] \cap DOMAIN m.cells[g].table = {}
    BY GrantsShape DEF Fresh
  <2> QED BY <2>1, <2>2, <2>3, RollbackOK
<1>3. r.cells = m.cells
  BY <1>1, <1>2 DEF MapType
<1> QED BY <1>1, <1>3 DEF MapType

-----------------------------------------------------------------------------
(* Every method returns a map that is in order, and the one it was given   *)
(* when it raises.                                                         *)

Errors == {"none", "ValueError", "RuntimeError"}

Safe(m, o) == /\ MapOK(o.map)
              /\ o.raised \in Errors
              /\ o.raised # "none" => o.map = m

\* A call that raises at once changes nothing.
LEMMA RaisedSafe ==
    ASSUME NEW m, MapOK(m), NEW e \in Errors
    PROVE  Safe(m, Raised(m, e))
  BY DEF Safe, Raised

\* Keys of one sequence, in one group, against its length and prefix.
KeysInRange(D, s, n, e) ==
    /\ \A l \in LogicalBlocks :
         /\ <<"kept", s, l>> \in D <=> e <= l /\ l < NumLogicalBlocks(n)
         /\ <<"copy", s, l>> \notin D
    /\ \/ \A l \in LogicalBlocks : <<"temp", s, l>> \notin D
       \/ \A l \in LogicalBlocks : <<"temp", s, l>> \in D <=> l < e

\* Changing one sequence: its own keys are in range, the others' are untouched.
LEMMA WithOK ==
    ASSUME NEW m, MapOK(m), NEW s \in Seqs,
           NEW n \in 0 .. MaxTokens, NEW e \in Nat, PrefixBelowTail(n, e),
           NEW cells, cells = [g \in Groups |-> cells[g]],
           \A g \in Groups : CellOK(cells[g]),
           \A g \in Groups : KeysInRange(DOMAIN cells[g].table, s, n, e),
           \A g \in Groups : \A k \in Keys : k[2] # s =>
             (k \in DOMAIN cells[g].table <=> k \in DOMAIN m.cells[g].table)
    PROVE  MapOK(With(m, cells, s, n, e))
<1> DEFINE x == With(m, cells, s, n, e)
<1>1. /\ x.cells = cells
      /\ x.length = [m.length EXCEPT ![s] = n]
      /\ x.evicted = [m.evicted EXCEPT ![s] = e]
      /\ x = [cells |-> x.cells, length |-> x.length, evicted |-> x.evicted]
  BY DEF With
<1> HIDE DEF x
<1>2. m.length \in [Seqs -> 0 .. MaxTokens] /\ m.evicted \in [Seqs -> Nat]
  BY DEF MapOK, MapType
<1>3. MapType(x)
  <2>1. x.length \in [Seqs -> 0 .. MaxTokens] /\ x.evicted \in [Seqs -> Nat]
    BY <1>1, <1>2
  <2> QED BY <1>1, <2>1 DEF MapType, CellOK
<1>4. MapRefsExact(x)
  BY <1>1 DEF MapRefsExact, CellOK
<1>5. MapRanges(m)
  BY WindowRanges DEF MapOK
<1>6. ASSUME NEW u \in Seqs, NEW g \in Groups
      PROVE  /\ PrefixBelowTail(x.length[u], x.evicted[u])
             /\ KeysInRange(DOMAIN x.cells[g].table, u, x.length[u], x.evicted[u])
  <2>1. CASE u = s
    <3>1. x.length[u] = n /\ x.evicted[u] = e
      BY <1>1, <1>2, <2>1
    <3> QED BY <1>1, <2>1, <3>1
  <2>2. CASE u # s
    <3>1. x.length[u] = m.length[u] /\ x.evicted[u] = m.evicted[u]
      BY <1>1, <1>2, <2>2
    <3>2. \A i \in {"kept", "temp", "copy"}, l \in LogicalBlocks :
            <<i, u, l>> \in DOMAIN x.cells[g].table
              <=> <<i, u, l>> \in DOMAIN m.cells[g].table
      BY <1>1, <2>2, KeyForm
    <3>3. KeysInRange(DOMAIN m.cells[g].table, u, m.length[u], m.evicted[u])
      BY <1>5 DEF MapRanges, KeysInRange
    <3>4. KeysInRange(DOMAIN x.cells[g].table, u, m.length[u], m.evicted[u])
      BY <3>2, <3>3 DEF KeysInRange
    <3> QED BY <1>5, <3>1, <3>4 DEF MapRanges
  <2> QED BY <2>1, <2>2
<1>7. MapRanges(x)
  <2>1. 0 \in Groups
    BY SizesAssumption DEF Groups
  <2> QED BY <1>6, <2>1 DEF MapRanges, KeysInRange
<1> QED BY <1>3, <1>4, <1>7, WindowRanges DEF MapOK, x

\* A sequence grows by fresh kept entries.
LEMMA GrownOK ==
    ASSUME NEW m, MapOK(m), NEW s \in Seqs, NEW K, Fresh(m, K),
           NEW f \in Grants(m, K), \A g \in Groups : Fits(m, K, g),
           NEW n \in 1 .. MaxTokens, NEW e \in Nat, e < NumLogicalBlocks(n),
           m.evicted[s] = e \/ \A g \in Groups : \A l \in LogicalBlocks :
                                  <<"temp", s, l>> \notin DOMAIN m.cells[g].table,
           \A g \in Groups : \A k \in K[g] : k[1] = "kept" /\ k[2] = s,
           \A g \in Groups : \A l \in LogicalBlocks :
             (<<"kept", s, l>> \in DOMAIN m.cells[g].table \/ <<"kept", s, l>> \in K[g])
               <=> e <= l /\ l < NumLogicalBlocks(n)
    PROVE  MapOK(With(m, Taken(m, f).cells, s, n, e))
<1> DEFINE t == Taken(m, f)
           D(g) == DOMAIN m.cells[g].table
<1>1. /\ MapType(t) /\ MapRefsExact(t)
      /\ \A g \in Groups : DOMAIN t.cells[g].table = D(g) \cup DOMAIN f[g]
  BY TakenOK DEF MapOK
<1>2. \A g \in Groups : DOMAIN t.cells[g].table = D(g) \cup K[g]
  BY <1>1, GrantsShape DEF MapOK
<1> HIDE DEF t
<1>3. t.cells = [g \in Groups |-> t.cells[g]] /\ \A g \in Groups : CellOK(t.cells[g])
  BY <1>1, MapCells DEF MapType
<1>4. MapRanges(m)
  BY WindowRanges DEF MapOK
<1>5. ASSUME NEW g \in Groups
      PROVE  KeysInRange(DOMAIN t.cells[g].table, s, n, e)
  <2>1. \A l \in LogicalBlocks : <<"copy", s, l>> \notin K[g] /\ <<"temp", s, l>> \notin K[g]
    OBVIOUS
  <2> QED BY <1>2, <1>4, <2>1 DEF MapRanges, KeysInRange
<1>6. \A g \in Groups : \A k \in Keys : k[2] # s =>
        (k \in DOMAIN t.cells[g].table <=> k \in DOMAIN m.cells[g].table)
  BY <1>2
<1>7. n \in 0 .. MaxTokens /\ PrefixBelowTail(n, e)
  BY SizesAssumption DEF PrefixBelowTail
<1> QED BY <1>3, <1>5, <1>6, <1>7, WithOK DEF t

\* allocate_sequence_with_evicted_prefix keeps the map in order, and undoes what it did when it raises.
LEMMA AllocateSafe ==
    ASSUME NEW m, MapOK(m), NEW s \in Seqs,
           NEW n \in 1 .. MaxTokens, NEW e \in Nat, e < NumLogicalBlocks(n),
           NEW o \in AllocateOutcomes(m, s, n, e)
    PROVE  Safe(m, o)
<1> DEFINE K == [g \in Groups |-> KeysOf("kept", {s}, e .. NumLogicalBlocks(n) - 1)]
<1>1. CASE s \in Present(m)
  BY <1>1, RaisedSafe DEF AllocateOutcomes, Errors
<1>2. CASE s \notin Present(m)
  <2>1. MapRanges(m)
    BY WindowRanges DEF MapOK
  <2>2. /\ m.length \in [Seqs -> 0 .. MaxTokens] /\ m.evicted \in [Seqs -> Nat]
        /\ LogicalBlocks \subseteq Nat
    BY DEF MapOK, MapType, LogicalBlocks
  <2>3. m.length[s] = 0 /\ m.evicted[s] = 0 /\ NumLogicalBlocks(m.length[s]) = 0
    <3>1. m.length[s] = 0
      BY <1>2, <2>2, SizesAssumption DEF Present
    <3>2. NumLogicalBlocks(0) = 0
      BY BlocksStep
    <3>3. PrefixBelowTail(0, m.evicted[s])
      BY <2>1, <3>1 DEF MapRanges
    <3> QED BY <2>2, <3>1, <3>2, <3>3 DEF PrefixBelowTail
  <2>4. \A g \in Groups : \A l \in LogicalBlocks :
          /\ <<"kept", s, l>> \notin DOMAIN m.cells[g].table
          /\ <<"temp", s, l>> \notin DOMAIN m.cells[g].table
    <3> SUFFICES ASSUME NEW g \in Groups, NEW l \in LogicalBlocks
                 PROVE  /\ <<"kept", s, l>> \notin DOMAIN m.cells[g].table
                        /\ <<"temp", s, l>> \notin DOMAIN m.cells[g].table
      OBVIOUS
    <3>1. ~(l < 0)
      BY <2>2
    <3> QED BY <2>1, <2>3, <3>1 DEF MapRanges
  <2>5. n \in 0 .. MaxTokens /\ n \in Nat /\ NumLogicalBlocks(n) \in Nat
        /\ \A l \in Nat : l < NumLogicalBlocks(n) => l \in LogicalBlocks
    BY LengthBlocks, SizesAssumption
  <2>6. ASSUME NEW g \in Groups, NEW k \in K[g]
        PROVE  /\ k[1] = "kept" /\ k[2] = s /\ k[3] \in LogicalBlocks
               /\ k \in Keys /\ k = <<"kept", s, k[3]>>
    BY <2>5 DEF KeysOf, Keys
  <2>7. Fresh(m, K)
    <3> HIDE DEF K
    <3> QED BY <2>4, <2>6 DEF Fresh
  <2>8. \A g \in Groups : \A l \in LogicalBlocks :
          <<"kept", s, l>> \in K[g] <=> e <= l /\ l < NumLogicalBlocks(n)
    BY <2>2, <2>5 DEF KeysOf
  <2> HIDE DEF K
  <2>9. PICK f \in Grants(m, K) :
          o = IF \A g \in Groups : Fits(m, K, g)
              THEN Done(With(m, Taken(m, f).cells, s, n, e))
              ELSE Raised(RolledBack(m, f), "RuntimeError")
    BY <1>2 DEF AllocateOutcomes, K
  <2>10. CASE \A g \in Groups : Fits(m, K, g)
    <3>3. \A g \in Groups : \A k \in K[g] : k[1] = "kept" /\ k[2] = s
      BY <2>6
    <3>4. \A g \in Groups : \A l \in LogicalBlocks :
            (<<"kept", s, l>> \in DOMAIN m.cells[g].table \/ <<"kept", s, l>> \in K[g])
              <=> e <= l /\ l < NumLogicalBlocks(n)
      BY <2>4, <2>8
    <3>5. \A g \in Groups : \A l \in LogicalBlocks :
            <<"temp", s, l>> \notin DOMAIN m.cells[g].table
      BY <2>4
    <3>6. MapOK(With(m, Taken(m, f).cells, s, n, e))
      BY <2>7, <2>10, <3>3, <3>4, <3>5, GrownOK
    <3> QED BY <2>9, <2>10, <3>6 DEF Safe, Done, Errors
  <2>11. CASE ~(\A g \in Groups : Fits(m, K, g))
    <3>1. RolledBack(m, f) = m
      BY <2>7, RolledBackOK DEF MapOK
    <3> QED BY <2>9, <2>11, <3>1, RaisedSafe DEF Errors
  <2> QED BY <2>10, <2>11
<1> QED BY <1>1, <1>2

\* One more block in every group, at the key after the newest.
LEMMA NewBlockSafe ==
    ASSUME NEW m, MapOK(m), NEW s \in Present(m), m.length[s] < MaxTokens,
           NumLogicalBlocks(m.length[s] + 1) > NumLogicalBlocks(m.length[s]),
           NEW o \in NewBlockOutcomes(m, s)
    PROVE  Safe(m, o)
<1> DEFINE n == m.length[s]
           e == m.evicted[s]
           key == <<"kept", s, NumLogicalBlocks(n)>>
           K == [g \in Groups |-> {key}]
<1>1. /\ s \in Seqs /\ n \in Nat /\ n + 1 \in 1 .. MaxTokens /\ e \in Nat
      /\ LogicalBlocks \subseteq Nat
  BY SizesAssumption DEF Present, MapOK, MapType, LogicalBlocks
<1>2. /\ NumLogicalBlocks(n) \in Nat
      /\ NumLogicalBlocks(n + 1) = NumLogicalBlocks(n) + 1
      /\ NumLogicalBlocks(n) \in LogicalBlocks
  <2>1. NumLogicalBlocks(n) \in Nat
        /\ NumLogicalBlocks(n + 1) \in {NumLogicalBlocks(n), NumLogicalBlocks(n) + 1}
    BY <1>1, BlocksStep
  <2>2. NumLogicalBlocks(n + 1) = NumLogicalBlocks(n) + 1
    BY <2>1
  <2>3. n + 1 \in 0 .. MaxTokens
    BY <1>1
  <2> QED BY <2>1, <2>2, <2>3, LengthBlocks
<1>3. MapRanges(m)
  BY WindowRanges DEF MapOK
<1>4. e < NumLogicalBlocks(n)
  <2>1. n > 0
    BY <1>1 DEF Present
  <2>2. PrefixBelowTail(n, e)
    BY <1>1, <1>3 DEF MapRanges
  <2> HIDE DEF n, e
  <2> QED BY <2>1, <2>2 DEF PrefixBelowTail
<1>5. key \in Keys /\ \A g \in Groups : key \notin DOMAIN m.cells[g].table
  <2>1. \A g \in Groups : key \in DOMAIN m.cells[g].table
                             => NumLogicalBlocks(n) < NumLogicalBlocks(n)
    BY <1>1, <1>2, <1>3 DEF MapRanges
  <2>2. ~(NumLogicalBlocks(n) < NumLogicalBlocks(n))
    BY <1>2
  <2> QED BY <1>1, <1>2, <2>1, <2>2, KeyForm
<1>6. Fresh(m, K)
  BY <1>5 DEF Fresh
<1>7. \A g \in Groups : \A l \in LogicalBlocks :
        (<<"kept", s, l>> \in DOMAIN m.cells[g].table \/ <<"kept", s, l>> \in K[g])
          <=> e <= l /\ l < NumLogicalBlocks(n + 1)
  <2> SUFFICES ASSUME NEW g \in Groups, NEW l \in LogicalBlocks
               PROVE  (<<"kept", s, l>> \in DOMAIN m.cells[g].table \/ l = NumLogicalBlocks(n))
                        <=> e <= l /\ l < NumLogicalBlocks(n + 1)
    OBVIOUS
  <2>1. <<"kept", s, l>> \in DOMAIN m.cells[g].table <=> e <= l /\ l < NumLogicalBlocks(n)
    BY <1>1, <1>3 DEF MapRanges
  <2> HIDE DEF n, e
  <2> QED BY <2>1, <1>1, <1>2, <1>4
<1>8. \A g \in Groups : \A k \in K[g] : k[1] = "kept" /\ k[2] = s
  OBVIOUS
<1>9. PICK f \in Grants(m, K) :
        o = IF \A g \in Groups : Fits(m, K, g)
            THEN Done(With(m, Taken(m, f).cells, s, n + 1, e))
            ELSE Raised(RolledBack(m, f), "RuntimeError")
  BY DEF NewBlockOutcomes
<1>10. CASE \A g \in Groups : Fits(m, K, g)
  <2>1. e < NumLogicalBlocks(n + 1)
    <3> HIDE DEF n, e
    <3> QED BY <1>1, <1>2, <1>4
  <2>2. MapOK(With(m, Taken(m, f).cells, s, n + 1, e))
    <3>1. m.evicted[s] = e
      OBVIOUS
    <3> HIDE DEF n, e, K
    <3> QED BY <1>1, <1>6, <1>7, <1>8, <1>10, <2>1, <3>1, GrownOK
  <2> QED BY <1>9, <1>10, <2>2 DEF Safe, Done, Errors
<1>11. CASE ~(\A g \in Groups : Fits(m, K, g))
  <2>1. RolledBack(m, f) = m
    BY <1>6, RolledBackOK DEF MapOK
  <2> QED BY <1>9, <1>11, <2>1, RaisedSafe DEF Errors
<1> QED BY <1>10, <1>11

\* Facts about a sequence of a map that is in order.
LEMMA SequenceFacts ==
    ASSUME NEW m, MapOK(m), NEW s \in Seqs
    PROVE  /\ m.length[s] \in 0 .. MaxTokens /\ m.evicted[s] \in Nat
           /\ NumLogicalBlocks(m.length[s]) \in Nat
           /\ \A l \in Nat : l < NumLogicalBlocks(m.length[s]) => l \in LogicalBlocks
           /\ \A g \in Groups :
                KeysInRange(DOMAIN m.cells[g].table, s, m.length[s], m.evicted[s])
           /\ m.length[s] > 0 => m.evicted[s] < NumLogicalBlocks(m.length[s])
           /\ m.length[s] = 0 => m.evicted[s] = 0 /\ NumLogicalBlocks(m.length[s]) = 0
<1>1. m.length[s] \in 0 .. MaxTokens /\ m.evicted[s] \in Nat
  BY DEF MapOK, MapType
<1>2. /\ NumLogicalBlocks(m.length[s]) \in Nat
      /\ \A l \in Nat : l < NumLogicalBlocks(m.length[s]) => l \in LogicalBlocks
  BY <1>1, LengthBlocks
<1>3. NumLogicalBlocks(0) = 0
  BY BlocksStep
<1>4. MapRanges(m)
  BY WindowRanges DEF MapOK
<1>5. PrefixBelowTail(m.length[s], m.evicted[s])
  BY <1>4 DEF MapRanges
<1>6. \A g \in Groups :
        KeysInRange(DOMAIN m.cells[g].table, s, m.length[s], m.evicted[s])
  BY <1>4 DEF MapRanges, KeysInRange
<1>7. m.length[s] > 0 => m.evicted[s] < NumLogicalBlocks(m.length[s])
  BY <1>1, <1>5 DEF PrefixBelowTail
<1>8. m.length[s] = 0 => m.evicted[s] = 0 /\ NumLogicalBlocks(m.length[s]) = 0
  BY <1>1, <1>3, <1>5 DEF PrefixBelowTail
<1> QED BY <1>1, <1>2, <1>6, <1>7, <1>8

\* A sequence that is present has a last block in every group.
LEMMA TailFacts ==
    ASSUME NEW m, MapOK(m), NEW s \in Present(m)
    PROVE  /\ TailKey(m, s) \in Keys
           /\ TailKey(m, s)[2] = s
           /\ TailKey(m, s)[3] = NumLogicalBlocks(m.length[s]) - 1
           /\ TailKey(m, s)[3] \in LogicalBlocks
           /\ \A g \in Groups : TailKey(m, s) \in DOMAIN m.cells[g].table
<1> DEFINE N == NumLogicalBlocks(m.length[s])
<1>1. s \in Seqs /\ m.length[s] > 0
  BY DEF Present, MapOK, MapType
<1>2. /\ N \in Nat /\ m.evicted[s] \in Nat /\ m.evicted[s] < N
      /\ \A l \in Nat : l < N => l \in LogicalBlocks
  BY <1>1, SequenceFacts
<1>3. N - 1 \in LogicalBlocks /\ m.evicted[s] <= N - 1 /\ N - 1 < N
  <2> HIDE DEF N
  <2>1. N - 1 \in Nat /\ N - 1 < N /\ m.evicted[s] <= N - 1
    BY <1>2
  <2> QED BY <1>2, <2>1
<1>4. \A g \in Groups : <<"kept", s, N - 1>> \in DOMAIN m.cells[g].table
  <2>1. \A g \in Groups :
          KeysInRange(DOMAIN m.cells[g].table, s, m.length[s], m.evicted[s])
    BY <1>1, SequenceFacts
  <2> QED BY <1>3, <2>1 DEF KeysInRange
<1> QED BY <1>1, <1>3, <1>4, KeyForm DEF TailKey

\* Within the tail block: shared tails are switched to private copies.
LEMMA CopyOnWriteSafe ==
    ASSUME NEW m, MapOK(m), NEW s \in Present(m), m.length[s] < MaxTokens,
           NumLogicalBlocks(m.length[s] + 1) = NumLogicalBlocks(m.length[s]),
           NEW o \in CopyOnWriteOutcomes(m, s)
    PROVE  Safe(m, o)
<1> DEFINE n == m.length[s]
           e == m.evicted[s]
           tail == TailKey(m, s)
           copy == <<"copy", s, tail[3]>>
           K == [g \in Groups |-> IF TailRefs(m, s, g) > 1 THEN {copy} ELSE {}]
           Switched(c, f) == Added(Dropped(c, {tail}), [k \in {tail} |-> f[copy]])
           cells(f) == [g \in Groups |-> IF K[g] = {} THEN m.cells[g]
                                                     ELSE Switched(m.cells[g], f[g])]
<1>1. /\ s \in Seqs /\ n + 1 \in 0 .. MaxTokens /\ e \in Nat
      /\ PrefixBelowTail(n + 1, e)
  <2>1. s \in Seqs /\ n > 0
    BY DEF Present, MapOK, MapType
  <2> QED BY <2>1, SequenceFacts, SizesAssumption DEF PrefixBelowTail
<1>2. /\ tail \in Keys /\ tail[2] = s /\ tail[3] \in LogicalBlocks
      /\ \A g \in Groups : tail \in DOMAIN m.cells[g].table
  BY TailFacts
<1> HIDE DEF tail
<1>3. copy \in Keys /\ \A g \in Groups : copy \notin DOMAIN m.cells[g].table
  <2>1. \A g \in Groups :
          KeysInRange(DOMAIN m.cells[g].table, s, m.length[s], m.evicted[s])
    BY <1>1, SequenceFacts
  <2>2. copy \in Keys
    BY <1>1, <1>2, KeyForm
  <2> QED BY <1>2, <2>1, <2>2 DEF KeysInRange
<1> HIDE DEF copy
<1>4. Fresh(m, K)
  BY <1>3 DEF Fresh
<1>5. PICK f \in Grants(m, K) :
        o = IF \A g \in Groups : Fits(m, K, g)
            THEN Done(With(m, cells(f), s, n + 1, e))
            ELSE Raised(RolledBack(m, f), "RuntimeError")
  BY DEF CopyOnWriteOutcomes, tail, copy
<1>6. CASE \A g \in Groups : Fits(m, K, g)
  <2>1. ASSUME NEW g \in Groups
        PROVE  /\ CellOK(cells(f)[g])
               /\ DOMAIN cells(f)[g].table = DOMAIN m.cells[g].table
    <3>1. CellOK(m.cells[g])
      BY MapCells DEF MapOK
    <3>2. CASE K[g] = {}
      BY <3>1, <3>2
    <3>3. CASE K[g] # {}
      <4> DEFINE d == Dropped(m.cells[g], {tail})
                 h == [k \in {tail} |-> f[g][copy]]
      <4>1. CellOK(d) /\ DOMAIN d.table = DOMAIN m.cells[g].table \ {tail}
        BY <1>2, <3>1, DroppedOK
      <4>2. K[g] = {copy}
        BY <3>3
      <4>3. DOMAIN f[g] = {copy} /\ f[g] \in [DOMAIN f[g] -> m.cells[g].free]
        BY <1>6, <4>2, GrantsShape DEF MapOK
      <4>4. f[g][copy] \in Blocks
        BY <3>1, <4>3 DEF CellOK, CellType
      <4>5. h \in [{tail} -> Blocks]
        BY <4>4
      <4>6. cells(f)[g] = Added(d, h)
        BY <3>3
      <4> HIDE DEF d, h
      <4>7. /\ CellOK(Added(d, h))
            /\ DOMAIN Added(d, h).table = DOMAIN d.table \cup {tail}
        <5>1. {tail} \in SUBSET Keys /\ {tail} \cap DOMAIN d.table = {}
          BY <1>2, <4>1
        <5> QED BY <4>1, <4>5, <5>1, AddedOK
      <4> QED BY <1>2, <4>1, <4>6, <4>7
    <3> QED BY <3>2, <3>3
  <2>2. cells(f) = [g \in Groups |-> cells(f)[g]]
    OBVIOUS
  <2> HIDE DEF cells, K
  <2>3. \A g \in Groups : KeysInRange(DOMAIN cells(f)[g].table, s, n + 1, e)
    BY <1>1, <2>1, SequenceFacts DEF KeysInRange
  <2>4. MapOK(With(m, cells(f), s, n + 1, e))
    BY <1>1, <2>1, <2>2, <2>3, WithOK
  <2> QED BY <1>5, <1>6, <2>4 DEF Safe, Done, Errors
<1>7. CASE ~(\A g \in Groups : Fits(m, K, g))
  <2>1. RolledBack(m, f) = m
    BY <1>4, RolledBackOK DEF MapOK
  <2> QED BY <1>5, <1>7, <2>1, RaisedSafe DEF Errors
<1> QED BY <1>6, <1>7

\* append_token keeps the map in order, and undoes what it did when it raises.
LEMMA AppendSafe ==
    ASSUME NEW m, MapOK(m), NEW s \in Present(m), m.length[s] < MaxTokens,
           NEW o \in AppendOutcomes(m, s)
    PROVE  Safe(m, o)
<1>1. m.length[s] \in Nat
  BY DEF Present, MapOK, MapType
<1>2. /\ NumLogicalBlocks(m.length[s]) \in Nat
      /\ NumLogicalBlocks(m.length[s] + 1)
           \in {NumLogicalBlocks(m.length[s]), NumLogicalBlocks(m.length[s]) + 1}
  BY <1>1, BlocksStep
<1>3. CASE NumLogicalBlocks(m.length[s] + 1) > NumLogicalBlocks(m.length[s])
  BY <1>3, NewBlockSafe DEF AppendOutcomes
<1>4. CASE ~(NumLogicalBlocks(m.length[s] + 1) > NumLogicalBlocks(m.length[s]))
  BY <1>2, <1>4, CopyOnWriteSafe DEF AppendOutcomes
<1> QED BY <1>3, <1>4

\* The child's entries share every kept block of the parent.
LEMMA ForkSafe ==
    ASSUME NEW m, MapOK(m), NEW p \in Present(m), NEW s \in Seqs,
           NEW o \in ForkOutcomes(m, p, s)
    PROVE  Safe(m, o)
<1> DEFINE ParentKey(k) == <<"kept", p, k[3]>>
           ChildKeys(g) == {<<"kept", s, k[3]>> : k \in Entries(m, g, "kept", {p})}
           Shared(g) == [k \in ChildKeys(g) |-> m.cells[g].table[ParentKey(k)]]
           cells == [g \in Groups |-> Added(m.cells[g], Shared(g))]
           n == m.length[p]
           e == m.evicted[p]
<1>1. CASE s \in Present(m)
  BY <1>1, RaisedSafe DEF ForkOutcomes, Errors
<1>2. CASE s \notin Present(m) /\ Recomputing(m, {p})
  BY <1>2, RaisedSafe DEF ForkOutcomes, Errors
<1>3. CASE s \notin Present(m) /\ ~Recomputing(m, {p})
  <2>1. o = Done(With(m, cells, s, n, e))
    BY <1>3 DEF ForkOutcomes
  <2>2. /\ p \in Seqs /\ n > 0 /\ n \in 0 .. MaxTokens /\ e \in Nat
        /\ PrefixBelowTail(n, e)
    <3>1. p \in Seqs /\ n > 0
      BY DEF Present, MapOK, MapType
    <3> QED BY <3>1, SequenceFacts DEF PrefixBelowTail
  <2>3. /\ m.length[s] = 0 /\ m.evicted[s] = 0 /\ NumLogicalBlocks(m.length[s]) = 0
        /\ LogicalBlocks \subseteq Nat
    <3>1. m.length[s] = 0
      BY <1>3, SequenceFacts DEF Present
    <3> QED BY <3>1, SequenceFacts DEF LogicalBlocks
  <2>4. ASSUME NEW g \in Groups, NEW l \in LogicalBlocks
        PROVE  /\ <<"kept", s, l>> \notin DOMAIN m.cells[g].table
               /\ <<"temp", s, l>> \notin DOMAIN m.cells[g].table
               /\ <<"copy", s, l>> \notin DOMAIN m.cells[g].table
    <3>1. ~(l < 0)
      BY <2>3
    <3>2. KeysInRange(DOMAIN m.cells[g].table, s, m.length[s], m.evicted[s])
      BY SequenceFacts
    <3> QED BY <2>3, <3>1, <3>2 DEF KeysInRange
  <2>5. ASSUME NEW g \in Groups
        PROVE  /\ ChildKeys(g) \in SUBSET Keys
               /\ \A k \in ChildKeys(g) : k[1] = "kept" /\ k[2] = s /\ k[3] \in LogicalBlocks
                                          /\ k = <<"kept", s, k[3]>>
               /\ \A k \in ChildKeys(g) : ParentKey(k) \in DOMAIN m.cells[g].table
               /\ \A l \in LogicalBlocks :
                    <<"kept", s, l>> \in ChildKeys(g)
                      <=> <<"kept", p, l>> \in DOMAIN m.cells[g].table
    <3> DEFINE E == Entries(m, g, "kept", {p})
    <3>1. \A k \in E : /\ k \in Keys /\ k[3] \in LogicalBlocks
                       /\ k = <<"kept", p, k[3]>>
                       /\ k \in DOMAIN m.cells[g].table
      <4>1. DOMAIN m.cells[g].table \subseteq Keys
        BY DEF MapOK, MapType, CellType
      <4> QED BY <4>1, KeyForm DEF Entries
    <3>2. \A l \in LogicalBlocks :
            <<"kept", p, l>> \in DOMAIN m.cells[g].table => <<"kept", p, l>> \in E
      BY DEF Entries
    <3>3. \A k \in ChildKeys(g) : \E j \in E : k = <<"kept", s, j[3]>>
      OBVIOUS
    <3>4. \A j \in E : <<"kept", s, j[3]>> \in ChildKeys(g)
      OBVIOUS
    <3> HIDE DEF E, ChildKeys
    <3>5. \A k \in ChildKeys(g) : /\ k[1] = "kept" /\ k[2] = s /\ k[3] \in LogicalBlocks
                                  /\ k = <<"kept", s, k[3]>>
                                  /\ k \in Keys
                                  /\ ParentKey(k) \in DOMAIN m.cells[g].table
      <4> TAKE k \in ChildKeys(g)
      <4>1. PICK j \in E : k = <<"kept", s, j[3]>>
        BY <3>3
      <4> QED BY <3>1, <4>1, KeyForm
    <3>6. \A l \in LogicalBlocks :
            <<"kept", p, l>> \in DOMAIN m.cells[g].table => <<"kept", s, l>> \in ChildKeys(g)
      <4> TAKE l \in LogicalBlocks
      <4>1. HAVE <<"kept", p, l>> \in DOMAIN m.cells[g].table
      <4>2. <<"kept", p, l>> \in E
        BY <3>2, <4>1
      <4>3. <<"kept", s, <<"kept", p, l>>[3]>> \in ChildKeys(g)
        BY <3>4, <4>2
      <4> QED BY <4>3
    <3>7. \A l \in LogicalBlocks :
            <<"kept", s, l>> \in ChildKeys(g) => <<"kept", p, l>> \in DOMAIN m.cells[g].table
      <4> TAKE l \in LogicalBlocks
      <4>1. HAVE <<"kept", s, l>> \in ChildKeys(g)
      <4>2. ParentKey(<<"kept", s, l>>) \in DOMAIN m.cells[g].table
        BY <3>5, <4>1
      <4> QED BY <4>2
    <3> QED BY <3>5, <3>6, <3>7
  <2>6. ASSUME NEW g \in Groups
        PROVE  /\ CellOK(cells[g])
               /\ DOMAIN cells[g].table = DOMAIN m.cells[g].table \cup ChildKeys(g)
    <3>1. CellOK(m.cells[g])
      BY MapCells DEF MapOK
    <3>2. Shared(g) \in [ChildKeys(g) -> Blocks]
      <4>1. m.cells[g].table \in [DOMAIN m.cells[g].table -> Blocks]
        BY <3>1 DEF CellOK, CellType
      <4> HIDE DEF ChildKeys
      <4> QED BY <2>5, <4>1
    <3>3. ChildKeys(g) \cap DOMAIN m.cells[g].table = {}
      <4> SUFFICES ASSUME NEW k \in ChildKeys(g)
                   PROVE  k \notin DOMAIN m.cells[g].table
        OBVIOUS
      <4>1. k = <<"kept", s, k[3]>> /\ k[3] \in LogicalBlocks
        BY <2>5
      <4>2. <<"kept", s, k[3]>> \notin DOMAIN m.cells[g].table
        BY <2>4, <4>1
      <4> QED BY <4>1, <4>2
    <3>4. cells[g] = Added(m.cells[g], Shared(g))
      OBVIOUS
    <3>5. ChildKeys(g) \in SUBSET Keys
      BY <2>5
    <3> HIDE DEF cells, Shared, ChildKeys
    <3> QED BY <3>1, <3>2, <3>3, <3>4, <3>5, AddedOK
  <2>7. cells = [g \in Groups |-> cells[g]]
    OBVIOUS
  <2> HIDE DEF cells, ChildKeys, Shared
  <2>8. ASSUME NEW g \in Groups
        PROVE  KeysInRange(DOMAIN cells[g].table, s, n, e)
    <3>1. KeysInRange(DOMAIN m.cells[g].table, p, n, e)
      BY <2>2, SequenceFacts
    <3>2. \A l \in LogicalBlocks : /\ <<"temp", s, l>> \notin ChildKeys(g)
                                   /\ <<"copy", s, l>> \notin ChildKeys(g)
      BY <2>5
    <3> QED BY <2>4, <2>5, <2>6, <3>1, <3>2 DEF KeysInRange
  <2>9. \A g \in Groups : \A k \in Keys : k[2] # s =>
          (k \in DOMAIN cells[g].table <=> k \in DOMAIN m.cells[g].table)
    BY <2>5, <2>6
  <2>10. MapOK(With(m, cells, s, n, e))
    <3> HIDE DEF n, e
    <3> QED BY <2>2, <2>6, <2>7, <2>8, <2>9, WithOK
  <2> QED BY <2>1, <2>10 DEF Safe, Done, Errors
<1> QED BY <1>1, <1>2, <1>3

\* Blocks leave from the old end; the tail stays.
LEMMA EvictSafe ==
    ASSUME NEW m, MapOK(m), NEW s \in Present(m),
           NEW p \in Nat, p < NumLogicalBlocks(m.length[s]),
           NEW o \in EvictOutcomes(m, s, p)
    PROVE  Safe(m, o)
<1> DEFINE e == m.evicted[s]
           n == m.length[s]
           Old == KeysOf("kept", {s}, e .. p - 1)
           cells == [g \in Groups |-> Dropped(m.cells[g], Old)]
<1>1. CASE Recomputing(m, Seqs)
  BY <1>1, RaisedSafe DEF EvictOutcomes, Errors
<1>2. CASE ~Recomputing(m, Seqs) /\ p < e
  BY <1>2, RaisedSafe DEF EvictOutcomes, Errors
<1>3. CASE ~Recomputing(m, Seqs) /\ ~(p < e)
  <2>1. o = Done(With(m, cells, s, n, p))
    BY <1>3 DEF EvictOutcomes
  <2>2. /\ s \in Seqs /\ n \in 0 .. MaxTokens /\ e \in Nat /\ e <= p
        /\ p < NumLogicalBlocks(n)
        /\ NumLogicalBlocks(n) \in Nat
        /\ \A l \in Nat : l < NumLogicalBlocks(n) => l \in LogicalBlocks
        /\ LogicalBlocks \subseteq Nat
    <3>1. s \in Seqs
      BY DEF Present
    <3>2. e \in Nat
      BY <3>1, SequenceFacts
    <3> QED BY <1>3, <3>1, <3>2, SequenceFacts DEF LogicalBlocks
  <2>3. \A g \in Groups : KeysInRange(DOMAIN m.cells[g].table, s, n, e)
    BY <2>2, SequenceFacts
  <2>4. \A k \in Old : /\ k = <<"kept", s, k[3]>> /\ k[3] \in LogicalBlocks
                       /\ k[2] = s /\ e <= k[3] /\ k[3] < NumLogicalBlocks(n)
    <3> SUFFICES ASSUME NEW l \in e .. p - 1
                 PROVE  l \in LogicalBlocks /\ e <= l /\ l < NumLogicalBlocks(n)
      BY DEF KeysOf
    <3> HIDE DEF e, n
    <3> QED BY <2>2
  <2>5. \A l \in LogicalBlocks : <<"kept", s, l>> \in Old <=> e <= l /\ l < p
    BY <2>2 DEF KeysOf
  <2>6. \A l \in LogicalBlocks : <<"copy", s, l>> \notin Old /\ <<"temp", s, l>> \notin Old
    BY DEF KeysOf
  <2>7. \A g \in Groups : \A l \in LogicalBlocks :
          <<"temp", s, l>> \notin DOMAIN m.cells[g].table
    BY <1>3, <2>2 DEF Recomputing, Entries
  <2> HIDE DEF Old
  <2>8. ASSUME NEW g \in Groups
        PROVE  /\ CellOK(cells[g])
               /\ DOMAIN cells[g].table = DOMAIN m.cells[g].table \ Old
    <3>1. CellOK(m.cells[g])
      BY MapCells DEF MapOK
    <3>2. Old \in SUBSET DOMAIN m.cells[g].table
      <4> SUFFICES ASSUME NEW k \in Old PROVE k \in DOMAIN m.cells[g].table
        OBVIOUS
      <4>1. <<"kept", s, k[3]>> \in DOMAIN m.cells[g].table
        BY <2>3, <2>4 DEF KeysInRange
      <4> QED BY <2>4, <4>1
    <3> QED BY <3>1, <3>2, DroppedOK
  <2>9. cells = [g \in Groups |-> cells[g]]
    OBVIOUS
  <2> HIDE DEF cells, e, n
  <2>10. ASSUME NEW g \in Groups
         PROVE  KeysInRange(DOMAIN cells[g].table, s, n, p)
    <3>1. ASSUME NEW l \in LogicalBlocks
          PROVE  <<"kept", s, l>> \in DOMAIN cells[g].table
                   <=> p <= l /\ l < NumLogicalBlocks(n)
      <4>1. <<"kept", s, l>> \in DOMAIN cells[g].table
              <=> (e <= l /\ l < NumLogicalBlocks(n)) /\ ~(e <= l /\ l < p)
        BY <2>3, <2>5, <2>8 DEF KeysInRange
      <4> QED BY <2>2, <4>1
    <3> QED BY <2>3, <2>7, <2>8, <3>1 DEF KeysInRange
  <2>11. \A g \in Groups : \A k \in Keys : k[2] # s =>
           (k \in DOMAIN cells[g].table <=> k \in DOMAIN m.cells[g].table)
    BY <2>4, <2>8
  <2>12. PrefixBelowTail(n, p)
    BY DEF PrefixBelowTail, n
  <2>13. MapOK(With(m, cells, s, n, p))
    BY <2>2, <2>8, <2>9, <2>10, <2>11, <2>12, WithOK
  <2> QED BY <2>1, <2>13 DEF Safe, Done, Errors
<1> QED BY <1>1, <1>2, <1>3

\* free_sequence keeps the map in order.
LEMMA FreedOK ==
    ASSUME NEW m, MapOK(m), NEW s \in Seqs
    PROVE  MapOK(Freed(m, s))
<1> DEFINE Own(g) == {k \in DOMAIN m.cells[g].table : k[2] = s}
           cells == [g \in Groups |-> Dropped(m.cells[g], Own(g))]
<1>1. Freed(m, s) = With(m, cells, s, 0, 0)
  BY DEF Freed
<1>2. ASSUME NEW g \in Groups
      PROVE  /\ CellOK(cells[g])
             /\ DOMAIN cells[g].table = DOMAIN m.cells[g].table \ Own(g)
  <2>1. CellOK(m.cells[g]) /\ Own(g) \in SUBSET DOMAIN m.cells[g].table
    BY MapCells DEF MapOK
  <2>2. cells[g] = Dropped(m.cells[g], Own(g))
    OBVIOUS
  <2> HIDE DEF cells, Own
  <2> QED BY <2>1, <2>2, DroppedOK
<1>3. cells = [g \in Groups |-> cells[g]]
  OBVIOUS
<1> HIDE DEF cells
<1>4. \A g \in Groups : \A k : k \in DOMAIN cells[g].table
                                 <=> k \in DOMAIN m.cells[g].table /\ k[2] # s
  BY <1>2
<1>5. NumLogicalBlocks(0) = 0 /\ LogicalBlocks \subseteq Nat
  BY BlocksStep DEF LogicalBlocks
<1>6. \A g \in Groups : KeysInRange(DOMAIN cells[g].table, s, 0, 0)
  <2>1. \A l \in LogicalBlocks : ~(0 <= l /\ l < NumLogicalBlocks(0))
    BY <1>5
  <2>2. \A g \in Groups : \A x, l : <<x, s, l>> \notin DOMAIN cells[g].table
    BY <1>4
  <2> QED BY <2>1, <2>2 DEF KeysInRange
<1>7. 0 \in 0 .. MaxTokens /\ PrefixBelowTail(0, 0)
  BY SizesAssumption DEF PrefixBelowTail
<1> QED BY <1>1, <1>2, <1>3, <1>4, <1>6, <1>7, WithOK

\* The temporary keys of the sequences that begin a recompute.
LEMMA PrefixKeysFresh ==
    ASSUME NEW m, MapOK(m), NEW S \in SUBSET Present(m)
    PROVE  /\ PrefixKeys(m, S) \in SUBSET Keys
           /\ \A g \in Groups : PrefixKeys(m, S) \cap DOMAIN m.cells[g].table = {}
           /\ \A k \in PrefixKeys(m, S) : k[1] = "temp"
           /\ \A u \in Seqs, l \in LogicalBlocks :
                <<"temp", u, l>> \in PrefixKeys(m, S)
                  <=> u \in S /\ ~Recomputing(m, {u}) /\ l < m.evicted[u]
<1> DEFINE P == PrefixKeys(m, S)
<1>1. \A u \in S : /\ u \in Seqs /\ m.evicted[u] \in Nat
                   /\ \A l \in Nat : l < m.evicted[u] => l \in LogicalBlocks
  <2> TAKE u \in S
  <2>1. u \in Seqs /\ m.length[u] > 0
    BY DEF Present
  <2>2. /\ m.evicted[u] \in Nat /\ NumLogicalBlocks(m.length[u]) \in Nat
        /\ m.evicted[u] < NumLogicalBlocks(m.length[u])
        /\ \A l \in Nat : l < NumLogicalBlocks(m.length[u]) => l \in LogicalBlocks
    BY <2>1, SequenceFacts
  <2> QED BY <2>1, <2>2
<1>2. \A k \in P : \E u \in S : \E l \in 0 .. m.evicted[u] - 1 :
        k = <<"temp", u, l>> /\ ~Recomputing(m, {u})
  <2> TAKE k \in P
  <2>1. PICK u \in S : k \in KeysOf("temp", {u}, 0 .. m.evicted[u] - 1)
                       /\ ~Recomputing(m, {u})
    BY DEF PrefixKeys
  <2>2. k[3] \in 0 .. m.evicted[u] - 1 /\ k = <<"temp", u, k[3]>>
    BY <2>1 DEF KeysOf
  <2> QED BY <2>1, <2>2
<1>3. \A u \in S : ~Recomputing(m, {u}) =>
        \A l \in 0 .. m.evicted[u] - 1 : <<"temp", u, l>> \in P
  BY DEF PrefixKeys, KeysOf
<1> HIDE DEF P
<1>4. LogicalBlocks \subseteq Nat
  BY DEF LogicalBlocks
<1>5. ASSUME NEW k \in P
      PROVE  /\ k \in Keys /\ k[1] = "temp"
             /\ \A g \in Groups : k \notin DOMAIN m.cells[g].table
  <2>0. PICK u \in S : \E l \in 0 .. m.evicted[u] - 1 :
          k = <<"temp", u, l>> /\ ~Recomputing(m, {u})
    BY <1>2
  <2>1. PICK l \in 0 .. m.evicted[u] - 1 :
          k = <<"temp", u, l>> /\ ~Recomputing(m, {u})
    BY <2>0
  <2>2. u \in Seqs /\ l \in LogicalBlocks
    BY <1>1
  <2>3. \A g \in Groups : k \notin DOMAIN m.cells[g].table
    BY <2>1 DEF Recomputing, Entries
  <2> QED BY <2>1, <2>2, <2>3, KeyForm
<1>6. ASSUME NEW u \in Seqs, NEW l \in LogicalBlocks
      PROVE  <<"temp", u, l>> \in P
               <=> u \in S /\ ~Recomputing(m, {u}) /\ l < m.evicted[u]
  <2>1. ASSUME <<"temp", u, l>> \in P
        PROVE  u \in S /\ ~Recomputing(m, {u}) /\ l < m.evicted[u]
    <3>0. PICK v \in S : \E i \in 0 .. m.evicted[v] - 1 :
            <<"temp", u, l>> = <<"temp", v, i>> /\ ~Recomputing(m, {v})
      BY <1>2, <2>1
    <3>1. PICK i \in 0 .. m.evicted[v] - 1 :
            <<"temp", u, l>> = <<"temp", v, i>> /\ ~Recomputing(m, {v})
      BY <3>0
    <3>2. u = v /\ l = i
      BY <3>1
    <3> QED BY <1>1, <3>1, <3>2
  <2>2. ASSUME u \in S, ~Recomputing(m, {u}), l < m.evicted[u]
        PROVE  <<"temp", u, l>> \in P
    <3>1. l \in 0 .. m.evicted[u] - 1
      BY <1>1, <1>4, <2>2
    <3> QED BY <1>3, <2>2, <3>1
  <2> QED BY <2>1, <2>2
<1> QED BY <1>5, <1>6 DEF P

\* acquire_layer_group_plan keeps the map in order, and undoes what it did when it
\* raises.
LEMMA AcquireSafe ==
    ASSUME NEW m, MapOK(m), NEW S \in SUBSET Present(m), NEW g \in Groups,
           NEW o \in AcquireOutcomes(m, S, g)
    PROVE  Safe(m, o)
<1> DEFINE K == [h \in Groups |-> IF h = g THEN PrefixKeys(m, S) ELSE {}]
<1>1. Fresh(m, K)
  BY PrefixKeysFresh DEF Fresh
<1>2. PICK f \in Grants(m, K) :
        o = IF ~AlreadyActive(m, S) /\ Fits(m, K, g)
            THEN Done(Taken(m, f))
            ELSE Raised(RolledBack(m, f), "RuntimeError")
  BY DEF AcquireOutcomes
<1>3. CASE ~AlreadyActive(m, S) /\ Fits(m, K, g)
  <2> DEFINE t == Taken(m, f)
  <2>1. /\ MapType(t) /\ MapRefsExact(t)
        /\ t.length = m.length /\ t.evicted = m.evicted
        /\ \A h \in Groups : DOMAIN t.cells[h].table
                               = DOMAIN m.cells[h].table \cup DOMAIN f[h]
    BY <1>1, TakenOK DEF MapOK
  <2>2. \A h \in Groups : Fits(m, K, h)
    <3>1. \A h \in Groups : h # g => Cardinality(K[h]) = 0
      BY FS_EmptySet
    <3>2. \A h \in Groups : Cardinality(m.cells[h].free) \in Nat
      <4> TAKE h \in Groups
      <4>1. m.cells[h].free \subseteq Blocks
        BY DEF MapOK, MapType, CellType
      <4> QED BY <4>1, FiniteAssumption, FS_Subset, FS_CardinalityType
    <3> QED BY <1>3, <3>1, <3>2 DEF Fits
  <2>3. \A h \in Groups : DOMAIN t.cells[h].table = DOMAIN m.cells[h].table \cup K[h]
    BY <2>1, <2>2, GrantsShape DEF MapOK
  <2> HIDE DEF t
  <2>4. MapRanges(m)
    BY WindowRanges DEF MapOK
  <2>5. ASSUME NEW u \in Seqs, NEW h \in Groups
        PROVE  KeysInRange(DOMAIN t.cells[h].table, u, m.length[u], m.evicted[u])
    <3>1. KeysInRange(DOMAIN m.cells[h].table, u, m.length[u], m.evicted[u])
      BY <2>4 DEF MapRanges, KeysInRange
    <3>2. CASE h = g
      <4>1. \A l \in LogicalBlocks : /\ <<"kept", u, l>> \notin K[h]
                                     /\ <<"copy", u, l>> \notin K[h]
        BY <3>2, PrefixKeysFresh
      <4>2. CASE u \in S /\ ~Recomputing(m, {u})
        <5>1. \A l \in LogicalBlocks : <<"temp", u, l>> \notin DOMAIN m.cells[h].table
          BY <4>2 DEF Recomputing, Entries
        <5>2. \A l \in LogicalBlocks : <<"temp", u, l>> \in K[h] <=> l < m.evicted[u]
          BY <3>2, <4>2, PrefixKeysFresh
        <5> QED BY <2>3, <3>1, <4>1, <5>1, <5>2 DEF KeysInRange
      <4>3. CASE ~(u \in S /\ ~Recomputing(m, {u}))
        <5>1. \A l \in LogicalBlocks : <<"temp", u, l>> \notin K[h]
          BY <3>2, <4>3, PrefixKeysFresh
        <5> QED BY <2>3, <3>1, <4>1, <5>1 DEF KeysInRange
      <4> QED BY <4>2, <4>3
    <3>3. CASE h # g
      <4>1. DOMAIN t.cells[h].table = DOMAIN m.cells[h].table
        BY <2>3, <3>3
      <4> QED BY <3>1, <4>1
    <3> QED BY <3>2, <3>3
  <2>6. MapRanges(t)
    BY <2>1, <2>4, <2>5 DEF MapRanges, KeysInRange
  <2>7. MapOK(t)
    BY <2>1, <2>6, WindowRanges DEF MapOK
  <2> QED BY <1>2, <1>3, <2>7 DEF Safe, Done, Errors, t
<1>4. CASE ~(~AlreadyActive(m, S) /\ Fits(m, K, g))
  <2>1. RolledBack(m, f) = m
    BY <1>1, RolledBackOK DEF MapOK
  <2> QED BY <1>2, <1>4, <2>1, RaisedSafe DEF Errors
<1> QED BY <1>3, <1>4

\* build_layer_group_plans leaves the map as it was.
LEMMA BuildSafe ==
    ASSUME NEW m, MapOK(m), NEW S \in SUBSET Present(m), NEW o \in BuildOutcomes(m, S)
    PROVE  Safe(m, o) /\ o.map = m /\ DOMAIN o.plan \in {{}, Groups}
<1> DEFINE K == [g \in Groups |-> PrefixKeys(m, S)]
           Tables(f) == [g \in Groups |->
                           [s \in S |-> BlockTable(Taken(m, f), g, s)]]
<1>1. Fresh(m, K)
  BY PrefixKeysFresh DEF Fresh
<1>2. PICK f \in Grants(m, K) :
        o = IF ~AlreadyActive(m, S) /\ \A g \in Groups : Fits(m, K, g)
            THEN [map |-> RolledBack(m, f), raised |-> "none", plan |-> Tables(f)]
            ELSE [map |-> RolledBack(m, f), raised |-> "RuntimeError",
                  plan |-> NoPlan]
  BY DEF BuildOutcomes
<1>3. RolledBack(m, f) = m
  BY <1>1, RolledBackOK DEF MapOK
<1>4. DOMAIN NoPlan = {} /\ DOMAIN Tables(f) = Groups
  BY DEF NoPlan
<1> HIDE DEF Tables
<1> QED BY <1>2, <1>3, <1>4 DEF Safe, Errors

\* The end of a lease keeps the map in order.
LEMMA EndedOK ==
    ASSUME NEW m, MapOK(m), NEW S, NEW g \in Groups
    PROVE  MapOK(Ended(m, S, g))
<1> DEFINE x == Ended(m, S, g)
           T == Entries(m, g, "temp", S)
<1>1. /\ x.length = m.length /\ x.evicted = m.evicted
      /\ x.cells = [m.cells EXCEPT ![g] = Dropped(m.cells[g], T)]
      /\ x = [cells |-> x.cells, length |-> x.length, evicted |-> x.evicted]
  <2>1. m = [cells |-> m.cells, length |-> m.length, evicted |-> m.evicted]
    BY DEF MapOK, MapType
  <2>2. x = [m EXCEPT !.cells = [m.cells EXCEPT ![g] = Dropped(m.cells[g], T)]]
    BY DEF Ended
  <2> HIDE DEF x, T
  <2> QED BY <2>1, <2>2
<1> HIDE DEF x
<1>2. /\ CellOK(Dropped(m.cells[g], T))
      /\ DOMAIN Dropped(m.cells[g], T).table = DOMAIN m.cells[g].table \ T
  <2>1. CellOK(m.cells[g]) /\ T \in SUBSET DOMAIN m.cells[g].table
    BY MapCells DEF MapOK, Entries
  <2> QED BY <2>1, DroppedOK
<1>3. /\ x.cells[g] = Dropped(m.cells[g], T)
      /\ \A h \in Groups : h # g => x.cells[h] = m.cells[h]
      /\ x.cells = [h \in Groups |-> x.cells[h]]
  BY <1>1 DEF MapOK, MapType
<1>4. \A h \in Groups : CellOK(x.cells[h])
  BY <1>2, <1>3, MapCells DEF MapOK
<1>5. MapType(x)
  BY <1>1, <1>3, <1>4 DEF MapOK, MapType, CellOK
<1>6. MapRefsExact(x)
  BY <1>4 DEF MapRefsExact, CellOK
<1>7. MapRanges(m)
  BY WindowRanges DEF MapOK
<1>8. ASSUME NEW u \in Seqs, NEW h \in Groups
      PROVE  KeysInRange(DOMAIN x.cells[h].table, u, m.length[u], m.evicted[u])
  <2>1. KeysInRange(DOMAIN m.cells[h].table, u, m.length[u], m.evicted[u])
    BY <1>7 DEF MapRanges, KeysInRange
  <2>2. CASE h # g
    BY <1>3, <2>1, <2>2
  <2>3. CASE h = g
    <3>1. DOMAIN x.cells[h].table = DOMAIN m.cells[h].table \ T
      BY <1>2, <1>3, <2>3
    <3>2. \A l \in LogicalBlocks : <<"kept", u, l>> \notin T /\ <<"copy", u, l>> \notin T
      BY DEF Entries
    <3>3. CASE u \in S
      <4>1. \A l \in LogicalBlocks :
              <<"temp", u, l>> \in DOMAIN m.cells[h].table => <<"temp", u, l>> \in T
        BY <2>3, <3>3 DEF Entries
      <4> HIDE DEF T
      <4> QED BY <2>1, <3>1, <3>2, <4>1 DEF KeysInRange
    <3>4. CASE u \notin S
      <4>1. \A l \in LogicalBlocks : <<"temp", u, l>> \notin T
        BY <3>4 DEF Entries
      <4> HIDE DEF T
      <4> QED BY <2>1, <3>1, <3>2, <4>1 DEF KeysInRange
    <3> QED BY <3>3, <3>4
  <2> QED BY <2>2, <2>3
<1>9. MapRanges(x)
  BY <1>1, <1>7, <1>8 DEF MapRanges, KeysInRange
<1> QED BY <1>5, <1>6, <1>9, WindowRanges DEF MapOK, x

\* The empty map is in order.
LEMMA EmptyMapOK == MapOK(EmptyMap)
<1> DEFINE m == EmptyMap
           E == EmptyCell
<1>1. /\ m.length = [s \in Seqs |-> 0] /\ m.evicted = [s \in Seqs |-> 0]
      /\ m.cells = [g \in Groups |-> E]
      /\ m = [cells |-> m.cells, length |-> m.length, evicted |-> m.evicted]
  BY DEF EmptyMap
<1>2. /\ E.free = Blocks /\ E.refs = [b \in Blocks |-> 0]
      /\ E.table = [k \in {} |-> k] /\ DOMAIN E.table = {}
      /\ E = [free |-> E.free, refs |-> E.refs, table |-> E.table]
  BY DEF EmptyCell
<1> HIDE DEF m, E
<1>3. CellOK(E)
  <2>1. CellType(E)
    BY <1>2 DEF CellType
  <2>2. \A b \in Blocks : Users(E, DOMAIN E.table, b) = {}
    BY <1>2 DEF Users
  <2>3. Cardinality({}) = 0
    BY FS_EmptySet
  <2> QED BY <1>2, <2>1, <2>2, <2>3 DEF CellOK, CellRefsExact
<1>4. NumLogicalBlocks(0) = 0 /\ 0 \in 0 .. MaxTokens /\ LogicalBlocks \subseteq Nat
  BY BlocksStep, SizesAssumption DEF LogicalBlocks
<1>5. MapType(m)
  BY <1>1, <1>3, <1>4 DEF MapType, CellOK
<1>6. MapRefsExact(m)
  BY <1>1, <1>3 DEF MapRefsExact, CellOK
<1>7. MapRanges(m)
  <2>1. \A l \in LogicalBlocks : ~(0 <= l /\ l < NumLogicalBlocks(0))
    BY <1>4
  <2> QED BY <1>1, <1>2, <2>1 DEF MapRanges, PrefixBelowTail
<1> QED BY <1>5, <1>6, <1>7, WindowRanges DEF MapOK, m

-----------------------------------------------------------------------------
(* What the methods do to the blocks that keys name: which blocks a call   *)
(* takes and which entries it leaves alone.  Properties of shared and      *)
(* private blocks follow from it without the pools' counters.              *)

-----------------------------------------------------------------------------
(* One layer group's pool.                                                 *)

\* The count of a block tells whether another key names it.
LEMMA CountTells ==
    ASSUME NEW c, CellOK(c), NEW k \in DOMAIN c.table
    PROVE  /\ c.table[k] \in Blocks
           /\ c.table[k] \notin c.free
           /\ c.refs[c.table[k]] \in Nat
           /\ c.refs[c.table[k]] > 1
                <=> \E j \in DOMAIN c.table : j # k /\ c.table[j] = c.table[k]
           /\ c.refs[c.table[k]] >= 1
<1> DEFINE b == c.table[k]
           U == Users(c, DOMAIN c.table, b)
<1>1. b \in Blocks /\ DOMAIN c.table \subseteq Keys
  BY DEF CellOK, CellType
<1>2. IsFiniteSet(U) /\ k \in U
  BY <1>1, KeysFinite, FS_Subset DEF Users
<1>3. c.refs[b] = Cardinality(U) /\ (b \in c.free => c.refs[b] = 0)
  BY <1>1 DEF CellOK, CellRefsExact
<1>4. Cardinality(U) \in Nat /\ Cardinality(U) # 0
  BY <1>2, FS_CardinalityType, FS_EmptySet
<1>5. ASSUME \A j \in U : j = k PROVE Cardinality(U) = 1
  <2>1. U = {k}
    BY <1>2, <1>5
  <2> QED BY <2>1, FS_Singleton
<1>6. ASSUME NEW j \in U, j # k PROVE Cardinality(U) > 1
  <2>1. IsFiniteSet({k}) /\ Cardinality({k}) = 1 /\ {k} \subseteq U /\ {k} # U
    BY <1>2, <1>6, FS_Singleton
  <2>2. Cardinality({k}) < Cardinality(U)
    <3> HIDE DEF U
    <3> QED BY <1>2, <2>1, FS_Subset, FS_CardinalityType
  <2> QED BY <2>1, <2>2
<1>7. \A j : j \in U <=> j \in DOMAIN c.table /\ c.table[j] = b
  BY DEF Users
<1> HIDE DEF U, b
<1>8. c.refs[b] > 1 <=> \E j \in DOMAIN c.table : j # k /\ c.table[j] = b
  BY <1>3, <1>4, <1>5, <1>6, <1>7
<1> QED BY <1>1, <1>3, <1>4, <1>8 DEF b

\* Pool d is pool c with free blocks, one each, under the new keys D.
Granted(c, d, D) ==
    /\ D \cap DOMAIN c.table = {}
    /\ DOMAIN d.table = DOMAIN c.table \cup D
    /\ \A k \in DOMAIN c.table : d.table[k] = c.table[k]
    /\ \A k \in D : d.table[k] \in c.free
    /\ \A j, k \in D : d.table[j] = d.table[k] => j = k

\* Pool d is pool c without the keys K.
Pruned(c, d, K) ==
    /\ DOMAIN d.table = DOMAIN c.table \ K
    /\ \A k \in DOMAIN d.table : d.table[k] = c.table[k]

\* A granted block is named by its new key alone.
LEMMA GrantedAlone ==
    ASSUME NEW c, CellOK(c), NEW d, NEW D, Granted(c, d, D),
           NEW j \in D, NEW k \in DOMAIN d.table, d.table[j] = d.table[k]
    PROVE  j = k
<1>1. CASE k \in D
  BY <1>1 DEF Granted
<1>2. CASE k \in DOMAIN c.table
  BY <1>2, CountTells DEF Granted
<1> QED BY <1>1, <1>2 DEF Granted

\* Added entries are granted free blocks.
LEMMA AddedGrants ==
    ASSUME NEW c, CellOK(c), NEW D \in SUBSET Keys, D \cap DOMAIN c.table = {},
           NEW f \in Injection(D, c.free)
    PROVE  Granted(c, Added(c, f), D)
<1>1. f \in [D -> c.free] /\ \A j, k \in D : f[j] = f[k] => j = k
  BY DEF Injection, IsInjective
<1>2. f \in [D -> Blocks]
  BY <1>1 DEF CellOK, CellType
<1> QED BY <1>1, <1>2, AddedOK DEF Granted

-----------------------------------------------------------------------------
(* The allocation loop.                                                    *)

\* A loop that ends well in every group took one free block for each key.
LEMMA TakenGrants ==
    ASSUME NEW m, MapOK(m), NEW K, Fresh(m, K), NEW f \in Grants(m, K),
           \A h \in Groups : Fits(m, K, h), NEW g \in Groups
    PROVE  Granted(m.cells[g], Taken(m, f).cells[g], K[g])
<1>1. f[g] \in Grantable(m, K, g) /\ Fits(m, K, g)
  BY DEF Grants
<1>2. ~ \E h \in 0 .. g - 1 : ~Fits(m, K, h)
  BY SizesAssumption DEF Groups
<1>3. f[g] \in Injection(K[g], m.cells[g].free)
  BY <1>1, <1>2 DEF Grantable
<1>4. Taken(m, f).cells[g] = Added(m.cells[g], f[g])
  BY DEF Taken, MapOK, MapType
<1>5. CellOK(m.cells[g])
  BY MapCells DEF MapOK
<1>6. K[g] \in SUBSET Keys /\ K[g] \cap DOMAIN m.cells[g].table = {}
  BY DEF Fresh
<1> QED BY <1>3, <1>4, <1>5, <1>6, AddedGrants

\* Sequence s of map x has new kept keys, the same ones in every group.
Extended(m, x, s, K) ==
    /\ \A k \in K : k[1] = "kept" /\ k[2] = s
    /\ \A g \in Groups : Granted(m.cells[g], x.cells[g], K)

\* The length and the prefix of s, and of no other sequence, are set.
Resized(m, x, s, n, e) ==
    /\ x.length = [m.length EXCEPT ![s] = n]
    /\ x.evicted = [m.evicted EXCEPT ![s] = e]

-----------------------------------------------------------------------------
(* The methods.                                                            *)

\* What allocate_sequence_with_evicted_prefix does to the blocks that keys name.
LEMMA AllocateEffect ==
    ASSUME NEW m, MapOK(m), NEW s \in Seqs,
           NEW n \in 1 .. MaxTokens, NEW e \in Nat, e < NumLogicalBlocks(n),
           NEW o \in AllocateOutcomes(m, s, n, e), o.raised = "none"
    PROVE  /\ s \notin Present(m)
           /\ Resized(m, o.map, s, n, e)
           /\ Extended(m, o.map, s, KeysOf("kept", {s}, e .. NumLogicalBlocks(n) - 1))
<1> DEFINE Range1 == KeysOf("kept", {s}, e .. NumLogicalBlocks(n) - 1)
           K == [g \in Groups |-> Range1]
<1>1. s \notin Present(m)
  BY DEF AllocateOutcomes, Raised
<1>2. PICK f \in Grants(m, K) :
        o = IF \A g \in Groups : Fits(m, K, g)
            THEN Done(With(m, Taken(m, f).cells, s, n, e))
            ELSE Raised(RolledBack(m, f), "RuntimeError")
  BY <1>1 DEF AllocateOutcomes
<1>3. (\A g \in Groups : Fits(m, K, g)) /\ o.map = With(m, Taken(m, f).cells, s, n, e)
  BY <1>2 DEF Raised, Done
<1>4. \A k \in Range1 : /\ k \in Keys /\ k[1] = "kept" /\ k[2] = s
                        /\ k = <<"kept", s, k[3]>> /\ k[3] \in LogicalBlocks
  <2>1. n \in 0 .. MaxTokens
    BY SizesAssumption
  <2>2. NumLogicalBlocks(n) \in Nat
        /\ \A l \in Nat : l < NumLogicalBlocks(n) => l \in LogicalBlocks
    BY <2>1, LengthBlocks
  <2>3. \A l \in e .. NumLogicalBlocks(n) - 1 : l \in LogicalBlocks
    BY <2>2
  <2>4. \A k \in Range1 : k[3] \in e .. NumLogicalBlocks(n) - 1 /\ k = <<"kept", s, k[3]>>
    BY DEF KeysOf
  <2> QED BY <2>3, <2>4, KeyForm
<1>5. m.length[s] = 0 /\ LogicalBlocks \subseteq Nat
  BY <1>1, SequenceFacts DEF Present, LogicalBlocks
<1>6. \A g \in Groups : \A l \in LogicalBlocks :
        <<"kept", s, l>> \notin DOMAIN m.cells[g].table
  <2>1. m.evicted[s] = 0 /\ NumLogicalBlocks(m.length[s]) = 0
    BY <1>5, SequenceFacts
  <2>2. \A l \in LogicalBlocks : ~(l < NumLogicalBlocks(m.length[s]))
    BY <1>5, <2>1
  <2> QED BY <2>2, SequenceFacts DEF KeysInRange
<1>7. Fresh(m, K)
  <2> HIDE DEF Range1
  <2>1. \A g \in Groups : K[g] = Range1
    OBVIOUS
  <2> QED BY <1>4, <1>6, <2>1 DEF Fresh
<1>8. \A g \in Groups : Granted(m.cells[g], o.map.cells[g], K[g])
  <2> HIDE DEF K, Range1
  <2>1. o.map.cells = Taken(m, f).cells
    BY <1>3 DEF With
  <2> QED BY <1>3, <1>7, <2>1, TakenGrants
<1>9. Extended(m, o.map, s, Range1)
  <2> HIDE DEF Range1
  <2> QED BY <1>4, <1>8 DEF Extended
<1>10. Resized(m, o.map, s, n, e)
  BY <1>3 DEF With, Resized
<1> QED BY <1>1, <1>9, <1>10

\* What append_token does when the token begins a block.
LEMMA NewBlockEffect ==
    ASSUME NEW m, MapOK(m), NEW s \in Present(m), m.length[s] < MaxTokens,
           NumLogicalBlocks(m.length[s] + 1) > NumLogicalBlocks(m.length[s]),
           NEW o \in NewBlockOutcomes(m, s), o.raised = "none"
    PROVE  /\ Resized(m, o.map, s, m.length[s] + 1, m.evicted[s])
           /\ Extended(m, o.map, s, {<<"kept", s, NumLogicalBlocks(m.length[s])>>})
           /\ NumLogicalBlocks(m.length[s] + 1) = NumLogicalBlocks(m.length[s]) + 1
<1> DEFINE N == NumLogicalBlocks(m.length[s])
           key == <<"kept", s, N>>
           K == [g \in Groups |-> {key}]
<1>1. s \in Seqs /\ m.length[s] \in Nat /\ m.length[s] + 1 \in 0 .. MaxTokens
  BY SizesAssumption DEF Present, MapOK, MapType
<1>2. N \in Nat /\ NumLogicalBlocks(m.length[s] + 1) = N + 1
  <2>1. N \in Nat /\ NumLogicalBlocks(m.length[s] + 1) \in {N, N + 1}
    BY <1>1, BlocksStep
  <2> QED BY <2>1
<1>3. N \in LogicalBlocks
  <2>1. \A l \in Nat : l < NumLogicalBlocks(m.length[s] + 1) => l \in LogicalBlocks
    BY <1>1, LengthBlocks
  <2> HIDE DEF N
  <2> QED BY <1>2, <2>1
<1>4. key \in Keys /\ \A g \in Groups : key \notin DOMAIN m.cells[g].table
  <2>1. ~(N < N)
    BY <1>2
  <2>2. key \in Keys
    BY <1>1, <1>3, KeyForm
  <2>3. \A g \in Groups :
          KeysInRange(DOMAIN m.cells[g].table, s, m.length[s], m.evicted[s])
    BY <1>1, SequenceFacts
  <2>4. \A g \in Groups : key \in DOMAIN m.cells[g].table => N < N
    BY <1>3, <2>3 DEF KeysInRange
  <2> QED BY <2>1, <2>2, <2>4
<1> HIDE DEF key
<1>5. Fresh(m, K)
  BY <1>4 DEF Fresh
<1>6. PICK f \in Grants(m, K) :
        o = IF \A g \in Groups : Fits(m, K, g)
            THEN Done(With(m, Taken(m, f).cells, s, m.length[s] + 1, m.evicted[s]))
            ELSE Raised(RolledBack(m, f), "RuntimeError")
  BY DEF NewBlockOutcomes, key
<1>7. /\ \A g \in Groups : Fits(m, K, g)
      /\ o.map = With(m, Taken(m, f).cells, s, m.length[s] + 1, m.evicted[s])
  BY <1>6 DEF Raised, Done
<1>8. \A g \in Groups : Granted(m.cells[g], o.map.cells[g], K[g])
  <2> HIDE DEF K
  <2>1. o.map.cells = Taken(m, f).cells
    BY <1>7 DEF With
  <2> QED BY <1>5, <1>7, <2>1, TakenGrants
<1>9. Extended(m, o.map, s, {key})
  <2>1. key[1] = "kept" /\ key[2] = s
    BY DEF key
  <2> QED BY <1>8, <2>1 DEF Extended
<1>10. Resized(m, o.map, s, m.length[s] + 1, m.evicted[s])
  BY <1>7 DEF With, Resized
<1> QED BY <1>2, <1>9, <1>10 DEF key

\* A group whose tail block is shared moves the tail to a free block; the
\* other groups stay as they are.
LEMMA CopyOnWriteEffect ==
    ASSUME NEW m, MapOK(m), NEW s \in Present(m), m.length[s] < MaxTokens,
           NEW o \in CopyOnWriteOutcomes(m, s), o.raised = "none"
    PROVE  /\ Resized(m, o.map, s, m.length[s] + 1, m.evicted[s])
           /\ \A g \in Groups :
                \/ TailRefs(m, s, g) <= 1 /\ o.map.cells[g] = m.cells[g]
                \/ /\ TailRefs(m, s, g) > 1
                   /\ DOMAIN o.map.cells[g].table = DOMAIN m.cells[g].table
                   /\ \A k \in DOMAIN m.cells[g].table : k # TailKey(m, s) =>
                        o.map.cells[g].table[k] = m.cells[g].table[k]
                   /\ o.map.cells[g].table[TailKey(m, s)] \in m.cells[g].free
<1> DEFINE tail == TailKey(m, s)
           copy == <<"copy", s, tail[3]>>
           K == [g \in Groups |-> IF TailRefs(m, s, g) > 1 THEN {copy} ELSE {}]
           Switched(c, f) == Added(Dropped(c, {tail}), [k \in {tail} |-> f[copy]])
           cells(f) == [g \in Groups |-> IF K[g] = {} THEN m.cells[g]
                                                     ELSE Switched(m.cells[g], f[g])]
<1>1. s \in Seqs /\ m.length[s] \in Nat
  BY DEF Present, MapOK, MapType
<1>2. /\ tail \in Keys /\ tail[2] = s /\ tail[3] \in LogicalBlocks
      /\ \A g \in Groups : tail \in DOMAIN m.cells[g].table
  BY TailFacts
<1> HIDE DEF tail
<1>3. copy \in Keys /\ \A g \in Groups : copy \notin DOMAIN m.cells[g].table
  <2>1. \A g \in Groups :
          KeysInRange(DOMAIN m.cells[g].table, s, m.length[s], m.evicted[s])
    BY <1>1, SequenceFacts
  <2>2. copy \in Keys
    BY <1>1, <1>2, KeyForm
  <2> QED BY <1>2, <2>1, <2>2 DEF KeysInRange
<1> HIDE DEF copy
<1>4. Fresh(m, K)
  BY <1>3 DEF Fresh
<1>5. PICK f \in Grants(m, K) :
        o = IF \A g \in Groups : Fits(m, K, g)
            THEN Done(With(m, cells(f), s, m.length[s] + 1, m.evicted[s]))
            ELSE Raised(RolledBack(m, f), "RuntimeError")
  BY DEF CopyOnWriteOutcomes, tail, copy
<1>6. /\ \A g \in Groups : Fits(m, K, g)
      /\ o.map = With(m, cells(f), s, m.length[s] + 1, m.evicted[s])
  BY <1>5 DEF Raised, Done
<1>7. Resized(m, o.map, s, m.length[s] + 1, m.evicted[s]) /\ o.map.cells = cells(f)
  BY <1>6 DEF With, Resized
<1>8. ASSUME NEW g \in Groups
      PROVE  \/ TailRefs(m, s, g) <= 1 /\ cells(f)[g] = m.cells[g]
             \/ /\ TailRefs(m, s, g) > 1
                /\ DOMAIN cells(f)[g].table = DOMAIN m.cells[g].table
                /\ \A k \in DOMAIN m.cells[g].table : k # tail =>
                     cells(f)[g].table[k] = m.cells[g].table[k]
                /\ cells(f)[g].table[tail] \in m.cells[g].free
  <2>1. CellOK(m.cells[g])
    BY MapCells DEF MapOK
  <2>2. TailRefs(m, s, g) \in Nat
    BY <1>2, <2>1, CountTells DEF TailRefs, tail
  <2>3. CASE TailRefs(m, s, g) <= 1
    <3>1. K[g] = {}
      BY <2>2, <2>3
    <3> QED BY <2>3, <3>1
  <2>4. CASE TailRefs(m, s, g) > 1
    <3> DEFINE d == Dropped(m.cells[g], {tail})
               h == [k \in {tail} |-> f[g][copy]]
    <3>1. K[g] = {copy}
      BY <2>4
    <3>2. /\ CellOK(d) /\ DOMAIN d.table = DOMAIN m.cells[g].table \ {tail}
          /\ \A k \in DOMAIN m.cells[g].table \ {tail} : d.table[k] = m.cells[g].table[k]
      BY <1>2, <2>1, DroppedOK
    <3>3. DOMAIN f[g] = {copy} /\ f[g] \in [DOMAIN f[g] -> m.cells[g].free]
      BY <1>6, <3>1, GrantsShape DEF MapOK
    <3>4. f[g][copy] \in m.cells[g].free /\ m.cells[g].free \subseteq Blocks
      BY <2>1, <3>3 DEF CellOK, CellType
    <3>5. h \in [{tail} -> Blocks] /\ h[tail] = f[g][copy]
      BY <3>4
    <3>6. cells(f)[g] = Added(d, h)
      BY <3>1
    <3>7. {tail} \in SUBSET Keys /\ {tail} \cap DOMAIN d.table = {}
      BY <1>2, <3>2
    <3> HIDE DEF d, h, cells
    <3>8. /\ DOMAIN Added(d, h).table = DOMAIN d.table \cup {tail}
          /\ Added(d, h).table[tail] = h[tail]
          /\ \A k \in DOMAIN d.table : Added(d, h).table[k] = d.table[k]
      <4> DEFINE T == {tail}
      <4>1. CellOK(d) /\ T \in SUBSET Keys /\ h \in [T -> Blocks]
            /\ T \cap DOMAIN d.table = {} /\ tail \in T
        BY <3>2, <3>5, <3>7
      <4> HIDE DEF T
      <4>2. /\ CellOK(Added(d, h))
            /\ DOMAIN Added(d, h).table = DOMAIN d.table \cup T
            /\ \A k \in T : Added(d, h).table[k] = h[k]
            /\ \A k \in DOMAIN d.table : Added(d, h).table[k] = d.table[k]
        BY <4>1, AddedOK
      <4> QED BY <4>1, <4>2 DEF T
    <3>9. \A k \in DOMAIN m.cells[g].table : k # tail =>
            cells(f)[g].table[k] = m.cells[g].table[k]
      BY <3>2, <3>6, <3>8
    <3>10. DOMAIN cells(f)[g].table = DOMAIN m.cells[g].table
      BY <1>2, <3>2, <3>6, <3>8
    <3> QED BY <2>4, <3>4, <3>5, <3>6, <3>8, <3>9, <3>10
  <2> HIDE DEF cells
  <2>5. TailRefs(m, s, g) <= 1 \/ TailRefs(m, s, g) > 1
    BY <2>2
  <2> QED BY <2>3, <2>4, <2>5
<1> HIDE DEF cells
<1> QED BY <1>7, <1>8 DEF tail

\* A sequence that is not in the map has no entries.
LEMMA AbsentNoKeys ==
    ASSUME NEW m, MapOK(m), NEW s \in Seqs, s \notin Present(m),
           NEW g \in Groups, NEW k \in DOMAIN m.cells[g].table
    PROVE  k[2] # s
<1> SUFFICES ASSUME k[2] = s PROVE FALSE
  OBVIOUS
<1>1. k \in Keys
  BY DEF MapOK, MapType, CellType
<1>2. k = <<k[1], s, k[3]>> /\ k[1] \in {"kept", "temp", "copy"} /\ k[3] \in LogicalBlocks
  BY <1>1, KeyForm
<1>3. m.length[s] = 0
  BY SequenceFacts DEF Present
<1>4. m.evicted[s] = 0 /\ NumLogicalBlocks(m.length[s]) = 0
  BY <1>3, SequenceFacts
<1>5. ~(k[3] < 0)
  BY <1>2 DEF LogicalBlocks
<1>6. KeysInRange(DOMAIN m.cells[g].table, s, m.length[s], m.evicted[s])
  BY SequenceFacts
<1>7. k[1] = "kept" => FALSE
  BY <1>2, <1>4, <1>5, <1>6 DEF KeysInRange
<1>8. k[1] = "temp" => FALSE
  BY <1>2, <1>4, <1>5, <1>6 DEF KeysInRange
<1>9. k[1] = "copy" => FALSE
  BY <1>2, <1>6 DEF KeysInRange
<1> QED BY <1>2, <1>7, <1>8, <1>9

\* The child's keys name the blocks of the parent's keys.
LEMMA ForkEffect ==
    ASSUME NEW m, MapOK(m), NEW p \in Present(m), NEW s \in Seqs,
           NEW o \in ForkOutcomes(m, p, s), o.raised = "none"
    PROVE  /\ s \notin Present(m)
           /\ Resized(m, o.map, s, m.length[p], m.evicted[p])
           /\ \A g \in Groups :
                /\ \A k \in DOMAIN m.cells[g].table :
                     k \in DOMAIN o.map.cells[g].table
                /\ \A k \in DOMAIN o.map.cells[g].table :
                     /\ k[2] = s =>
                          /\ k[1] = "kept" /\ <<"kept", p, k[3]>> \in DOMAIN m.cells[g].table
                          /\ o.map.cells[g].table[k]
                               = m.cells[g].table[<<"kept", p, k[3]>>]
                     /\ k[2] # s => /\ k \in DOMAIN m.cells[g].table
                                    /\ o.map.cells[g].table[k] = m.cells[g].table[k]
<1> DEFINE ParentKey(k) == <<"kept", p, k[3]>>
           ChildKeys(g) == {<<"kept", s, k[3]>> : k \in Entries(m, g, "kept", {p})}
           Shared(g) == [k \in ChildKeys(g) |-> m.cells[g].table[ParentKey(k)]]
           cells == [g \in Groups |-> Added(m.cells[g], Shared(g))]
<1>1. s \notin Present(m)
  BY DEF ForkOutcomes, Raised
<1>2. o.map = With(m, cells, s, m.length[p], m.evicted[p])
  BY DEF ForkOutcomes, Raised, Done
<1>3. Resized(m, o.map, s, m.length[p], m.evicted[p]) /\ o.map.cells = cells
  BY <1>2 DEF With, Resized
<1>4. ASSUME NEW g \in Groups, NEW k \in ChildKeys(g)
      PROVE  k[1] = "kept" /\ k[2] = s /\ ParentKey(k) \in DOMAIN m.cells[g].table
  <2>1. PICK j \in Entries(m, g, "kept", {p}) : k = <<"kept", s, j[3]>>
    OBVIOUS
  <2>2. j \in DOMAIN m.cells[g].table /\ j[1] = "kept" /\ j[2] = p
    BY DEF Entries
  <2>3. j \in Keys
    BY <2>2 DEF MapOK, MapType, CellType
  <2>4. j = <<"kept", p, j[3]>>
    BY <2>2, <2>3, KeyForm
  <2> QED BY <2>1, <2>2, <2>4
<1>5. \A g \in Groups : cells[g].table = Merged(Shared(g), m.cells[g].table)
  BY DEF Added
<1>6. \A g \in Groups :
        /\ DOMAIN cells[g].table = ChildKeys(g) \cup DOMAIN m.cells[g].table
        /\ \A k \in ChildKeys(g) : cells[g].table[k] = m.cells[g].table[ParentKey(k)]
        /\ \A k \in DOMAIN m.cells[g].table :
             k \notin ChildKeys(g) => cells[g].table[k] = m.cells[g].table[k]
  <2> HIDE DEF cells, ChildKeys
  <2> QED BY <1>5 DEF Merged
<1> HIDE DEF cells, ChildKeys
<1>7. \A g \in Groups : \A k \in DOMAIN m.cells[g].table : k[2] # s
  BY <1>1, AbsentNoKeys
<1> QED BY <1>1, <1>3, <1>4, <1>6, <1>7

\* Dropped entries are gone, and the others stay.
LEMMA DroppedPrunes ==
    ASSUME NEW c, NEW K
    PROVE  Pruned(c, Dropped(c, K), K)
  BY DEF Pruned, Dropped, Restrict

\* What evict_prefix does to the blocks that keys name.
LEMMA EvictEffect ==
    ASSUME NEW m, NEW s, NEW p, NEW o \in EvictOutcomes(m, s, p), o.raised = "none"
    PROVE  /\ Resized(m, o.map, s, m.length[s], p)
           /\ \A g \in Groups :
                \E K : Pruned(m.cells[g], o.map.cells[g], K) /\ \A k \in K : k[2] = s
<1> DEFINE Old == KeysOf("kept", {s}, m.evicted[s] .. p - 1)
           cells == [g \in Groups |-> Dropped(m.cells[g], Old)]
<1>1. o.map = With(m, cells, s, m.length[s], p)
  BY DEF EvictOutcomes, Raised, Done
<1>2. \A k \in Old : k[2] = s
  BY DEF KeysOf
<1> HIDE DEF Old
<1>3. \A g \in Groups : Pruned(m.cells[g], cells[g], Old)
  BY DroppedPrunes
<1> HIDE DEF cells
<1> QED BY <1>1, <1>2, <1>3 DEF With, Resized

\* What free_sequence does to them.
LEMMA FreedEffect ==
    ASSUME NEW m, NEW s
    PROVE  /\ Resized(m, Freed(m, s), s, 0, 0)
           /\ \A g \in Groups :
                \E K : Pruned(m.cells[g], Freed(m, s).cells[g], K) /\ \A k \in K : k[2] = s
<1> DEFINE Own(g) == {k \in DOMAIN m.cells[g].table : k[2] = s}
           cells == [g \in Groups |-> Dropped(m.cells[g], Own(g))]
<1>1. Freed(m, s) = With(m, cells, s, 0, 0)
  BY DEF Freed
<1>2. \A g \in Groups : \A k \in Own(g) : k[2] = s
  OBVIOUS
<1> HIDE DEF Own
<1>3. \A g \in Groups : Pruned(m.cells[g], cells[g], Own(g))
  BY DroppedPrunes
<1> HIDE DEF cells
<1> QED BY <1>1, <1>2, <1>3 DEF With, Resized

\* What the end of a lease does to them.
LEMMA EndedEffect ==
    ASSUME NEW m, MapType(m), NEW S, NEW g \in Groups
    PROVE  /\ Ended(m, S, g).length = m.length /\ Ended(m, S, g).evicted = m.evicted
           /\ \A h \in Groups :
                Pruned(m.cells[h], Ended(m, S, g).cells[h],
                       IF h = g THEN Entries(m, g, "temp", S) ELSE {})
<1> DEFINE x == Ended(m, S, g)
           T == Entries(m, g, "temp", S)
<1>1. /\ x.length = m.length /\ x.evicted = m.evicted
      /\ x.cells = [m.cells EXCEPT ![g] = Dropped(m.cells[g], T)]
  <2>1. m = [cells |-> m.cells, length |-> m.length, evicted |-> m.evicted]
    BY DEF MapType
  <2>2. x = [m EXCEPT !.cells = [m.cells EXCEPT ![g] = Dropped(m.cells[g], T)]]
    BY DEF Ended
  <2> HIDE DEF x, T
  <2> QED BY <2>1, <2>2
<1> HIDE DEF x, T
<1>2. /\ x.cells[g] = Dropped(m.cells[g], T)
      /\ \A h \in Groups : h # g => x.cells[h] = m.cells[h]
  BY <1>1 DEF MapType
<1>3. Pruned(m.cells[g], x.cells[g], T)
  BY <1>2, DroppedPrunes
<1>4. \A h \in Groups : h # g => Pruned(m.cells[h], x.cells[h], {})
  BY <1>2 DEF Pruned
<1> QED BY <1>1, <1>3, <1>4 DEF x, T

\* Group g takes the temporary blocks of a batch that is not under recompute.
LEMMA AcquireEffect ==
    ASSUME NEW m, MapOK(m), NEW S \in SUBSET Present(m), NEW g \in Groups,
           NEW o \in AcquireOutcomes(m, S, g), o.raised = "none"
    PROVE  /\ ~AlreadyActive(m, S)
           /\ o.map.length = m.length /\ o.map.evicted = m.evicted
           /\ \A h \in Groups :
                Granted(m.cells[h], o.map.cells[h],
                        IF h = g THEN PrefixKeys(m, S) ELSE {})
<1> DEFINE K == [h \in Groups |-> IF h = g THEN PrefixKeys(m, S) ELSE {}]
<1>1. Fresh(m, K)
  BY PrefixKeysFresh DEF Fresh
<1>2. PICK f \in Grants(m, K) :
        o = IF ~AlreadyActive(m, S) /\ Fits(m, K, g)
            THEN Done(Taken(m, f))
            ELSE Raised(RolledBack(m, f), "RuntimeError")
  BY DEF AcquireOutcomes
<1>3. ~AlreadyActive(m, S) /\ Fits(m, K, g) /\ o.map = Taken(m, f)
  BY <1>2 DEF Raised, Done
<1>4. \A h \in Groups : Fits(m, K, h)
  <2>1. \A h \in Groups : h # g => Cardinality(K[h]) = 0
    BY FS_EmptySet
  <2>2. \A h \in Groups : Cardinality(m.cells[h].free) \in Nat
    <3> TAKE h \in Groups
    <3>1. m.cells[h].free \subseteq Blocks
      BY DEF MapOK, MapType, CellType
    <3> QED BY <3>1, FiniteAssumption, FS_Subset, FS_CardinalityType
  <2> QED BY <1>3, <2>1, <2>2 DEF Fits
<1>5. \A h \in Groups : Granted(m.cells[h], o.map.cells[h], K[h])
  <2> HIDE DEF K
  <2> QED BY <1>1, <1>3, <1>4, TakenGrants
<1>6. o.map.length = m.length /\ o.map.evicted = m.evicted
  BY <1>1, <1>3, TakenOK DEF MapOK
<1> QED BY <1>3, <1>5, <1>6

\* The plans' tables are those of a map t in which every group holds its
\* temporary blocks; the map itself is left as it was.
LEMMA BuildEffect ==
    ASSUME NEW m, MapOK(m), NEW S \in SUBSET Present(m),
           NEW o \in BuildOutcomes(m, S)
    PROVE  /\ o.map = m
           /\ o.raised # "none" => o.plan = NoPlan
           /\ o.raised = "none" =>
                /\ ~AlreadyActive(m, S)
                /\ \E t : /\ o.plan = [g \in Groups |-> [s \in S |-> BlockTable(t, g, s)]]
                          /\ \A g \in Groups :
                               Granted(m.cells[g], t.cells[g], PrefixKeys(m, S))
<1> DEFINE K == [g \in Groups |-> PrefixKeys(m, S)]
           Tables(t) == [g \in Groups |-> [s \in S |-> BlockTable(t, g, s)]]
<1>1. Fresh(m, K)
  BY PrefixKeysFresh DEF Fresh
<1>2. PICK f \in Grants(m, K) :
        o = IF ~AlreadyActive(m, S) /\ \A g \in Groups : Fits(m, K, g)
            THEN [map |-> RolledBack(m, f), raised |-> "none",
                  plan |-> Tables(Taken(m, f))]
            ELSE [map |-> RolledBack(m, f), raised |-> "RuntimeError",
                  plan |-> NoPlan]
  BY DEF BuildOutcomes
<1>3. RolledBack(m, f) = m
  BY <1>1, RolledBackOK DEF MapOK
<1> HIDE DEF Tables
<1>4. CASE ~AlreadyActive(m, S) /\ \A g \in Groups : Fits(m, K, g)
  <2>1. \A g \in Groups : Granted(m.cells[g], Taken(m, f).cells[g], K[g])
    <3> HIDE DEF K
    <3> QED BY <1>1, <1>4, TakenGrants
  <2>2. \A g \in Groups : Granted(m.cells[g], Taken(m, f).cells[g], PrefixKeys(m, S))
    BY <2>1
  <2>3. o.map = m /\ o.raised = "none" /\ o.plan = Tables(Taken(m, f))
    BY <1>2, <1>3, <1>4
  <2> QED BY <1>4, <2>2, <2>3 DEF Tables
<1>5. CASE ~(~AlreadyActive(m, S) /\ \A g \in Groups : Fits(m, K, g))
  BY <1>2, <1>3, <1>5
<1> QED BY <1>4, <1>5

-----------------------------------------------------------------------------
(* Which keys share a block.                                               *)

SameBlock(m, g, j, k) == m.cells[g].table[j] = m.cells[g].table[k]

KeptIn(m, g) == {k \in DOMAIN m.cells[g].table : k[1] = "kept"}

\* Kept keys share their blocks alike in all groups.
SharedAlike(m) ==
    \A g, h \in Groups : \A j, k \in KeptIn(m, g) :
      SameBlock(m, g, j, k) <=> SameBlock(m, h, j, k)

\* A temporary block has one key only.  Without this a tail that shares its
\* block with a temporary key of one group would be copied in that group alone.
TempsAlone(m) ==
    \A g \in Groups : \A j, k \in DOMAIN m.cells[g].table :
      j[1] = "temp" /\ SameBlock(m, g, j, k) => j = k

Sharing(m) == SharedAlike(m) /\ TempsAlone(m)

\* Every group keeps the same logical blocks, and no "copy" key outlives a call.
LEMMA KeptEverywhere ==
    ASSUME NEW m, MapOK(m), NEW g \in Groups, NEW k \in DOMAIN m.cells[g].table
    PROVE  /\ k \in Keys /\ k[1] \in {"kept", "temp"}
           /\ k[1] = "kept" => \A h \in Groups : k \in DOMAIN m.cells[h].table
<1>1. k \in Keys
  BY DEF MapOK, MapType, CellType
<1>2. /\ k = <<k[1], k[2], k[3]>> /\ k[1] \in {"kept", "temp", "copy"}
      /\ k[2] \in Seqs /\ k[3] \in LogicalBlocks
  BY <1>1, KeyForm
<1>3. \A h \in Groups :
        KeysInRange(DOMAIN m.cells[h].table, k[2], m.length[k[2]], m.evicted[k[2]])
  BY <1>2, SequenceFacts
<1>4. k[1] # "copy"
  BY <1>2, <1>3 DEF KeysInRange
<1>5. k[1] = "kept" => \A h \in Groups : k \in DOMAIN m.cells[h].table
  BY <1>2, <1>3 DEF KeysInRange
<1> QED BY <1>1, <1>2, <1>4, <1>5

\* Free blocks under new keys, the same kept ones in every group.
LEMMA GrantedSharing ==
    ASSUME NEW m, MapOK(m), Sharing(m), NEW x, MapOK(x), NEW D,
           \A g \in Groups : Granted(m.cells[g], x.cells[g], D[g]),
           \A g, h \in Groups : \A k \in D[g] : k[1] = "kept" => k \in D[h]
    PROVE  Sharing(x)
<1>1. \A g \in Groups : CellOK(m.cells[g])
  BY MapCells DEF MapOK
<1>2. ASSUME NEW g \in Groups, NEW j \in D[g], NEW k \in DOMAIN x.cells[g].table
      PROVE  SameBlock(x, g, j, k) <=> j = k
  BY <1>1, GrantedAlone DEF SameBlock
<1>3. ASSUME NEW g \in Groups,
             NEW j \in DOMAIN m.cells[g].table, NEW k \in DOMAIN m.cells[g].table
      PROVE  SameBlock(x, g, j, k) <=> SameBlock(m, g, j, k)
  BY DEF SameBlock, Granted
<1>4. \A g \in Groups : DOMAIN x.cells[g].table = DOMAIN m.cells[g].table \cup D[g]
  BY DEF Granted
<1>5. ASSUME NEW g \in Groups, NEW h \in Groups,
             NEW j \in KeptIn(x, g), NEW k \in KeptIn(x, g)
      PROVE  SameBlock(x, g, j, k) <=> SameBlock(x, h, j, k)
  <2>1. /\ j[1] = "kept" /\ j \in DOMAIN x.cells[g].table /\ j \in DOMAIN x.cells[h].table
        /\ k[1] = "kept" /\ k \in DOMAIN x.cells[g].table /\ k \in DOMAIN x.cells[h].table
    BY KeptEverywhere DEF KeptIn
  <2>2. CASE j \in D[g]
    <3>1. j \in D[h]
      BY <2>1, <2>2
    <3> QED BY <1>2, <2>1, <2>2, <3>1
  <2>3. CASE k \in D[g]
    <3>1. k \in D[h]
      BY <2>1, <2>3
    <3>2. SameBlock(x, g, k, j) <=> SameBlock(x, h, k, j)
      BY <1>2, <2>1, <2>3, <3>1
    <3> QED BY <3>2 DEF SameBlock
  <2>4. CASE j \in DOMAIN m.cells[g].table /\ k \in DOMAIN m.cells[g].table
    <3>1. j \in KeptIn(m, g) /\ k \in KeptIn(m, g)
      BY <2>1, <2>4 DEF KeptIn
    <3>2. SameBlock(m, g, j, k) <=> SameBlock(m, h, j, k)
      BY <3>1 DEF Sharing, SharedAlike
    <3>3. j \in DOMAIN m.cells[h].table /\ k \in DOMAIN m.cells[h].table
      BY <2>1, <2>4, KeptEverywhere
    <3> QED BY <1>3, <2>4, <3>2, <3>3
  <2> QED BY <1>4, <2>1, <2>2, <2>3, <2>4
<1>6. ASSUME NEW g \in Groups, NEW j \in DOMAIN x.cells[g].table,
             NEW k \in DOMAIN x.cells[g].table, j[1] = "temp", SameBlock(x, g, j, k)
      PROVE  j = k
  <2>1. CASE j \in D[g]
    BY <1>2, <1>6, <2>1
  <2>2. CASE k \in D[g]
    BY <1>2, <1>6, <2>2 DEF SameBlock
  <2>3. CASE j \in DOMAIN m.cells[g].table /\ k \in DOMAIN m.cells[g].table
    BY <1>3, <1>6, <2>3 DEF Sharing, TempsAlone
  <2> QED BY <1>4, <2>1, <2>2, <2>3
<1> QED BY <1>5, <1>6 DEF Sharing, SharedAlike, TempsAlone

\* A key that names the block some key named before keeps the relation.
LEMMA RenamedSharing ==
    ASSUME NEW m, MapOK(m), Sharing(m), NEW x, MapOK(x), NEW origin,
           \A g \in Groups : \A k \in DOMAIN x.cells[g].table :
             /\ origin[k] \in DOMAIN m.cells[g].table
             /\ x.cells[g].table[k] = m.cells[g].table[origin[k]]
             /\ k[1] = "kept" <=> origin[k][1] = "kept"
             /\ k[1] = "temp" => origin[k] = k
    PROVE  Sharing(x)
<1>1. ASSUME NEW g \in Groups, NEW h \in Groups,
             NEW j \in KeptIn(x, g), NEW k \in KeptIn(x, g)
      PROVE  SameBlock(x, g, j, k) <=> SameBlock(x, h, j, k)
  <2>1. /\ j[1] = "kept" /\ j \in DOMAIN x.cells[g].table /\ j \in DOMAIN x.cells[h].table
        /\ k[1] = "kept" /\ k \in DOMAIN x.cells[g].table /\ k \in DOMAIN x.cells[h].table
    BY KeptEverywhere DEF KeptIn
  <2>2. origin[j] \in KeptIn(m, g) /\ origin[k] \in KeptIn(m, g)
    BY <2>1 DEF KeptIn
  <2>3. SameBlock(m, g, origin[j], origin[k]) <=> SameBlock(m, h, origin[j], origin[k])
    BY <2>2 DEF Sharing, SharedAlike
  <2> QED BY <2>1, <2>3 DEF SameBlock
<1>2. ASSUME NEW g \in Groups, NEW j \in DOMAIN x.cells[g].table,
             NEW k \in DOMAIN x.cells[g].table, j[1] = "temp", SameBlock(x, g, j, k)
      PROVE  j = k
  <2>1. origin[j] = j /\ SameBlock(m, g, j, origin[k])
    BY <1>2 DEF SameBlock
  <2>2. j = origin[k]
    BY <1>2, <2>1 DEF Sharing, TempsAlone
  <2>3. k[1] = "temp"
    BY <1>2, <2>2, KeptEverywhere
  <2> QED BY <2>2, <2>3
<1> QED BY <1>1, <1>2 DEF Sharing, SharedAlike, TempsAlone

\* Dropping entries makes no two groups share differently.
LEMMA PrunedSharing ==
    ASSUME NEW m, MapOK(m), Sharing(m), NEW x, MapOK(x),
           \A g \in Groups : \E K : Pruned(m.cells[g], x.cells[g], K)
    PROVE  Sharing(x)
<1> DEFINE origin == [k \in Keys |-> k]
<1>1. \A g \in Groups : \A k \in DOMAIN x.cells[g].table :
        k \in Keys /\ k \in DOMAIN m.cells[g].table
        /\ x.cells[g].table[k] = m.cells[g].table[k]
  BY KeptEverywhere DEF Pruned
<1>2. \A k \in Keys : origin[k] = k
  OBVIOUS
<1> HIDE DEF origin
<1>3. \A g \in Groups : \A k \in DOMAIN x.cells[g].table :
        /\ origin[k] \in DOMAIN m.cells[g].table
        /\ x.cells[g].table[k] = m.cells[g].table[origin[k]]
        /\ k[1] = "kept" <=> origin[k][1] = "kept"
        /\ k[1] = "temp" => origin[k] = k
  BY <1>1, <1>2
<1> QED BY <1>3, RenamedSharing

\* fork_sequence makes the child share in all groups alike.
LEMMA ForkSharing ==
    ASSUME NEW m, MapOK(m), Sharing(m), NEW p \in Present(m), NEW s \in Seqs,
           NEW o \in ForkOutcomes(m, p, s), o.raised = "none"
    PROVE  Sharing(o.map)
<1> DEFINE x == o.map
           origin == [k \in Keys |-> IF k[2] = s THEN <<"kept", p, k[3]>> ELSE k]
<1>1. MapOK(x)
  BY ForkSafe DEF Safe
<1>2. \A g \in Groups : \A k \in DOMAIN x.cells[g].table :
        /\ k \in Keys
        /\ k[2] = s => /\ k[1] = "kept" /\ <<"kept", p, k[3]>> \in DOMAIN m.cells[g].table
                       /\ x.cells[g].table[k] = m.cells[g].table[<<"kept", p, k[3]>>]
        /\ k[2] # s => /\ k \in DOMAIN m.cells[g].table
                       /\ x.cells[g].table[k] = m.cells[g].table[k]
  BY <1>1, ForkEffect, KeptEverywhere
<1>3. \A k \in Keys : origin[k] = IF k[2] = s THEN <<"kept", p, k[3]>> ELSE k
  OBVIOUS
<1> HIDE DEF origin, x
<1>4. \A g \in Groups : \A k \in DOMAIN x.cells[g].table :
        /\ origin[k] \in DOMAIN m.cells[g].table
        /\ x.cells[g].table[k] = m.cells[g].table[origin[k]]
        /\ k[1] = "kept" <=> origin[k][1] = "kept"
        /\ k[1] = "temp" => origin[k] = k
  <2> TAKE g \in Groups
  <2> TAKE k \in DOMAIN x.cells[g].table
  <2>1. CASE k[2] = s
    <3>1. k \in Keys /\ k[1] = "kept" /\ <<"kept", p, k[3]>> \in DOMAIN m.cells[g].table
          /\ x.cells[g].table[k] = m.cells[g].table[<<"kept", p, k[3]>>]
      BY <1>2, <2>1
    <3>2. origin[k] = <<"kept", p, k[3]>>
      BY <1>3, <2>1, <3>1
    <3>3. origin[k][1] = "kept"
      BY <3>2
    <3> QED BY <3>1, <3>2, <3>3
  <2>2. CASE k[2] # s
    BY <1>2, <1>3, <2>2
  <2> QED BY <2>1, <2>2
<1> QED BY <1>1, <1>4, RenamedSharing DEF x

\* A shared tail is shared in every group, so all groups copy it or none does.
LEMMA TailSharedAlike ==
    ASSUME NEW m, MapOK(m), Sharing(m), NEW s \in Present(m),
           NEW g \in Groups, NEW h \in Groups, TailRefs(m, s, g) > 1
    PROVE  TailRefs(m, s, h) > 1
<1> DEFINE tail == TailKey(m, s)
<1>1. tail[1] = "kept" /\ \A i \in Groups : tail \in DOMAIN m.cells[i].table
                                            /\ CellOK(m.cells[i])
  BY TailFacts, MapCells DEF TailKey, MapOK
<1> HIDE DEF tail
<1>2. \A i \in Groups : TailRefs(m, s, i) > 1 <=>
        \E j \in DOMAIN m.cells[i].table : j # tail /\ SameBlock(m, i, j, tail)
  BY <1>1, CountTells DEF TailRefs, SameBlock, tail
<1>3. PICK j \in DOMAIN m.cells[g].table : j # tail /\ SameBlock(m, g, j, tail)
  BY <1>2
<1>4. j[1] = "kept"
  BY <1>1, <1>3, KeptEverywhere DEF Sharing, TempsAlone
<1>5. j \in DOMAIN m.cells[h].table
  BY <1>4, KeptEverywhere
<1>6. j \in KeptIn(m, g) /\ tail \in KeptIn(m, g)
  BY <1>1, <1>4 DEF KeptIn
<1>7. SameBlock(m, h, j, tail)
  BY <1>3, <1>6 DEF Sharing, SharedAlike
<1> QED BY <1>2, <1>3, <1>5, <1>7

\* A copy on write ends the sharing of the block in all groups.
LEMMA CopyOnWriteSharing ==
    ASSUME NEW m, MapOK(m), Sharing(m), NEW s \in Present(m), m.length[s] < MaxTokens,
           NumLogicalBlocks(m.length[s] + 1) = NumLogicalBlocks(m.length[s]),
           NEW o \in CopyOnWriteOutcomes(m, s), o.raised = "none"
    PROVE  Sharing(o.map)
<1> DEFINE x == o.map
           tail == TailKey(m, s)
<1>1. MapOK(x)
  BY CopyOnWriteSafe DEF Safe
<1>2. \A g \in Groups :
        \/ TailRefs(m, s, g) <= 1 /\ x.cells[g] = m.cells[g]
        \/ /\ TailRefs(m, s, g) > 1
           /\ DOMAIN x.cells[g].table = DOMAIN m.cells[g].table
           /\ \A k \in DOMAIN m.cells[g].table : k # tail =>
                x.cells[g].table[k] = m.cells[g].table[k]
           /\ x.cells[g].table[tail] \in m.cells[g].free
  BY CopyOnWriteEffect
<1>3. \A g \in Groups : /\ CellOK(m.cells[g]) /\ tail \in DOMAIN m.cells[g].table
                        /\ TailRefs(m, s, g) \in Nat
  <2> TAKE g \in Groups
  <2>1. CellOK(m.cells[g]) /\ tail \in DOMAIN m.cells[g].table
    BY MapCells, TailFacts DEF MapOK
  <2> QED BY <2>1, CountTells DEF TailRefs
<1>4. tail[1] = "kept"
  BY DEF TailKey
<1> HIDE DEF x, tail
<1>5. CASE \E g \in Groups : TailRefs(m, s, g) > 1
  <2>1. \A g \in Groups : TailRefs(m, s, g) > 1
    BY <1>5, TailSharedAlike
  <2>2. \A g \in Groups :
          /\ DOMAIN x.cells[g].table = DOMAIN m.cells[g].table
          /\ \A k \in DOMAIN m.cells[g].table : k # tail =>
               x.cells[g].table[k] = m.cells[g].table[k]
          /\ x.cells[g].table[tail] \in m.cells[g].free
    BY <1>2, <1>3, <2>1
  <2>3. ASSUME NEW g \in Groups, NEW k \in DOMAIN x.cells[g].table
        PROVE  SameBlock(x, g, tail, k) <=> tail = k
    <3>1. k # tail => x.cells[g].table[k] \notin m.cells[g].free
      BY <1>3, <2>2, CountTells
    <3> QED BY <2>2, <3>1 DEF SameBlock
  <2>4. ASSUME NEW g \in Groups, NEW j \in DOMAIN x.cells[g].table,
               NEW k \in DOMAIN x.cells[g].table, j # tail, k # tail
        PROVE  SameBlock(x, g, j, k) <=> SameBlock(m, g, j, k)
    BY <2>2, <2>4 DEF SameBlock
  <2>5. ASSUME NEW g \in Groups, NEW h \in Groups,
               NEW j \in KeptIn(x, g), NEW k \in KeptIn(x, g)
        PROVE  SameBlock(x, g, j, k) <=> SameBlock(x, h, j, k)
    <3>1. /\ j[1] = "kept" /\ j \in DOMAIN x.cells[g].table /\ j \in DOMAIN x.cells[h].table
          /\ k[1] = "kept" /\ k \in DOMAIN x.cells[g].table /\ k \in DOMAIN x.cells[h].table
      BY <1>1, KeptEverywhere DEF KeptIn
    <3>2. CASE j = tail
      BY <2>3, <3>1, <3>2
    <3>3. CASE k = tail
      <4>1. SameBlock(x, g, k, j) <=> SameBlock(x, h, k, j)
        BY <2>3, <3>1, <3>3
      <4> QED BY <4>1 DEF SameBlock
    <3>4. CASE j # tail /\ k # tail
      <4>1. j \in KeptIn(m, g) /\ k \in KeptIn(m, g)
        BY <2>2, <3>1 DEF KeptIn
      <4>2. SameBlock(m, g, j, k) <=> SameBlock(m, h, j, k)
        BY <4>1 DEF Sharing, SharedAlike
      <4> QED BY <2>4, <3>1, <3>4, <4>2
    <3> QED BY <3>2, <3>3, <3>4
  <2>6. ASSUME NEW g \in Groups, NEW j \in DOMAIN x.cells[g].table,
               NEW k \in DOMAIN x.cells[g].table, j[1] = "temp", SameBlock(x, g, j, k)
        PROVE  j = k
    <3>1. j # tail
      BY <1>4, <2>6
    <3>2. k # tail
      BY <2>3, <2>6, <3>1 DEF SameBlock
    <3>3. SameBlock(m, g, j, k)
      BY <2>4, <2>6, <3>1, <3>2
    <3> QED BY <2>2, <2>6, <3>3 DEF Sharing, TempsAlone
  <2>7. SharedAlike(x)
    BY <2>5 DEF SharedAlike
  <2>8. TempsAlone(x)
    BY <2>6 DEF TempsAlone
  <2> QED BY <2>7, <2>8 DEF Sharing, x
<1>6. CASE ~ \E g \in Groups : TailRefs(m, s, g) > 1
  <2>1. \A g \in Groups : x.cells[g] = m.cells[g]
    BY <1>2, <1>6
  <2>2. \A g \in Groups : /\ KeptIn(x, g) = KeptIn(m, g)
                          /\ \A j, k : SameBlock(x, g, j, k) <=> SameBlock(m, g, j, k)
    BY <2>1 DEF KeptIn, SameBlock
  <2>3. SharedAlike(x)
    BY <2>2 DEF Sharing, SharedAlike
  <2>4. TempsAlone(x)
    BY <2>1, <2>2 DEF Sharing, TempsAlone
  <2> QED BY <2>3, <2>4 DEF Sharing, x
<1> QED BY <1>5, <1>6

-----------------------------------------------------------------------------
(* What a call on one sequence leaves alone.                               *)

SameKeys(m, x, g, s) ==
    \A k \in Keys : k[2] = s =>
      /\ k \in DOMAIN x.cells[g].table <=> k \in DOMAIN m.cells[g].table
      /\ k \in DOMAIN m.cells[g].table => x.cells[g].table[k] = m.cells[g].table[k]

Untouched(m, x, s) ==
    /\ x.length[s] = m.length[s] /\ x.evicted[s] = m.evicted[s]
    /\ \A g \in Groups : SameKeys(m, x, g, s)

OthersUntouched(m, x, s) == \A t \in Seqs : t # s => Untouched(m, x, t)

\* The lengths of the other sequences stay.
LEMMA ResizedOthers ==
    ASSUME NEW m, MapOK(m), NEW x, NEW s \in Seqs, NEW n, NEW e, Resized(m, x, s, n, e),
           NEW t \in Seqs, t # s
    PROVE  x.length[t] = m.length[t] /\ x.evicted[t] = m.evicted[t]
  BY DEF Resized, MapOK, MapType

\* An extension leaves the other sequences alone.
LEMMA ExtendedOthers ==
    ASSUME NEW m, MapOK(m), NEW x, NEW s \in Seqs, NEW n, NEW e, Resized(m, x, s, n, e),
           NEW K, Extended(m, x, s, K)
    PROVE  OthersUntouched(m, x, s)
  BY ResizedOthers DEF OthersUntouched, Untouched, SameKeys, Extended, Granted

\* Dropping entries of one sequence leaves the others alone.
LEMMA PrunedOthers ==
    ASSUME NEW m, MapOK(m), NEW x, NEW s \in Seqs, NEW n, NEW e, Resized(m, x, s, n, e),
           \A g \in Groups :
             \E K : Pruned(m.cells[g], x.cells[g], K) /\ \A k \in K : k[2] = s
    PROVE  OthersUntouched(m, x, s)
<1> SUFFICES ASSUME NEW t \in Seqs, t # s, NEW g \in Groups
             PROVE  SameKeys(m, x, g, t)
  BY ResizedOthers DEF OthersUntouched, Untouched
<1>1. PICK K : Pruned(m.cells[g], x.cells[g], K) /\ \A k \in K : k[2] = s
  OBVIOUS
<1> QED BY <1>1 DEF Pruned, SameKeys

\* append_token leaves the other sequences alone.
LEMMA AppendOthers ==
    ASSUME NEW m, MapOK(m), NEW s \in Present(m), m.length[s] < MaxTokens,
           NEW o \in AppendOutcomes(m, s), o.raised = "none"
    PROVE  OthersUntouched(m, o.map, s)
<1>1. s \in Seqs
  BY DEF Present
<1>2. CASE NumLogicalBlocks(m.length[s] + 1) > NumLogicalBlocks(m.length[s])
  <2>1. o \in NewBlockOutcomes(m, s)
    BY <1>2 DEF AppendOutcomes
  <2>2. /\ Resized(m, o.map, s, m.length[s] + 1, m.evicted[s])
        /\ Extended(m, o.map, s, {<<"kept", s, NumLogicalBlocks(m.length[s])>>})
    BY <1>2, <2>1, NewBlockEffect
  <2> QED BY <1>1, <2>2, ExtendedOthers
<1>3. CASE ~(NumLogicalBlocks(m.length[s] + 1) > NumLogicalBlocks(m.length[s]))
  <2>1. o \in CopyOnWriteOutcomes(m, s)
    BY <1>3 DEF AppendOutcomes
  <2>2. Resized(m, o.map, s, m.length[s] + 1, m.evicted[s])
    BY <2>1, CopyOnWriteEffect
  <2>3. ASSUME NEW g \in Groups, NEW t \in Seqs, t # s
        PROVE  SameKeys(m, o.map, g, t)
    <3>1. TailKey(m, s)[2] = s
      BY DEF TailKey
    <3>2. CASE o.map.cells[g] = m.cells[g]
      BY <3>2 DEF SameKeys
    <3>3. CASE /\ DOMAIN o.map.cells[g].table = DOMAIN m.cells[g].table
               /\ \A k \in DOMAIN m.cells[g].table : k # TailKey(m, s) =>
                    o.map.cells[g].table[k] = m.cells[g].table[k]
      BY <2>3, <3>1, <3>3 DEF SameKeys
    <3> QED BY <2>1, <3>2, <3>3, CopyOnWriteEffect
  <2>4. \A t \in Seqs : t # s =>
          o.map.length[t] = m.length[t] /\ o.map.evicted[t] = m.evicted[t]
    BY <1>1, <2>2, ResizedOthers
  <2> QED BY <2>3, <2>4 DEF OthersUntouched, Untouched
<1> QED BY <1>2, <1>3

\* fork_sequence leaves the other sequences alone.
LEMMA ForkOthers ==
    ASSUME NEW m, MapOK(m), NEW p \in Present(m), NEW s \in Seqs,
           NEW o \in ForkOutcomes(m, p, s), o.raised = "none"
    PROVE  OthersUntouched(m, o.map, s)
<1>1. Resized(m, o.map, s, m.length[p], m.evicted[p])
  BY ForkEffect
<1>2. ASSUME NEW g \in Groups, NEW t \in Seqs, t # s
      PROVE  SameKeys(m, o.map, g, t)
  <2>1. /\ \A k \in DOMAIN m.cells[g].table :
             k \in DOMAIN o.map.cells[g].table
        /\ \A k \in DOMAIN o.map.cells[g].table :
             /\ k[2] = s =>
                  /\ k[1] = "kept" /\ <<"kept", p, k[3]>> \in DOMAIN m.cells[g].table
                  /\ o.map.cells[g].table[k]
                       = m.cells[g].table[<<"kept", p, k[3]>>]
             /\ k[2] # s => /\ k \in DOMAIN m.cells[g].table
                            /\ o.map.cells[g].table[k] = m.cells[g].table[k]
    BY ForkEffect
  <2> QED BY <1>2, <2>1 DEF SameKeys
<1>3. \A t \in Seqs : t # s =>
        o.map.length[t] = m.length[t] /\ o.map.evicted[t] = m.evicted[t]
  BY <1>1, ResizedOthers
<1> QED BY <1>2, <1>3 DEF OthersUntouched, Untouched

\* A sequence outside the batch, or without an evicted prefix, gets no
\* temporary block.
LEMMA PrefixKeysOthers ==
    ASSUME NEW m, MapOK(m), NEW S \in SUBSET Present(m), NEW t \in Seqs,
           t \notin S \/ m.evicted[t] = 0, NEW k \in PrefixKeys(m, S)
    PROVE  k[2] # t
<1>1. k \in Keys /\ k[1] = "temp"
  BY PrefixKeysFresh
<1>2. k = <<"temp", k[2], k[3]>> /\ k[2] \in Seqs /\ k[3] \in LogicalBlocks
  BY <1>1, KeyForm
<1>3. k[2] \in S /\ k[3] < m.evicted[k[2]]
  <2>1. <<"temp", k[2], k[3]>> \in PrefixKeys(m, S)
    BY <1>2
  <2> QED BY <1>2, <2>1, PrefixKeysFresh
<1>4. k[3] \in Nat
  BY <1>2 DEF LogicalBlocks
<1> QED BY <1>3, <1>4

\* The table of a sequence depends on its own keys alone.
LEMMA TableOfOwnKeys ==
    ASSUME NEW m, NEW x, NEW g \in Groups, NEW s \in Seqs, SameKeys(m, x, g, s)
    PROVE  BlockTable(x, g, s) = BlockTable(m, g, s)
<1>1. ASSUME NEW i \in {"kept", "temp"}, NEW l \in LogicalBlocks
      PROVE  /\ <<i, s, l>> \in DOMAIN x.cells[g].table
                  <=> <<i, s, l>> \in DOMAIN m.cells[g].table
             /\ <<i, s, l>> \in DOMAIN m.cells[g].table
                  => x.cells[g].table[<<i, s, l>>] = m.cells[g].table[<<i, s, l>>]
  <2>1. <<i, s, l>> \in Keys /\ <<i, s, l>>[2] = s
    BY KeyForm
  <2> QED BY <2>1 DEF SameKeys
<1>2. ASSUME NEW l \in LogicalBlocks
      PROVE  {<<"kept", s, l>>, <<"temp", s, l>>} \cap DOMAIN x.cells[g].table # {}
               <=> {<<"kept", s, l>>, <<"temp", s, l>>} \cap DOMAIN m.cells[g].table # {}
  BY <1>1
<1> DEFINE L(y) == {l \in LogicalBlocks :
                      {<<"kept", s, l>>, <<"temp", s, l>>} \cap DOMAIN y.cells[g].table # {}}
           V(y, l) == IF <<"temp", s, l>> \in DOMAIN y.cells[g].table
                      THEN y.cells[g].table[<<"temp", s, l>>]
                      ELSE y.cells[g].table[<<"kept", s, l>>]
<1>3. L(x) = L(m)
  BY <1>2
<1>4. \A l \in L(m) : V(x, l) = V(m, l)
  <2> TAKE l \in L(m)
  <2>1. l \in LogicalBlocks
        /\ (\/ <<"kept", s, l>> \in DOMAIN m.cells[g].table
            \/ <<"temp", s, l>> \in DOMAIN m.cells[g].table)
    OBVIOUS
  <2> QED BY <1>1, <2>1
<1>5. \A y : BlockTable(y, g, s) = [l \in L(y) |-> V(y, l)]
  BY DEF BlockTable
<1> HIDE DEF L, V
<1> QED BY <1>3, <1>4, <1>5

\* With its temporaries, or without an evicted prefix, a table has no gap.
LEMMA TableWhole ==
    ASSUME NEW m, MapOK(m), NEW t, NEW g \in Groups, NEW s \in Present(m),
           \A l \in LogicalBlocks :
             /\ <<"kept", s, l>> \in DOMAIN t.cells[g].table
                  <=> <<"kept", s, l>> \in DOMAIN m.cells[g].table
             /\ <<"temp", s, l>> \in DOMAIN t.cells[g].table <=> l < m.evicted[s]
    PROVE  DOMAIN BlockTable(t, g, s) = 0 .. NumLogicalBlocks(m.length[s]) - 1
<1> DEFINE N == NumLogicalBlocks(m.length[s])
           e == m.evicted[s]
<1>1. s \in Seqs /\ m.length[s] > 0
  BY DEF Present
<1>2. /\ N \in Nat /\ e \in Nat /\ e < N
      /\ \A l \in Nat : l < N => l \in LogicalBlocks
      /\ KeysInRange(DOMAIN m.cells[g].table, s, m.length[s], e)
  BY <1>1, SequenceFacts
<1>3. LogicalBlocks \subseteq Nat
  BY DEF LogicalBlocks
<1>4. \A l \in LogicalBlocks :
        {<<"kept", s, l>>, <<"temp", s, l>>} \cap DOMAIN t.cells[g].table # {}
          <=> (e <= l /\ l < N) \/ l < e
  <2> HIDE DEF N, e
  <2>1. \A l \in LogicalBlocks :
          <<"kept", s, l>> \in DOMAIN t.cells[g].table <=> e <= l /\ l < N
    BY <1>2 DEF KeysInRange, N
  <2>2. \A l \in LogicalBlocks :
          <<"temp", s, l>> \in DOMAIN t.cells[g].table <=> l < e
    BY DEF e
  <2> QED BY <2>1, <2>2
<1>5. DOMAIN BlockTable(t, g, s)
        = {l \in LogicalBlocks :
             {<<"kept", s, l>>, <<"temp", s, l>>} \cap DOMAIN t.cells[g].table # {}}
  BY DEF BlockTable
<1> HIDE DEF N, e
<1>6. \A l : l \in DOMAIN BlockTable(t, g, s) <=> l \in 0 .. N - 1
  <2>1. \A l : l \in DOMAIN BlockTable(t, g, s)
                 <=> l \in LogicalBlocks /\ ((e <= l /\ l < N) \/ l < e)
    BY <1>4, <1>5
  <2>2. \A l \in LogicalBlocks : (e <= l /\ l < N) \/ l < e <=> l < N
    BY <1>2, <1>3
  <2>3. \A l : l \in 0 .. N - 1 <=> l \in LogicalBlocks /\ l < N
    <3>1. N \in Nat /\ \A l \in Nat : l < N => l \in LogicalBlocks
      BY <1>2
    <3>2. ASSUME NEW l \in 0 .. N - 1 PROVE l \in LogicalBlocks /\ l < N
      <4>1. l \in Nat /\ l < N
        BY <3>1
      <4> QED BY <3>1, <4>1
    <3>3. ASSUME NEW l \in LogicalBlocks, l < N PROVE l \in 0 .. N - 1
      <4>1. l \in Nat
        BY <1>3
      <4> QED BY <3>1, <3>3, <4>1
    <3> QED BY <3>2, <3>3
  <2> QED BY <2>1, <2>2, <2>3
<1> QED BY <1>6 DEF N

-----------------------------------------------------------------------------
(* The block a token is written to, and the tables of a batch.             *)

\* After append_token the tail block of every group is the sequence's own.
LEMMA AppendTail ==
    ASSUME NEW m, MapOK(m), NEW s \in Present(m), m.length[s] < MaxTokens,
           NEW o \in AppendOutcomes(m, s), o.raised = "none", NEW g \in Groups
    PROVE  TailRefs(o.map, s, g) = 1
<1> DEFINE x == o.map
           n == m.length[s]
           tail == TailKey(x, s)
<1>1. s \in Seqs /\ n \in Nat /\ n > 0
  BY DEF Present, MapOK, MapType
<1>2. MapOK(x) /\ CellOK(x.cells[g]) /\ CellOK(m.cells[g])
  BY AppendSafe, MapCells DEF Safe, MapOK
<1>3. NumLogicalBlocks(n) \in Nat
      /\ NumLogicalBlocks(n + 1) \in {NumLogicalBlocks(n), NumLogicalBlocks(n) + 1}
  BY <1>1, BlocksStep
<1>4. SUFFICES ASSUME x.length[s] = n + 1,
                      tail \in DOMAIN x.cells[g].table
               PROVE  \/ TailRefs(x, s, g) <= 1
                      \/ \A k \in DOMAIN x.cells[g].table :
                           x.cells[g].table[k] = x.cells[g].table[tail] => k = tail
  <2>1. x.length[s] = n + 1
    <3>1. Resized(m, x, s, n + 1, m.evicted[s])
      BY NewBlockEffect, CopyOnWriteEffect DEF AppendOutcomes
    <3> QED BY <1>1, <3>1 DEF Resized, MapOK, MapType
  <2>2. s \in Present(x)
    BY <1>1, <2>1 DEF Present
  <2>3. tail \in DOMAIN x.cells[g].table
    BY <1>2, <2>2, TailFacts
  <2>4. /\ TailRefs(x, s, g) \in Nat /\ TailRefs(x, s, g) >= 1
        /\ TailRefs(x, s, g) > 1 <=>
             \E k \in DOMAIN x.cells[g].table :
               k # tail /\ x.cells[g].table[k] = x.cells[g].table[tail]
    BY <1>2, <2>3, CountTells DEF TailRefs
  <2> HIDE DEF x, tail
  <2>5. TailRefs(x, s, g) <= 1
    BY <2>1, <2>3, <2>4, <1>4
  <2> QED BY <2>4, <2>5 DEF x
<1>5. CASE NumLogicalBlocks(n + 1) > NumLogicalBlocks(n)
  <2> DEFINE key == <<"kept", s, NumLogicalBlocks(n)>>
  <2>1. /\ Extended(m, x, s, {key})
        /\ NumLogicalBlocks(n + 1) = NumLogicalBlocks(n) + 1
    BY <1>5, NewBlockEffect DEF AppendOutcomes
  <2>2. tail = key
    BY <1>3, <1>4, <2>1 DEF TailKey
  <2>3. Granted(m.cells[g], x.cells[g], {key})
    BY <2>1 DEF Extended
  <2> HIDE DEF key, tail, x
  <2>4. \A k \in DOMAIN x.cells[g].table :
          x.cells[g].table[k] = x.cells[g].table[tail] => k = tail
    BY <1>2, <2>2, <2>3, GrantedAlone
  <2> QED BY <2>4
<1>6. CASE ~(NumLogicalBlocks(n + 1) > NumLogicalBlocks(n))
  <2>1. NumLogicalBlocks(n + 1) = NumLogicalBlocks(n)
    BY <1>3, <1>6
  <2>2. tail = TailKey(m, s)
    BY <1>4, <2>1 DEF TailKey
  <2>3. \/ TailRefs(m, s, g) <= 1 /\ x.cells[g] = m.cells[g]
        \/ /\ TailRefs(m, s, g) > 1
           /\ DOMAIN x.cells[g].table = DOMAIN m.cells[g].table
           /\ \A k \in DOMAIN m.cells[g].table : k # TailKey(m, s) =>
                x.cells[g].table[k] = m.cells[g].table[k]
           /\ x.cells[g].table[TailKey(m, s)] \in m.cells[g].free
    BY <1>6, CopyOnWriteEffect DEF AppendOutcomes
  <2>4. CASE TailRefs(m, s, g) <= 1 /\ x.cells[g] = m.cells[g]
    BY <2>2, <2>4 DEF TailRefs
  <2>5. CASE /\ DOMAIN x.cells[g].table = DOMAIN m.cells[g].table
             /\ \A k \in DOMAIN m.cells[g].table : k # TailKey(m, s) =>
                  x.cells[g].table[k] = m.cells[g].table[k]
             /\ x.cells[g].table[TailKey(m, s)] \in m.cells[g].free
    <3> HIDE DEF x, tail
    <3>1. \A k \in DOMAIN x.cells[g].table :
            k # tail => x.cells[g].table[k] \notin m.cells[g].free
      BY <1>2, <2>2, <2>5, CountTells
    <3> QED BY <2>2, <2>5, <3>1
  <2> QED BY <2>3, <2>4, <2>5
<1> QED BY <1>5, <1>6

\* The temporary keys of a batch that was not under recompute, with those of
\* its prefixes granted, are exactly its prefixes.
LEMMA PrefixesGranted ==
    ASSUME NEW m, MapOK(m), NEW S \in SUBSET Present(m), ~AlreadyActive(m, S),
           NEW t, NEW g \in Groups, Granted(m.cells[g], t.cells[g], PrefixKeys(m, S)),
           NEW s \in S, NEW l \in LogicalBlocks
    PROVE  /\ <<"kept", s, l>> \in DOMAIN t.cells[g].table
                <=> <<"kept", s, l>> \in DOMAIN m.cells[g].table
           /\ <<"temp", s, l>> \in DOMAIN t.cells[g].table <=> l < m.evicted[s]
           /\ l < m.evicted[s] => <<"temp", s, l>> \in PrefixKeys(m, S)
<1> DEFINE P == PrefixKeys(m, S)
<1>1. s \in Seqs /\ m.evicted[s] \in Nat /\ l \in Nat
      /\ KeysInRange(DOMAIN m.cells[g].table, s, m.length[s], m.evicted[s])
  BY SequenceFacts DEF Present, LogicalBlocks
<1>2. DOMAIN t.cells[g].table = DOMAIN m.cells[g].table \cup P
  BY DEF Granted
<1>3. <<"kept", s, l>> \notin P
  <2>1. <<"kept", s, l>>[1] = "kept"
    OBVIOUS
  <2> HIDE DEF P
  <2>2. \A k \in P : k[1] = "temp"
    BY PrefixKeysFresh DEF P
  <2> QED BY <2>1, <2>2
<1>4. <<"temp", s, l>> \in P <=> ~Recomputing(m, {s}) /\ l < m.evicted[s]
  BY <1>1, PrefixKeysFresh
<1>5. <<"temp", s, l>> \in DOMAIN m.cells[g].table => l < m.evicted[s] /\ Recomputing(m, {s})
  BY <1>1 DEF KeysInRange, Recomputing, Entries
<1>6. l < m.evicted[s] => ~Recomputing(m, {s})
  <2>1. \A u \in S : ~(m.evicted[u] > 0 /\ Recomputing(m, {u}))
    BY Zenon DEF AlreadyActive
  <2>2. l < m.evicted[s] => m.evicted[s] > 0
    BY <1>1
  <2> QED BY <2>1, <2>2
<1> QED BY <1>2, <1>3, <1>4, <1>5, <1>6

\* A recompute target of one sequence is in no other place of the batch.
LEMMA BatchTables ==
    ASSUME NEW m, MapOK(m), NEW S \in SUBSET Present(m), ~AlreadyActive(m, S),
           NEW t, NEW g \in Groups, Granted(m.cells[g], t.cells[g], PrefixKeys(m, S)),
           NEW s \in S
    PROVE  /\ DOMAIN BlockTable(t, g, s) = 0 .. NumLogicalBlocks(m.length[s]) - 1
           /\ \A l \in 0 .. m.evicted[s] - 1 :
                /\ BlockTable(t, g, s)[l] \in m.cells[g].free
                /\ \A u \in S, i \in LogicalBlocks :
                     <<u, i>> # <<s, l>> /\ i \in DOMAIN BlockTable(t, g, u)
                       => BlockTable(t, g, u)[i] # BlockTable(t, g, s)[l]
<1> DEFINE tab == t.cells[g].table
           P == PrefixKeys(m, S)
<1>1. DOMAIN BlockTable(t, g, s) = 0 .. NumLogicalBlocks(m.length[s]) - 1
  <2>1. \A l \in LogicalBlocks :
          /\ <<"kept", s, l>> \in DOMAIN t.cells[g].table
               <=> <<"kept", s, l>> \in DOMAIN m.cells[g].table
          /\ <<"temp", s, l>> \in DOMAIN t.cells[g].table <=> l < m.evicted[s]
    BY PrefixesGranted
  <2> QED BY <2>1, TableWhole
<1>2. ASSUME NEW u \in S, NEW i \in DOMAIN BlockTable(t, g, u)
      PROVE  /\ i \in LogicalBlocks
             /\ BlockTable(t, g, u)[i] = tab[IF <<"temp", u, i>> \in DOMAIN tab
                                             THEN <<"temp", u, i>> ELSE <<"kept", u, i>>]
             /\ (IF <<"temp", u, i>> \in DOMAIN tab
                 THEN <<"temp", u, i>> ELSE <<"kept", u, i>>) \in DOMAIN tab
  BY DEF BlockTable
<1>3. ASSUME NEW l \in 0 .. m.evicted[s] - 1
      PROVE  /\ l \in DOMAIN BlockTable(t, g, s) /\ l \in LogicalBlocks
             /\ <<"temp", s, l>> \in DOMAIN tab /\ <<"temp", s, l>> \in P
             /\ BlockTable(t, g, s)[l] = tab[<<"temp", s, l>>]
  <2>1. s \in Seqs /\ m.length[s] > 0
    BY DEF Present
  <2>2. /\ m.evicted[s] \in Nat /\ NumLogicalBlocks(m.length[s]) \in Nat
        /\ m.evicted[s] < NumLogicalBlocks(m.length[s])
    BY <2>1, SequenceFacts
  <2>3. l \in 0 .. NumLogicalBlocks(m.length[s]) - 1 /\ l < m.evicted[s]
    BY <2>2
  <2>4. l \in DOMAIN BlockTable(t, g, s) /\ l \in LogicalBlocks
    BY <1>1, <1>2, <2>3
  <2>5. <<"temp", s, l>> \in DOMAIN tab /\ <<"temp", s, l>> \in P
    BY <2>3, <2>4, PrefixesGranted
  <2>6. BlockTable(t, g, s)[l] = tab[<<"temp", s, l>>]
    BY <1>2, <2>4, <2>5
  <2> QED BY <2>4, <2>5, <2>6
<1> HIDE DEF tab, P
<1>4. CellOK(m.cells[g])
  BY MapCells DEF MapOK
<1>5. ASSUME NEW l \in 0 .. m.evicted[s] - 1, NEW u \in S,
             NEW i \in DOMAIN BlockTable(t, g, u), <<u, i>> # <<s, l>>
      PROVE  BlockTable(t, g, u)[i] # BlockTable(t, g, s)[l]
  <2> DEFINE k == IF <<"temp", u, i>> \in DOMAIN tab
                  THEN <<"temp", u, i>> ELSE <<"kept", u, i>>
  <2>1. BlockTable(t, g, u)[i] = tab[k] /\ k \in DOMAIN tab
    BY <1>2
  <2>2. k # <<"temp", s, l>>
    BY <1>5
  <2> HIDE DEF k
  <2>3. tab[<<"temp", s, l>>] # tab[k]
    <3>1. Granted(m.cells[g], t.cells[g], P) /\ <<"temp", s, l>> \in P
      BY <1>3 DEF P
    <3> QED BY <1>4, <2>1, <2>2, <3>1, GrantedAlone DEF tab
  <2> QED BY <1>3, <2>1, <2>3
<1>6. \A l \in 0 .. m.evicted[s] - 1 : BlockTable(t, g, s)[l] \in m.cells[g].free
  BY <1>3 DEF Granted, tab, P
<1> QED BY <1>1, <1>5, <1>6

-----------------------------------------------------------------------------
(* How many blocks a call takes.                                           *)

FreeCount(m, g) == Cardinality(m.cells[g].free)

\* A block is free when no entry names it.
LEMMA FreeIs ==
    ASSUME NEW c, CellOK(c)
    PROVE  /\ c.free = {b \in Blocks : \A k \in DOMAIN c.table : c.table[k] # b}
           /\ IsFiniteSet(c.free) /\ Cardinality(c.free) \in Nat
<1>1. ASSUME NEW b \in Blocks
      PROVE  b \in c.free <=> \A k \in DOMAIN c.table : c.table[k] # b
  <2> DEFINE U == Users(c, DOMAIN c.table, b)
  <2>1. b \in c.free <=> Cardinality(U) = 0
    BY DEF CellOK, CellRefsExact
  <2>2. IsFiniteSet(U)
    BY KeysFinite, FS_Subset DEF Users, CellOK, CellType
  <2>3. U = {} <=> \A k \in DOMAIN c.table : c.table[k] # b
    BY DEF Users
  <2> HIDE DEF U
  <2> QED BY <2>1, <2>2, <2>3, FS_EmptySet
<1>2. c.free \in SUBSET Blocks
  BY DEF CellOK, CellType
<1> QED BY <1>1, <1>2, FiniteAssumption, FS_Subset, FS_CardinalityType

\* A pool has as many free blocks fewer as it was granted.
LEMMA GrantedCount ==
    ASSUME NEW c, CellOK(c), NEW d, CellOK(d), NEW D \in SUBSET Keys, Granted(c, d, D)
    PROVE  /\ IsFiniteSet(D) /\ Cardinality(D) \in Nat
           /\ Cardinality(c.free) = Cardinality(d.free) + Cardinality(D)
<1> DEFINE T == {d.table[k] : k \in D}
           F == [k \in D |-> d.table[k]]
<1>1. IsFiniteSet(D) /\ Cardinality(D) \in Nat
  BY KeysFinite, FS_Subset, FS_CardinalityType
<1>2. IsFiniteSet(T) /\ Cardinality(T) = Cardinality(D)
  <2>1. F \in Bijection(D, T)
    <3>1. \A j, k \in D : F[j] = F[k] => j = k
      BY DEF Granted
    <3>2. F \in [D -> T] /\ \A b \in T : \E k \in D : F[k] = b
      OBVIOUS
    <3> HIDE DEF F, T
    <3> QED BY <3>1, <3>2 DEF Bijection, Injection, Surjection, IsInjective
  <2>2. ExistsBijection(D, T)
    BY <2>1 DEF ExistsBijection
  <2> HIDE DEF T
  <2> QED BY <1>1, <2>2, FS_Bijection
<1>3. /\ \A b : b \in c.free <=> b \in Blocks /\ \A k \in DOMAIN c.table : c.table[k] # b
      /\ \A b : b \in d.free <=> b \in Blocks /\ \A k \in DOMAIN d.table : d.table[k] # b
      /\ IsFiniteSet(d.free)
  BY FreeIs
<1>4. c.free = d.free \cup T /\ d.free \cap T = {}
  <2>1. T \subseteq c.free
    BY DEF Granted
  <2>2. ASSUME NEW b \in d.free
        PROVE  b \in c.free /\ b \notin T
    BY <1>3, <2>2 DEF Granted
  <2>3. ASSUME NEW b \in c.free, b \notin T
        PROVE  b \in d.free
    BY <1>3, <2>3 DEF Granted
  <2> QED BY <2>1, <2>2, <2>3
<1> HIDE DEF T
<1> QED BY <1>1, <1>2, <1>3, <1>4, DisjointCount

\* A pool in which one shared entry moved to a free block has one free block fewer.
LEMMA MovedCount ==
    ASSUME NEW c, CellOK(c), NEW d, CellOK(d), NEW tail \in DOMAIN c.table,
           c.refs[c.table[tail]] > 1,
           DOMAIN d.table = DOMAIN c.table,
           \A k \in DOMAIN c.table : k # tail => d.table[k] = c.table[k],
           d.table[tail] \in c.free
    PROVE  Cardinality(c.free) = Cardinality(d.free) + 1
<1> DEFINE b == d.table[tail]
<1>1. PICK j \in DOMAIN c.table : j # tail /\ c.table[j] = c.table[tail]
  BY CountTells
<1>2. /\ \A x : x \in c.free <=> x \in Blocks /\ \A k \in DOMAIN c.table : c.table[k] # x
      /\ \A x : x \in d.free <=> x \in Blocks /\ \A k \in DOMAIN d.table : d.table[k] # x
      /\ IsFiniteSet(d.free) /\ Cardinality(d.free) \in Nat
  BY FreeIs
<1>3. c.free = d.free \cup {b} /\ b \notin d.free
  <2>1. b \notin d.free
    BY <1>2
  <2>2. ASSUME NEW x \in d.free
        PROVE  x \in c.free
    <3>1. x \in Blocks /\ \A k \in DOMAIN c.table : d.table[k] # x
      BY <1>2, <2>2
    <3>2. \A k \in DOMAIN c.table : k # tail => c.table[k] # x
      BY <3>1
    <3> QED BY <1>1, <1>2, <3>1, <3>2
  <2>3. ASSUME NEW x \in c.free, x # b
        PROVE  x \in d.free
    <3>1. x \in Blocks /\ \A k \in DOMAIN c.table : c.table[k] # x
      BY <1>2, <2>3
    <3>2. \A k \in DOMAIN c.table : d.table[k] # x
      BY <2>3, <3>1
    <3> QED BY <1>2, <3>1, <3>2
  <2> QED BY <2>1, <2>2, <2>3
<1> HIDE DEF b
<1>4. Cardinality(d.free \cup {b}) = Cardinality(d.free) + 1
  BY <1>2, <1>3, FS_AddElement
<1> QED BY <1>3, <1>4

\* The keys of one sequence, counted.
LEMMA KeysCount ==
    ASSUME NEW s, NEW S, S = {s}, NEW L, IsFiniteSet(L)
    PROVE  /\ IsFiniteSet(KeysOf("kept", S, L))
           /\ Cardinality(KeysOf("kept", S, L)) = Cardinality(L)
<1> DEFINE K == KeysOf("kept", S, L)
           F == [l \in L |-> <<"kept", s, l>>]
<1>1. F \in Bijection(L, K)
  <2>1. \A l \in L : F[l] = <<"kept", s, l>> /\ F[l] \in K
    BY DEF KeysOf
  <2>2. \A k \in K : \E l \in L : F[l] = k
    BY DEF KeysOf
  <2>3. \A i, j \in L : F[i] = F[j] => i = j
    BY <2>1
  <2>4. F \in [L -> K]
    BY <2>1
  <2> HIDE DEF F, K
  <2> QED BY <2>2, <2>3, <2>4 DEF Bijection, Injection, Surjection, IsInjective
<1>2. ExistsBijection(L, K)
  BY <1>1 DEF ExistsBijection
<1> HIDE DEF K
<1>3. IsFiniteSet(K) /\ Cardinality(K) = Cardinality(L)
  BY <1>2, FS_Bijection
<1> QED BY <1>3 DEF K

\* An allocation that there are blocks for in every group does not raise, and takes
\* as many.
LEMMA AllocateCount ==
    ASSUME NEW m, MapOK(m), NEW s \in Seqs, s \notin Present(m),
           NEW n \in 1 .. MaxTokens, NEW e \in Nat, e < NumLogicalBlocks(n),
           NEW size \in Nat, size = NumLogicalBlocks(n) - e,
           \A g \in Groups : size <= FreeCount(m, g),
           NEW o \in AllocateOutcomes(m, s, n, e)
    PROVE  /\ o.raised = "none"
           /\ \A g \in Groups : FreeCount(m, g) = FreeCount(o.map, g) + size
<1> DEFINE D == KeysOf("kept", {s}, e .. NumLogicalBlocks(n) - 1)
           K == [g \in Groups |-> D]
<1>1. NumLogicalBlocks(n) \in Nat /\ n \in 0 .. MaxTokens
  BY BlocksStep, SizesAssumption
<1>2. IsFiniteSet(D) /\ Cardinality(D) = size
  <2>1. PICK N \in Int : N = NumLogicalBlocks(n) - 1 /\ e <= N /\ size = N - e + 1
    BY <1>1
  <2>2. IsFiniteSet(e .. N) /\ Cardinality(e .. N) = size
    BY <2>1, FS_Interval
  <2>3. PICK L, S : L = e .. N /\ S = {s}
    OBVIOUS
  <2>4. D = KeysOf("kept", S, L)
    BY <2>1, <2>3
  <2> HIDE DEF D
  <2> QED BY <2>2, <2>3, <2>4, KeysCount
<1>3. PICK f \in Grants(m, K) :
        o = IF \A g \in Groups : Fits(m, K, g)
            THEN Done(With(m, Taken(m, f).cells, s, n, e))
            ELSE Raised(RolledBack(m, f), "RuntimeError")
  BY DEF AllocateOutcomes
<1>4. o.raised = "none"
  <2> HIDE DEF D
  <2>1. \A g \in Groups : Fits(m, K, g)
    BY <1>2 DEF Fits, FreeCount
  <2> QED BY <1>3, <2>1 DEF Done
<1>5. PICK x : x = o.map
  OBVIOUS
<1>6. MapOK(x) /\ Extended(m, x, s, D)
  BY <1>4, <1>5, AllocateSafe, AllocateEffect DEF Safe
<1>7. D \in SUBSET Keys
  <2>1. \A l \in e .. NumLogicalBlocks(n) - 1 : l \in LogicalBlocks
    BY <1>1, LengthBlocks
  <2> QED BY <2>1 DEF KeysOf, Keys
<1> HIDE DEF D
<1>8. ASSUME NEW g \in Groups
      PROVE  Cardinality(m.cells[g].free) = Cardinality(x.cells[g].free) + size
  BY <1>2, <1>6, <1>7, GrantedCount, MapCells DEF Extended, MapOK
<1> QED BY <1>4, <1>5, <1>8 DEF FreeCount

\* The sequence that was resized, and the others.
LEMMA ResizedOne ==
    ASSUME NEW m, MapOK(m), NEW x, NEW s \in Seqs, NEW n, NEW e, Resized(m, x, s, n, e)
    PROVE  /\ x.length[s] = n /\ x.evicted[s] = e
           /\ \A t \in Seqs \ {s} : x.length[t] = m.length[t] /\ x.evicted[t] = m.evicted[t]
  BY DEF Resized, MapOK, MapType

\* append_token takes a block in group g.
Needs(m, s, g) ==
    NumLogicalBlocks(m.length[s] + 1) > NumLogicalBlocks(m.length[s]) \/ TailRefs(m, s, g) > 1

\* An append that there is a block for in every group that needs one does not
\* raise, and takes these.
LEMMA AppendCount ==
    ASSUME NEW m, MapOK(m), NEW s \in Present(m), m.length[s] < MaxTokens,
           \A g \in Groups : Needs(m, s, g) => FreeCount(m, g) >= 1,
           NEW o \in AppendOutcomes(m, s)
    PROVE  /\ o.raised = "none"
           /\ \A g \in Groups :
                FreeCount(m, g) = FreeCount(o.map, g) + IF Needs(m, s, g) THEN 1 ELSE 0
<1> DEFINE N == NumLogicalBlocks(m.length[s])
<1>1. \A g \in Groups : CellOK(m.cells[g]) /\ FreeCount(m, g) \in Nat
  BY MapCells, FreeIs DEF MapOK, FreeCount
<1>2. CASE NumLogicalBlocks(m.length[s] + 1) > N
  <2> DEFINE key == <<"kept", s, N>>
             K == [g \in Groups |-> {key}]
  <2>1. o \in NewBlockOutcomes(m, s) /\ \A g \in Groups : Needs(m, s, g)
    BY <1>2 DEF AppendOutcomes, Needs
  <2>2. (\A g \in Groups : Fits(m, K, g)) => \E y : o = Done(y)
    <3> HIDE DEF K
    <3>1. \E f \in Grants(m, K) :
            o = IF \A g \in Groups : Fits(m, K, g)
                THEN Done(With(m, Taken(m, f).cells, s, m.length[s] + 1, m.evicted[s]))
                ELSE Raised(RolledBack(m, f), "RuntimeError")
      BY <2>1 DEF NewBlockOutcomes, K
    <3> QED BY <3>1
  <2>3. IsFiniteSet({key}) /\ Cardinality({key}) = 1
    BY FS_Singleton
  <2>4. o.raised = "none"
    <3> HIDE DEF key
    <3>1. \A g \in Groups : Fits(m, K, g)
      BY <2>1, <2>3 DEF Fits, FreeCount
    <3> HIDE DEF K
    <3> QED BY <2>2, <3>1 DEF Done
  <2>5. PICK x : x = o.map
    OBVIOUS
  <2>6. MapOK(x) /\ Extended(m, x, s, {key})
    BY <1>2, <2>1, <2>4, <2>5, AppendSafe, NewBlockEffect DEF Safe
  <2>7. {key} \in SUBSET Keys
    <3>1. TailKey(x, s) \in Keys /\ x.length[s] = m.length[s] + 1
          /\ NumLogicalBlocks(m.length[s] + 1) = N + 1 /\ N \in Nat
      <4>1. x.length[s] = m.length[s] + 1 /\ s \in Seqs /\ m.length[s] \in Nat
        <5>1. Resized(m, x, s, m.length[s] + 1, m.evicted[s])
          BY <1>2, <2>1, <2>4, <2>5, NewBlockEffect
        <5>2. s \in Seqs /\ m.length[s] \in Nat
          BY DEF MapOK, MapType, Present
        <5> QED BY <5>1, <5>2, ResizedOne
      <4>2. s \in Present(x)
        BY <4>1 DEF Present
      <4> QED BY <1>2, <2>1, <2>4, <2>6, <4>1, <4>2, TailFacts, NewBlockEffect, BlocksStep
    <3>2. TailKey(x, s) = key
      BY <3>1 DEF TailKey
    <3> QED BY <3>1, <3>2
  <2> HIDE DEF key
  <2>8. ASSUME NEW g \in Groups
        PROVE  Cardinality(m.cells[g].free) = Cardinality(x.cells[g].free) + 1
    <3>1. PICK D \in SUBSET Keys : D = {key}
      BY <2>7
    <3>2. Granted(m.cells[g], x.cells[g], D)
      BY <2>6, <3>1 DEF Extended
    <3>3. CellOK(m.cells[g]) /\ CellOK(x.cells[g])
      BY <2>6, MapCells DEF MapOK
    <3> QED BY <2>3, <3>1, <3>2, <3>3, GrantedCount
  <2> QED BY <2>1, <2>4, <2>5, <2>8 DEF FreeCount
<1>3. CASE ~(NumLogicalBlocks(m.length[s] + 1) > N)
  <2> DEFINE tail == TailKey(m, s)
             copy == <<"copy", s, tail[3]>>
             K == [g \in Groups |-> IF TailRefs(m, s, g) > 1 THEN {copy} ELSE {}]
  <2>1. o \in CopyOnWriteOutcomes(m, s) /\ \A g \in Groups : Needs(m, s, g) <=> TailRefs(m, s, g) > 1
    BY <1>3 DEF AppendOutcomes, Needs
  <2>2. (\A g \in Groups : Fits(m, K, g)) => o.raised = "none"
    <3> DEFINE Switched(c, f) == Added(Dropped(c, {tail}), [k \in {tail} |-> f[copy]])
               Left(f) == With(m, [g \in Groups |-> IF K[g] = {} THEN m.cells[g]
                                                    ELSE Switched(m.cells[g], f[g])],
                               s, m.length[s] + 1, m.evicted[s])
    <3>1. \E f \in Grants(m, K) : o = IF \A g \in Groups : Fits(m, K, g)
                                      THEN Done(Left(f))
                                      ELSE Raised(RolledBack(m, f), "RuntimeError")
      BY <2>1 DEF CopyOnWriteOutcomes
    <3> HIDE DEF K, Left
    <3> QED BY <3>1 DEF Done
  <2>3. /\ IsFiniteSet({copy}) /\ Cardinality({copy}) = 1
        /\ Cardinality({}) = 0
    BY FS_Singleton, FS_EmptySet
  <2>4. \A g \in Groups : Fits(m, K, g)
    <3> HIDE DEF copy
    <3> SUFFICES ASSUME NEW g \in Groups
                 PROVE  Fits(m, K, g)
      OBVIOUS
    <3>1. CASE TailRefs(m, s, g) > 1
      BY <2>1, <2>3, <3>1 DEF Fits, FreeCount
    <3>2. CASE ~(TailRefs(m, s, g) > 1)
      <4>1. K[g] = {} /\ FreeCount(m, g) \in Nat
        BY <1>1, <3>2
      <4> QED BY <2>3, <4>1 DEF Fits, FreeCount
    <3> QED BY <3>1, <3>2
  <2>5. PICK x : x = o.map
    OBVIOUS
  <2>6. o.raised = "none" /\ MapOK(x)
    BY <2>2, <2>4, <2>5, AppendSafe DEF Safe
  <2>7. ASSUME NEW g \in Groups
        PROVE  FreeCount(m, g) = FreeCount(x, g) + IF Needs(m, s, g) THEN 1 ELSE 0
    <3>1. \/ TailRefs(m, s, g) <= 1 /\ x.cells[g] = m.cells[g]
          \/ /\ TailRefs(m, s, g) > 1
             /\ DOMAIN x.cells[g].table = DOMAIN m.cells[g].table
             /\ \A k \in DOMAIN m.cells[g].table : k # tail =>
                  x.cells[g].table[k] = m.cells[g].table[k]
             /\ x.cells[g].table[tail] \in m.cells[g].free
      BY <2>1, <2>5, <2>6, CopyOnWriteEffect
    <3>2. /\ CellOK(m.cells[g]) /\ CellOK(x.cells[g])
          /\ tail \in DOMAIN m.cells[g].table
          /\ TailRefs(m, s, g) = m.cells[g].refs[m.cells[g].table[tail]]
          /\ TailRefs(m, s, g) \in Nat
      BY <2>6, TailFacts, MapCells, CountTells DEF MapOK, TailRefs
    <3> HIDE DEF tail
    <3>3. CASE TailRefs(m, s, g) <= 1
      <4>1. x.cells[g] = m.cells[g] /\ ~Needs(m, s, g) /\ FreeCount(m, g) \in Nat
        BY <1>1, <2>1, <3>1, <3>2, <3>3
      <4> QED BY <4>1 DEF FreeCount
    <3>4. CASE TailRefs(m, s, g) > 1
      <4>1. Cardinality(m.cells[g].free) = Cardinality(x.cells[g].free) + 1
        BY <3>1, <3>2, <3>4, MovedCount
      <4> QED BY <2>1, <3>4, <4>1 DEF FreeCount
    <3> QED BY <3>2, <3>3, <3>4
  <2> QED BY <2>5, <2>6, <2>7
<1> QED BY <1>2, <1>3

\* A quotient by its bounds.
LEMMA QuotientIs ==
    ASSUME NEW k \in Nat, NEW j \in Nat, k >= BlockSize * j, k < BlockSize * j + BlockSize
    PROVE  k \div BlockSize = j
<1>1. /\ k \div BlockSize \in Nat /\ k % BlockSize \in 0 .. BlockSize - 1
      /\ k = BlockSize * (k \div BlockSize) + (k % BlockSize)
  BY DivisionParts
<1>2. PICK q \in Nat : q = k \div BlockSize
  BY <1>1
<1>3. ~(q < j) /\ ~(j < q)
  <2>1. q < j => BlockSize * q + BlockSize <= BlockSize * j
    BY StrictMultiples
  <2>2. j < q => BlockSize * j + BlockSize <= BlockSize * q
    BY StrictMultiples
  <2>3. PICK x \in Int, y \in Int : x = BlockSize * q /\ y = BlockSize * j
    BY SizesAssumption
  <2> QED BY <1>1, <1>2, <2>1, <2>2, <2>3, SizesAssumption
<1> QED BY <1>2, <1>3

\* can_append_slots asks whether the length after the append begins a block.  That
\* finds all sequences that need one for their token if a block has several slots.
LEMMA NeedsAre ==
    ASSUME BlockSize > 1, NEW n \in Nat, NumLogicalBlocks(n + 1) > NumLogicalBlocks(n)
    PROVE  n % BlockSize = 0 /\ (n + 1) % BlockSize = 1
<1>1. PICK q \in Nat, r \in 0 .. BlockSize - 1 :
        q = n \div BlockSize /\ r = n % BlockSize /\ n = BlockSize * q + r
  BY DivisionParts
<1>2. PICK y \in Nat : y = BlockSize * q /\ BlockSize * (q + 1) = y + BlockSize
  BY SizesAssumption, SMTT(30)
<1>3. q + 1 \in Nat /\ BlockSize \in Nat
  BY SizesAssumption
<1>4. r = 0
  <2> SUFFICES ASSUME r > 0 PROVE FALSE
    BY <1>3
  <2>1. n + BlockSize - 1 \in Nat /\ n + 1 + BlockSize - 1 \in Nat
    BY <1>3
  <2>2. (n + BlockSize - 1) \div BlockSize = q + 1
    <3>1. n + BlockSize - 1 >= BlockSize * (q + 1)
          /\ n + BlockSize - 1 < BlockSize * (q + 1) + BlockSize
      BY <1>1, <1>2, <1>3
    <3> QED BY <1>3, <2>1, <3>1, QuotientIs
  <2>3. (n + 1 + BlockSize - 1) \div BlockSize = q + 1
    <3>1. n + 1 + BlockSize - 1 >= BlockSize * (q + 1)
          /\ n + 1 + BlockSize - 1 < BlockSize * (q + 1) + BlockSize
      BY <1>1, <1>2, <1>3
    <3> QED BY <1>3, <2>1, <3>1, QuotientIs
  <2> QED BY <1>3, <2>2, <2>3 DEF NumLogicalBlocks
<1>5. (n + 1) \div BlockSize = q
  <2>1. n + 1 >= BlockSize * q /\ n + 1 < BlockSize * q + BlockSize
    BY <1>1, <1>2, <1>3, <1>4
  <2> QED BY <2>1, QuotientIs
<1>6. n + 1 = BlockSize * q + ((n + 1) % BlockSize) /\ (n + 1) % BlockSize \in 0 .. BlockSize - 1
  BY <1>5, DivisionParts
<1> QED BY <1>1, <1>2, <1>3, <1>4, <1>6

\* After a full block the next token begins one.
LEMMA StartsBlock ==
    ASSUME NEW n \in Nat, n % BlockSize = 0
    PROVE  NumLogicalBlocks(n + 1) > NumLogicalBlocks(n)
<1>1. PICK q \in Nat : q = n \div BlockSize /\ n = BlockSize * q
  <2>1. n = BlockSize * (n \div BlockSize) + 0 /\ n \div BlockSize \in Nat
    BY DivisionParts
  <2>2. PICK q \in Nat : q = n \div BlockSize /\ n = BlockSize * q + 0
    BY <2>1
  <2>3. BlockSize * q \in Nat
    BY SizesAssumption
  <2> QED BY <2>2, <2>3
<1>2. PICK y \in Nat : y = BlockSize * q /\ BlockSize * (q + 1) = y + BlockSize
  BY SizesAssumption, SMTT(30)
<1>3. q + 1 \in Nat /\ BlockSize \in Nat \ {0}
  BY SizesAssumption
<1>4. (n + BlockSize - 1) \div BlockSize = q
  <2>1. /\ n + BlockSize - 1 \in Nat
        /\ n + BlockSize - 1 >= BlockSize * q /\ n + BlockSize - 1 < BlockSize * q + BlockSize
    BY <1>1, <1>2, <1>3
  <2> QED BY <2>1, QuotientIs
<1>5. (n + 1 + BlockSize - 1) \div BlockSize = q + 1
  <2>1. /\ n + 1 + BlockSize - 1 \in Nat
        /\ n + 1 + BlockSize - 1 >= BlockSize * (q + 1)
        /\ n + 1 + BlockSize - 1 < BlockSize * (q + 1) + BlockSize
    BY <1>1, <1>2, <1>3
  <2> QED BY <1>3, <2>1, QuotientIs
<1> QED BY <1>4, <1>5 DEF NumLogicalBlocks

=============================================================================
