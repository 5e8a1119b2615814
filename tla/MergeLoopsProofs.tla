-------------------------- MODULE MergeLoopsProofs --------------------------
(***************************************************************************)
(* Theorems about MergeLoops, for any merge tables, inputs, hash and loop  *)
(* limits: the safety half of its refinement of PairMerge.                 *)
(*                                                                         *)
(* A list has an order, of its live positions, and a word, the symbols     *)
(* there; the first lemmas count positions.  The flat table answers every  *)
(* pair as the map does, because a probe meets a pair's slot before an     *)
(* empty one (TableInv).  The rank of the pair that begins at a position   *)
(* (PairOf) is what the rank array, the lanes and the heap mirror, so the  *)
(* minimum of any of them is the lowest pair of the word (BestFacts); a    *)
(* merge unlinks one position (UnlinkedFacts), replaces two symbols of the *)
(* word by one (WordMerged) and changes the pairs of two positions only    *)
(* (PairsMerged), the two the loops refresh.  Compaction copies the n-th   *)
(* symbol down to place n, never past the place it reads next (UptoBound). *)
(***************************************************************************)
EXTENDS MergeLoops, FiniteSetTheorems, FunctionTheorems, SequenceTheorems, WellFoundedInduction,
        TLAPS

-----------------------------------------------------------------------------
(* Positions of a finite set of numbers, in order. *)

Upto(L, i) == Cardinality({j \in L : j <= i})
Spot(L, k) == CHOOSE i \in L : Upto(L, i) = k

\* The number of members up to a member is its place.
LEMMA UptoFacts ==
    ASSUME NEW L \in SUBSET Nat, IsFiniteSet(L)
    PROVE  /\ Cardinality(L) \in Nat
           /\ \A i \in L : Upto(L, i) \in 1..Cardinality(L)
           /\ \A i, j \in L : i < j => Upto(L, i) < Upto(L, j)
           /\ \A i, j \in L : Upto(L, i) = Upto(L, j) => i = j
<1> DEFINE Below(i) == {j \in L : j <= i}
           K == Cardinality(L)
<1>0. \A j \in L : j \in Nat
  OBVIOUS
<1>1. K \in Nat
  BY FS_CardinalityType
<1>2. \A i \in L : IsFiniteSet(Below(i)) /\ Cardinality(Below(i)) \in 1..K
  <2> TAKE i \in L
  <2>1. Below(i) \in SUBSET L /\ i \in Below(i)
    OBVIOUS
  <2> HIDE DEF Below
  <2>2. IsFiniteSet(Below(i)) /\ Cardinality(Below(i)) <= K
    BY <2>1, FS_Subset
  <2>3. Cardinality(Below(i)) \in Nat /\ Cardinality(Below(i)) # 0
    BY <2>1, <2>2, FS_CardinalityType, FS_EmptySet
  <2> HIDE DEF K
  <2> QED BY <2>2, <2>3, <1>1
<1>3. ASSUME NEW i \in L, NEW j \in L, i < j
      PROVE  Cardinality(Below(i)) < Cardinality(Below(j))
  <2>0. \A m \in L : m <= i => m <= j
    BY <1>3, <1>0
  <2>1. j <= j /\ ~(j <= i)
    BY <1>3, <1>0
  <2>2. Below(i) \in SUBSET Below(j) /\ j \in Below(j) /\ j \notin Below(i)
    BY <2>0, <2>1
  <2> HIDE DEF Below
  <2>3. Cardinality(Below(i)) <= Cardinality(Below(j)) /\ Below(i) # Below(j)
    BY <2>2, <1>2, FS_Subset
  <2>4. Cardinality(Below(i)) # Cardinality(Below(j))
    BY <2>2, <2>3, <1>2, FS_Subset
  <2> HIDE DEF K
  <2> QED BY <2>3, <2>4, <1>2, <1>1
<1>4. ASSUME NEW i \in L, NEW j \in L, Cardinality(Below(i)) = Cardinality(Below(j))
      PROVE  i = j
  <2> HIDE DEF Below
  <2>1. Cardinality(Below(i)) \in Int
    BY <1>2
  <2>2. ~(i < j) /\ ~(j < i)
    BY <2>1, <1>3, <1>4
  <2> QED BY <2>2
<1>5. \A i : Upto(L, i) = Cardinality(Below(i))
  BY DEF Upto
<1> HIDE DEF Below, K
<1> QED BY <1>1, <1>2, <1>3, <1>4, <1>5 DEF K

\* Every place is taken by one member.
LEMMA SpotFacts ==
    ASSUME NEW L \in SUBSET Nat, IsFiniteSet(L)
    PROVE  /\ \A k \in 1..Cardinality(L) : Spot(L, k) \in L /\ Upto(L, Spot(L, k)) = k
           /\ \A i \in L : Spot(L, Upto(L, i)) = i
           /\ \A k, m \in 1..Cardinality(L) : k < m => Spot(L, k) < Spot(L, m)
<1> DEFINE K == Cardinality(L)
           pos == [i \in L |-> Upto(L, i)]
<1>1. /\ K \in Nat
      /\ \A i \in L : Upto(L, i) \in 1..K
      /\ \A i, j \in L : i < j => Upto(L, i) < Upto(L, j)
      /\ \A i, j \in L : Upto(L, i) = Upto(L, j) => i = j
  BY UptoFacts
<1>2. IsFiniteSet(1..K) /\ Cardinality(1..K) = K
  <2> HIDE DEF K
  <2> QED BY <1>1, FS_Interval
<1>3. pos \in Surjection(L, 1..K)
  <2>1. pos \in Injection(L, 1..K)
    BY <1>1, Fun_IsInj
  <2> HIDE DEF pos
  <2> QED BY <2>1, <1>2, FS_Injection
<1>4. \A k \in 1..K : Spot(L, k) \in L /\ Upto(L, Spot(L, k)) = k
  <2> TAKE k \in 1..K
  <2>1. \E i \in L : Upto(L, i) = k
    BY <1>3 DEF Surjection
  <2> QED BY <2>1 DEF Spot
<1>5. \A i \in L : Spot(L, Upto(L, i)) = i
  <2> HIDE DEF K
  <2> QED BY <1>1, <1>4
<1>6. ASSUME NEW k \in 1..K, NEW m \in 1..K, k < m
      PROVE  Spot(L, k) < Spot(L, m)
  <2> DEFINE a == Spot(L, k)
             b == Spot(L, m)
  <2>1. a \in L /\ b \in L /\ Upto(L, a) = k /\ Upto(L, b) = m
    BY <1>4
  <2> HIDE DEF a, b, K
  <2>2. k \in Int /\ m \in Int
    OBVIOUS
  <2>3. ~(b < a) /\ a # b
    BY <2>1, <2>2, <1>1, <1>6
  <2>4. a \in Nat /\ b \in Nat
    BY <2>1
  <2>5. a < b
    BY <2>3, <2>4
  <2> QED BY <2>5 DEF a, b
<1> QED BY <1>4, <1>5, <1>6

\* A member's place is at most one more than the member.
LEMMA UptoBound ==
    ASSUME NEW L \in SUBSET Nat, IsFiniteSet(L), NEW i \in L
    PROVE  Upto(L, i) <= i + 1
<1> DEFINE B == {j \in L : j <= i}
<1>0. \A j \in L : j \in Nat
  OBVIOUS
<1>1. B \in SUBSET (0..i)
  <2>1. \A j \in L : j <= i => j \in 0..i
    BY <1>0
  <2> QED BY <2>1
<1>2. IsFiniteSet(0..i) /\ Cardinality(0..i) = i + 1
  BY FS_Interval
<1> HIDE DEF B
<1>3. Cardinality(B) <= i + 1
  BY <1>1, <1>2, FS_Subset
<1> QED BY <1>3 DEF Upto, B

\* The first member, a member and the next one, the last.
LEMMA UptoSteps ==
    ASSUME NEW L \in SUBSET Nat, IsFiniteSet(L)
    PROVE  /\ 0 \in L => Upto(L, 0) = 1
           /\ \A i, j \in L : i < j /\ (\A m \in L : m <= i \/ j <= m)
                                => Upto(L, j) = Upto(L, i) + 1
           /\ \A i \in L : (\A m \in L : m <= i) => Upto(L, i) = Cardinality(L)
<1> DEFINE Below(i) == {j \in L : j <= i}
<1>0. \A j \in L : j \in Nat
  OBVIOUS
<1>1. \A i : Upto(L, i) = Cardinality(Below(i))
  BY DEF Upto
<1>2. \A i : IsFiniteSet(Below(i))
  <2> TAKE i
  <2>1. Below(i) \in SUBSET L
    OBVIOUS
  <2> HIDE DEF Below
  <2> QED BY <2>1, FS_Subset
<1>3. ASSUME 0 \in L
      PROVE  Upto(L, 0) = 1
  <2>1. \A j \in L : j <= 0 <=> j = 0
    BY <1>0
  <2>2. Below(0) = {0}
    BY <2>1, <1>3
  <2> HIDE DEF Below
  <2> QED BY <2>2, <1>1, FS_Singleton
<1>4. ASSUME NEW i \in L, NEW j \in L, i < j, \A m \in L : m <= i \/ j <= m
      PROVE  Upto(L, j) = Upto(L, i) + 1
  <2>0. \A m \in L : m <= j <=> m <= i \/ m = j
    BY <1>4, <1>0
  <2>1. ~(j <= i)
    BY <1>4, <1>0
  <2>2. Below(j) = Below(i) \cup {j} /\ j \notin Below(i)
    BY <2>0, <2>1
  <2> HIDE DEF Below
  <2> QED BY <2>2, <1>1, <1>2, FS_AddElement
<1>5. ASSUME NEW i \in L, \A m \in L : m <= i
      PROVE  Upto(L, i) = Cardinality(L)
  <2>1. Below(i) = L
    BY <1>5
  <2> HIDE DEF Below
  <2> QED BY <2>1, <1>1
<1> QED BY <1>3, <1>4, <1>5

\* The places when one member goes.
LEMMA SpotRemoved ==
    ASSUME NEW L \in SUBSET Nat, IsFiniteSet(L), NEW d \in L
    PROVE  LET M == L \ {d}
               k == Upto(L, d)
           IN  /\ IsFiniteSet(M) /\ Cardinality(M) = Cardinality(L) - 1
               /\ \A n \in 1..Cardinality(M) : Spot(M, n) = Spot(L, IF n < k THEN n ELSE n + 1)
<1> DEFINE M == L \ {d}
           k == Upto(L, d)
           K == Cardinality(L)
<1>1. IsFiniteSet(M) /\ Cardinality(M) = K - 1
  BY FS_RemoveElement
<1>2. M \in SUBSET Nat
  OBVIOUS
<1>3. /\ K \in Nat /\ k \in 1..K
      /\ \A i \in L : Upto(L, i) \in 1..K
      /\ \A i, j \in L : i < j => Upto(L, i) < Upto(L, j)
      /\ \A i, j \in L : Upto(L, i) = Upto(L, j) => i = j
  BY UptoFacts
<1>4. ASSUME NEW i \in M
      PROVE  Upto(M, i) = IF i < d THEN Upto(L, i) ELSE Upto(L, i) - 1
  <2> DEFINE BL == {j \in L : j <= i}
             BM == {j \in M : j <= i}
  <2>1. i \in Nat /\ d \in Nat /\ i # d
    OBVIOUS
  <2>2. Upto(L, i) = Cardinality(BL) /\ Upto(M, i) = Cardinality(BM)
    BY DEF Upto
  <2>3. IsFiniteSet(BL)
    <3>1. BL \in SUBSET L
      OBVIOUS
    <3> HIDE DEF BL
    <3> QED BY <3>1, FS_Subset
  <2>4. BM = BL \ {d} /\ (d \in BL <=> d < i)
    BY <2>1
  <2> HIDE DEF BL, BM
  <2>5. Cardinality(BM) = IF d \in BL THEN Cardinality(BL) - 1 ELSE Cardinality(BL)
    BY <2>3, <2>4, FS_RemoveElement
  <2>6. d \in BL <=> ~(i < d)
    BY <2>1, <2>4
  <2> QED BY <2>2, <2>5, <2>6
<1>5. ASSUME NEW n \in 1..(K - 1)
      PROVE  Spot(M, n) = Spot(L, IF n < k THEN n ELSE n + 1)
  <2> DEFINE m == IF n < k THEN n ELSE n + 1
             i == Spot(L, m)
  <2>1. m \in 1..K /\ m # k
    BY <1>3
  <2> HIDE DEF m
  <2>2. i \in L /\ Upto(L, i) = m
    BY <2>1, SpotFacts
  <2> HIDE DEF i, k
  <2>3. i # d
    BY <2>1, <2>2 DEF k
  <2>4. i \in M
    BY <2>2, <2>3
  <2>5. i < d <=> m < k
    <3>1. i \in Nat /\ d \in Nat /\ m \in Int /\ k \in Int
      BY <2>1, <2>2, <1>3
    <3>2. i < d => m < k
      BY <2>2, <1>3 DEF k
    <3>3. d < i => k < m
      BY <2>2, <1>3 DEF k
    <3> QED BY <3>1, <3>2, <3>3, <2>3
  <2>6. Upto(M, i) = n
    <3>1. n \in Int /\ k \in Int /\ m \in Int
      BY <1>3, <2>1
    <3>2. Upto(M, i) = IF m < k THEN m ELSE m - 1
      BY <2>4, <1>4, <2>5, <2>2
    <3> QED BY <3>1, <3>2 DEF m
  <2> HIDE DEF M
  <2>7. Spot(M, Upto(M, i)) = i
    BY <1>1, <1>2, <2>4, SpotFacts
  <2> QED BY <2>6, <2>7 DEF i, m
<1> HIDE DEF M, k, K
<1> QED BY <1>1, <1>5 DEF M, k, K

-----------------------------------------------------------------------------
(* Words. *)

\* The remainder of a number below twice the modulus.
LEMMA Wrap ==
    ASSUME NEW b \in Nat, b > 0, NEW x \in Nat, x < 2 * b
    PROVE  x % b = IF x < b THEN x ELSE x - b
<1>1. CASE x < b
  BY <1>1
<1>2. CASE ~(x < b)
  BY <1>2
<1> QED BY <1>1, <1>2

\* What a lane holds of no merge, and of a rank that fits.
LEMMA PackFacts ==
    /\ NO_MERGE_FLOOR = WORD - PACK
    /\ \A r \in 0..ID_LIMIT - 1, i \in 0..PACK - 1 :
            /\ Pack(r, i) = r * PACK + i /\ Pack(r, i) < NO_MERGE_FLOOR
            /\ Pack(r, i) % PACK = i /\ Pack(r, i) \div PACK = r
    /\ \A i : Pack(NoRank, i) = NO_MERGE_FLOOR + i
<1>1. /\ NoRank \in Nat /\ ID_LIMIT \in Nat /\ PACK = 256 /\ WORD = NoRank + 1
      /\ (ID_LIMIT + 1) * 256 <= NoRank + 1
  BY Bounds DEF PACK, WORD
<1>2. NO_MERGE_FLOOR = NoRank + 1 - 256
  <2>1. NoRank * 256 = (NoRank + 1) * 255 + (NoRank + 1 - 256)
    BY <1>1
  <2>2. 0 <= NoRank + 1 - 256 /\ NoRank + 1 - 256 < NoRank + 1
    BY <1>1
  <2> QED BY <2>1, <2>2, <1>1 DEF NO_MERGE_FLOOR
<1>3. ASSUME NEW r \in 0..ID_LIMIT - 1, NEW i \in 0..PACK - 1
      PROVE  /\ Pack(r, i) = r * 256 + i /\ Pack(r, i) < NO_MERGE_FLOOR
             /\ Pack(r, i) % 256 = i /\ Pack(r, i) \div 256 = r
  <2>1. r \in Nat /\ i \in Nat /\ i < 256 /\ r * 256 < NoRank + 1 - 256 - 255
    BY <1>1
  <2>2. (r * 256) % (NoRank + 1) = r * 256
    BY <2>1, <1>1, Wrap
  <2>3. Pack(r, i) = r * 256 + i
    BY <2>2, <1>1 DEF Pack
  <2> QED BY <2>1, <2>3, <1>1, <1>2
<1>4. \A i : Pack(NoRank, i) = NO_MERGE_FLOOR + i
  BY DEF Pack, NO_MERGE_FLOOR
<1> QED BY <1>1, <1>2, <1>3, <1>4

-----------------------------------------------------------------------------
(* The flat table. *)

\* A nonempty set of numbers has a least member.
LEMMA NatLeast ==
    ASSUME NEW S \in SUBSET Nat, S # {}
    PROVE  \E m \in S : \A k \in S : m <= k
<1> DEFINE R == {ss \in Nat \X Nat : ss[1] < ss[2]}
<1>1. R = OpToRel(<, Nat)
  BY DEF OpToRel
<1>2. IsWellFoundedOn(R, Nat)
  BY <1>1, NatLessThanWellFounded
<1> HIDE DEF R
<1>3. PICK x \in S : \A y \in S : ~(<<y, x>> \in R)
  BY <1>2, WFMin, IsWellFoundedOnSubset, ZenonT(30)
<1>4. \A y \in S : ~(y < x)
  <2> TAKE y \in S
  <2>1. <<y, x>> \in Nat \X Nat /\ <<y, x>>[1] = y /\ <<y, x>>[2] = x
    OBVIOUS
  <2>2. y < x => <<y, x>> \in R
    BY <2>1 DEF R
  <2> QED
    BY <2>2, <1>3
<1> QED
  BY <1>4

\* The slot a probe for p reads after d others, and what it finds there.
Cell(p, d) == (Hash(p) + d) % SLOTS
Slot(m, p) == [pair |-> p, id |-> m[p].id]

Grid == (0..DENSE - 1) \X (0..DENSE - 1)
SlotType == [pair : {<<>>} \cup (Symbol \X Symbol), id : Nat]
TableType == [grid : [Grid -> Nat], slots : [0..SLOTS - 1 -> SlotType]]

\* The slots hold the pairs of D and their merges from the table m, once each,
\* and no probe for one of them meets a gap before it.
Probed(sl, m, D) ==
    /\ sl \in [0..SLOTS - 1 -> SlotType]
    /\ \A i \in 0..SLOTS - 1 : sl[i] = Empty \/ \E p \in D : sl[i] = Slot(m, p)
    /\ \A i, j \in 0..SLOTS - 1 : sl[i] # Empty /\ sl[i] = sl[j] => i = j
    /\ \A p \in D : \E d \in 0..SLOTS - 1 :
            /\ sl[Cell(p, d)] = Slot(m, p)
            /\ \A e \in 0..d - 1 : sl[Cell(p, e)] # Empty

TableInv(t, m, D) ==
    /\ t \in TableType
    /\ \A p \in Grid : t.grid[p] = IF p \in D THEN m[p].id ELSE NoRank
    /\ Probed(t.slots, m, D)

\* The probes of a pair stay in the table and visit every slot.
LEMMA CellFacts ==
    ASSUME NEW p \in Symbol \X Symbol
    PROVE  /\ \A d \in 0..SLOTS - 1 : Cell(p, d) \in 0..SLOTS - 1
           /\ \A i \in 0..SLOTS - 1 : \E d \in 0..SLOTS - 1 : Cell(p, d) = i
<1>1. Hash(p) \in 0..SLOTS - 1 /\ SLOTS \in Nat /\ SLOTS > 0
  BY SymbolAssumption, Bounds
<1>2. \A d \in 0..SLOTS - 1 :
        Cell(p, d) = IF Hash(p) + d < SLOTS THEN Hash(p) + d ELSE Hash(p) + d - SLOTS
  BY <1>1, Wrap DEF Cell
<1>3. \A d \in 0..SLOTS - 1 : Cell(p, d) \in 0..SLOTS - 1
  BY <1>1, <1>2
<1>4. ASSUME NEW i \in 0..SLOTS - 1
      PROVE  \E d \in 0..SLOTS - 1 : Cell(p, d) = i
  <2> DEFINE d == IF Hash(p) <= i THEN i - Hash(p) ELSE i + SLOTS - Hash(p)
  <2>1. d \in 0..SLOTS - 1
    BY <1>1
  <2>2. Cell(p, d) = i
    BY <2>1, <1>1, <1>2
  <2> QED BY <2>1, <2>2
<1> QED BY <1>3, <1>4

\* A probe for p comes to an empty slot.
Ends(sl, p) ==
    \E d \in 0..SLOTS - 1 :
        /\ sl[Cell(p, d)] = Empty
        /\ \A e \in 0..d - 1 : sl[Cell(p, e)] # Empty

\* Fewer pairs than slots leave an empty one, and every probe comes to it.
LEMMA ProbeEnds ==
    ASSUME NEW m \in Tables, NEW D \in SUBSET DOMAIN m, NEW sl, Probed(sl, m, D),
           NEW p \in Symbol \X Symbol
    PROVE  Ends(sl, p)
<1> DEFINE S == 0..SLOTS - 1
<1>1. SLOTS \in Nat /\ SLOTS > 0
  BY Bounds
<1>2. IsFiniteSet(D) /\ Cardinality(D) < SLOTS
  <2>1. IsFiniteSet(DOMAIN m) /\ 2 * Cardinality(DOMAIN m) <= SLOTS
    BY TableAssumption
  <2>2. IsFiniteSet(D) /\ Cardinality(D) <= Cardinality(DOMAIN m)
    BY <2>1, FS_Subset
  <2>3. Cardinality(DOMAIN m) \in Nat /\ Cardinality(D) \in Nat
    BY <2>1, <2>2, FS_CardinalityType
  <2> QED BY <2>1, <2>2, <2>3, <1>1
<1>3. \E i \in S : sl[i] = Empty
  <2> SUFFICES ASSUME \A i \in S : sl[i] # Empty
               PROVE  FALSE
    OBVIOUS
  <2> DEFINE f == [i \in S |-> sl[i].pair]
  <2>1. \A i \in S : \E q \in D : sl[i] = Slot(m, q)
    BY DEF Probed
  <2>2. \A i \in S : f[i] \in D /\ sl[i] = Slot(m, f[i])
    <3> TAKE i \in S
    <3>1. PICK q \in D : sl[i] = Slot(m, q)
      BY <2>1
    <3>2. f[i] = q
      BY <3>1 DEF Slot
    <3> QED BY <3>1, <3>2
  <2>3. ASSUME NEW i \in S, NEW j \in S, f[i] = f[j]
        PROVE  i = j
    <3>1. sl[i] = sl[j]
      BY <2>2, <2>3
    <3> QED BY <3>1 DEF Probed
  <2>4. f \in Injection(S, D)
    BY <2>2, <2>3, Fun_IsInj
  <2>5. Cardinality(S) = SLOTS
    BY <1>1, FS_Interval
  <2> HIDE DEF f, S
  <2>6. SLOTS <= Cardinality(D)
    BY <2>4, <2>5, <1>2, FS_Injection
  <2> QED BY <2>6, <1>1, <1>2, FS_CardinalityType
<1> DEFINE E == {d \in S : sl[Cell(p, d)] = Empty}
<1>4. E \in SUBSET Nat /\ E # {}
  <2>1. E # {}
    BY <1>3, CellFacts
  <2> QED BY <2>1, <1>1
<1>5. PICK d \in E : \A e \in E : d <= e
  <2> HIDE DEF E
  <2> QED BY <1>4, NatLeast
<1>6. \A e \in 0..d - 1 : sl[Cell(p, e)] # Empty
  <2> SUFFICES ASSUME NEW e \in 0..d - 1, sl[Cell(p, e)] = Empty
               PROVE  FALSE
    OBVIOUS
  <2>1. d \in S /\ e \in S /\ ~(d <= e)
    BY <1>5, <1>1
  <2> QED BY <2>1, <1>5
<1> QED BY <1>5, <1>6 DEF Ends

\* An empty slot holds no pair.
LEMMA EmptyFacts ==
    /\ Empty \in SlotType
    /\ \A m, p : p \in Symbol \X Symbol => Empty # Slot(m, p) /\ Empty.pair # p
<1>1. Empty.pair = <<>> /\ Empty \in SlotType
  BY Bounds DEF Empty, SlotType
<1>2. ASSUME NEW p \in Symbol \X Symbol
      PROVE  <<>> # p
  <2>1. PICK a, b : p = <<a, b>>
    OBVIOUS
  <2>2. Len(p) = 2 /\ Len(<<>>) = 0
    BY <2>1
  <2> QED BY <2>2
<1>3. \A m, p : Slot(m, p).pair = p
  BY DEF Slot
<1> QED BY <1>1, <1>2, <1>3

\* A finished table answers like its merge table.
LEMMA TableRankExact ==
    ASSUME NEW m \in Tables, NEW t, TableInv(t, m, DOMAIN m), NEW a \in Symbol, NEW b \in Symbol
    PROVE  TableRank(t, a, b) = IF <<a, b>> \in DOMAIN m THEN m[<<a, b>>].id ELSE NoRank
<1> DEFINE p == <<a, b>>
           sl == t.slots
<1>1. p \in Symbol \X Symbol /\ a \in Nat /\ b \in Nat
  BY SymbolAssumption
<1>2. CASE InGrid(a, b)
  <2>1. DENSE \in Nat /\ a < DENSE /\ b < DENSE
    BY <1>2, Bounds DEF InGrid
  <2>2. p \in Grid
    BY <2>1, <1>1 DEF Grid
  <2>3. TableRank(t, a, b) = t.grid[p]
    BY <1>2 DEF TableRank
  <2> QED BY <2>2, <2>3 DEF TableInv
<1>3. CASE ~InGrid(a, b)
  <2> DEFINE met(d) == sl[Cell(p, d)]
             Stop(d) == met(d).pair = p \/ met(d) = Empty
             dd == CHOOSE d \in 0..SLOTS - 1 :
                      /\ Stop(d)
                      /\ \A e \in 0..d - 1 : met(e).pair # p /\ met(e) # Empty
  <2>1. TableRank(t, a, b) = met(dd).id
    BY <1>3 DEF TableRank, Cell
  <2>2. Probed(sl, m, DOMAIN m) /\ sl \in [0..SLOTS - 1 -> SlotType]
    BY DEF TableInv, Probed
  <2>3. DOMAIN m \in SUBSET DOMAIN m /\ DOMAIN m \in SUBSET (Symbol \X Symbol)
    BY TableAssumption
  <2> HIDE DEF p, sl
  <2>4. PICK g \in 0..SLOTS - 1 : met(g) = Empty
    <3>1. m \in Tables /\ p \in Symbol \X Symbol
      BY <1>1
    <3>2. Ends(sl, p)
      BY ONLY <3>1, <2>2, <2>3, ProbeEnds
    <3> QED BY <3>2 DEF Ends
  <2> DEFINE Stops == {d \in 0..SLOTS - 1 : Stop(d)}
  <2>5. Stops \in SUBSET Nat /\ g \in Stops
    BY <2>4, Bounds
  <2>6. PICK l \in Stops : \A d \in Stops : l <= d
    <3> HIDE DEF Stops
    <3> QED BY <2>5, NatLeast
  <2>7. \A e \in 0..l - 1 : ~Stop(e)
    <3> SUFFICES ASSUME NEW e \in 0..l - 1, Stop(e)
                 PROVE  FALSE
      OBVIOUS
    <3>1. l \in 0..SLOTS - 1 /\ SLOTS \in Nat
      BY <2>6, Bounds
    <3>2. e \in 0..SLOTS - 1 /\ ~(l <= e)
      BY <3>1
    <3> HIDE DEF Stop
    <3> QED BY <3>2, <2>6
  <2>8. /\ dd \in 0..SLOTS - 1 /\ Stop(dd)
        /\ \A e \in 0..dd - 1 : met(e).pair # p /\ met(e) # Empty
    <3> HIDE DEF met
    <3>1. l \in 0..SLOTS - 1 /\ Stop(l)
      BY <2>6
    <3> QED BY <3>1, <2>7
  <2> HIDE DEF dd
  <2>9. Cell(p, dd) \in 0..SLOTS - 1
    BY <2>8, <1>1, CellFacts
  <2>10. CASE p \in DOMAIN m
    <3>1. PICK d \in 0..SLOTS - 1 :
            /\ met(d) = Slot(m, p)
            /\ \A e \in 0..d - 1 : met(e) # Empty
      BY <2>2, <2>10 DEF Probed
    <3>2. met(d).pair = p
      BY <3>1 DEF Slot
    <3>3. met(dd) # Empty
      <4> SUFFICES ASSUME met(dd) = Empty
                   PROVE  FALSE
        OBVIOUS
      <4>1. ~(dd < d) /\ dd # d
        <5>1. dd \in 0..d - 1 => FALSE
          BY <3>1
        <5>2. met(d) # Empty
          BY <3>1, <1>1, EmptyFacts
        <5>3. dd \in Nat /\ d \in Nat /\ SLOTS \in Nat
          BY <2>8, Bounds
        <5>4. dd # d
          BY <5>2
        <5> HIDE DEF met
        <5> QED BY <5>1, <5>3, <5>4
      <4>2. d \in 0..dd - 1
        BY <4>1, <2>8, Bounds
      <4> QED BY <4>2, <3>2, <2>8
    <3>4. met(dd).pair = p
      BY <3>3, <2>8
    <3>5. PICK q \in DOMAIN m : met(dd) = Slot(m, q)
      BY <3>3, <2>9, <2>2 DEF Probed
    <3>6. q = p /\ met(dd).id = m[q].id
      BY <3>4, <3>5 DEF Slot
    <3> QED BY <3>6, <2>1, <2>10 DEF p
  <2>11. CASE p \notin DOMAIN m
    <3>1. met(dd) = Empty
      <4> SUFFICES ASSUME met(dd) # Empty
                   PROVE  FALSE
        OBVIOUS
      <4>1. PICK q \in DOMAIN m : met(dd) = Slot(m, q)
        BY <2>9, <2>2 DEF Probed
      <4>2. q = p
        BY <4>1, <2>8 DEF Slot
      <4> QED BY <4>2, <2>11
    <3> QED BY <3>1, <2>1, <2>11 DEF p, Empty
  <2> QED BY <2>10, <2>11
<1> QED BY <1>2, <1>3

\* A fresh table holds nothing.
LEMMA EmptyTableInv ==
    ASSUME NEW m
    PROVE  TableInv(EmptyTable, m, {})
<1>1. NoRank \in Nat /\ Empty \in SlotType
  BY Bounds, EmptyFacts
<1>2. EmptyTable \in TableType
  BY <1>1 DEF EmptyTable, TableType, Grid
<1>3. /\ \A p \in Grid : EmptyTable.grid[p] = NoRank
      /\ \A i \in 0..SLOTS - 1 : EmptyTable.slots[i] = Empty
  BY DEF EmptyTable, Grid
<1> QED BY <1>2, <1>3 DEF TableInv, Probed, TableType

\* One more pair goes into the table.
LEMMA InsertedInv ==
    ASSUME NEW m \in Tables, NEW D \in SUBSET DOMAIN m, NEW t, TableInv(t, m, D),
           NEW p \in DOMAIN m, p \notin D
    PROVE  TableInv(Inserted(t, p, m[p].id), m, D \cup {p})
<1> DEFINE S == 0..SLOTS - 1
           sl == t.slots
           d == Displacement(sl, p)
           c == Cell(p, d)
           u == Inserted(t, p, m[p].id)
           new == [sl EXCEPT ![c] = Slot(m, p)]
<1>1. p \in Symbol \X Symbol /\ D \in SUBSET (Symbol \X Symbol) /\ m[p].id \in Nat
  BY TableAssumption, SymbolAssumption
<1>2. /\ t \in TableType /\ sl \in [S -> SlotType] /\ t.grid \in [Grid -> Nat]
      /\ Probed(sl, m, D)
  BY DEF TableInv, TableType
<1>3. /\ d \in S /\ sl[c] = Empty
      /\ \A e \in 0..d - 1 : sl[Cell(p, e)] # Empty
  <2>1. \E x \in S : /\ sl[Cell(p, x)] = Empty
                     /\ \A e \in 0..x - 1 : sl[Cell(p, e)] # Empty
    <3>1. m \in Tables /\ D \in SUBSET DOMAIN m
      OBVIOUS
    <3> HIDE DEF sl, S
    <3>2. Ends(sl, p)
      BY ONLY <3>1, <1>1, <1>2, ProbeEnds
    <3> QED BY <3>2 DEF S, Ends
  <2>2. d = CHOOSE x \in S : /\ sl[Cell(p, x)] = Empty
                             /\ \A e \in 0..x - 1 : sl[Cell(p, e)] # Empty
    BY DEF Displacement, Cell
  <2> HIDE DEF d, sl
  <2> QED BY <2>1, <2>2
<1>4. c \in S
  BY <1>1, <1>3, CellFacts
<1>5. /\ u.slots = new
      /\ u.grid = IF InGrid(p[1], p[2]) THEN [t.grid EXCEPT ![p] = m[p].id] ELSE t.grid
  BY DEF Inserted, Slot, Cell
<1>6. u = [grid |-> u.grid, slots |-> u.slots]
  BY DEF Inserted
<1>7. Slot(m, p) \in SlotType
  BY <1>1 DEF Slot, SlotType
<1> HIDE DEF u, c, d, sl
<1>8. /\ new \in [S -> SlotType] /\ new[c] = Slot(m, p)
      /\ \A i \in S : i # c => new[i] = sl[i]
  BY <1>2, <1>4, <1>7
<1>9. /\ u.grid \in [Grid -> Nat]
      /\ \A q \in Grid : u.grid[q] = IF q \in D \cup {p} THEN m[q].id ELSE NoRank
  <2>1. InGrid(p[1], p[2]) <=> p \in Grid
    <3>0. p = <<p[1], p[2]>> /\ p[1] \in Symbol /\ p[2] \in Symbol
      BY <1>1
    <3>1. p = <<p[1], p[2]>> /\ p[1] \in Nat /\ p[2] \in Nat /\ DENSE \in Nat
      BY <3>0, SymbolAssumption, Bounds
    <3>2. p \in Grid <=> p[1] \in 0..DENSE - 1 /\ p[2] \in 0..DENSE - 1
      BY <3>1 DEF Grid
    <3> QED BY <3>1, <3>2 DEF InGrid
  <2>2. \A q \in Grid : t.grid[q] = IF q \in D THEN m[q].id ELSE NoRank
    BY DEF TableInv
  <2> QED BY <2>1, <2>2, <1>1, <1>2, <1>5
<1> HIDE DEF new
<1>10. Probed(new, m, D \cup {p})
  <2>1. \A i \in S : new[i] = Empty \/ \E q \in D \cup {p} : new[i] = Slot(m, q)
    BY <1>2, <1>8 DEF Probed
  <2>2. ASSUME NEW i \in S, NEW j \in S, new[i] # Empty, new[i] = new[j]
        PROVE  i = j
    <3>1. \A x \in S : x # c => new[x] # Slot(m, p)
      <4> SUFFICES ASSUME NEW x \in S, x # c, new[x] = Slot(m, p)
                   PROVE  FALSE
        OBVIOUS
      <4>1. sl[x] = Slot(m, p)
        BY <1>8
      <4>2. sl[x] # Empty
        BY <4>1, <1>1, EmptyFacts
      <4>3. PICK q \in D : sl[x] = Slot(m, q)
        BY <4>2, <1>2 DEF Probed
      <4>4. q = p
        BY <4>1, <4>3 DEF Slot
      <4> QED BY <4>3, <4>4
    <3>2. CASE i = c \/ j = c
      BY <3>1, <3>2, <2>2, <1>8
    <3>3. CASE i # c /\ j # c
      BY <3>3, <2>2, <1>2, <1>8 DEF Probed
    <3> QED BY <3>2, <3>3
  <2>3. ASSUME NEW q \in D \cup {p}
        PROVE  \E x \in S : /\ new[Cell(q, x)] = Slot(m, q)
                            /\ \A e \in 0..x - 1 : new[Cell(q, e)] # Empty
    <3>1. \A x \in S : sl[x] # Empty => new[x] # Empty /\ new[x] = sl[x]
      BY <1>3, <1>8 DEF c
    <3>2. CASE q \in D
      <4>1. q \in Symbol \X Symbol
        BY <3>2, <1>1
      <4>2. PICK x \in S : /\ sl[Cell(q, x)] = Slot(m, q)
                           /\ \A e \in 0..x - 1 : sl[Cell(q, e)] # Empty
        BY <3>2, <1>2 DEF Probed
      <4>3. \A e \in 0..x : e \in S
        BY Bounds
      <4>4. \A e \in 0..x : Cell(q, e) \in S
        BY <4>1, <4>3, CellFacts
      <4>5. sl[Cell(q, x)] # Empty
        BY <4>1, <4>2, EmptyFacts
      <4>6. x \in 0..x /\ \A e \in 0..x - 1 : e \in 0..x
        BY Bounds
      <4> QED BY <4>2, <4>4, <4>5, <4>6, <3>1
    <3>3. CASE q = p
      <4>1. \A e \in 0..d - 1 : e \in S
        BY <1>3, Bounds
      <4>2. \A e \in 0..d - 1 : Cell(p, e) \in S
        BY <4>1, <1>1, CellFacts
      <4>3. \A e \in 0..d - 1 : new[Cell(p, e)] # Empty
        BY <4>2, <1>3, <3>1
      <4> QED BY <4>3, <3>3, <1>3, <1>8 DEF c
    <3> QED BY <3>2, <3>3
  <2> QED BY <2>1, <2>2, <2>3, <1>8 DEF Probed
<1>11. u \in TableType
  BY <1>5, <1>6, <1>8, <1>9 DEF TableType
<1> QED BY <1>5, <1>9, <1>10, <1>11 DEF TableInv, u

-----------------------------------------------------------------------------
(* The list: n positions, the symbols s, and the links nx and pv. *)

LiveOf(n, nx, pv) == {i \in 0..n - 1 : i = 0 \/ nx[pv[i]] = i}

\* The links of a position lead to its neighbours in the list.
Neighbours(L, n, nx, pv, i) ==
    /\ IF nx[i] < n THEN /\ nx[i] \in L /\ i < nx[i] /\ pv[nx[i]] = i
                         /\ \A j \in L : j <= i \/ nx[i] <= j
       ELSE \A j \in L : j <= i
    /\ i # 0 => pv[i] \in L /\ pv[i] < i /\ nx[pv[i]] = i

Chained(n, nx, pv) ==
    /\ nx \in [0..n - 1 -> Nat] /\ pv \in [0..n - 1 -> Nat]
    /\ n > 0 => pv[0] >= n
    /\ \A i \in 1..n - 1 : pv[i] < n
    /\ \A i \in LiveOf(n, nx, pv) : Neighbours(LiveOf(n, nx, pv), n, nx, pv, i)

\* The symbols of the list, in order.
Word(n, s, nx, pv) ==
    [k \in 1..Cardinality(LiveOf(n, nx, pv)) |-> s[Spot(LiveOf(n, nx, pv), k) + 1]]

\* The rank of the pair that begins at a position of the list.
RankIn(m, a, b) == IF <<a, b>> \in DOMAIN m THEN m[<<a, b>>].rank ELSE NoRank
PairOf(m, n, s, nx, pv, i) ==
    IF i \in LiveOf(n, nx, pv) /\ nx[i] < n THEN RankIn(m, s[i + 1], s[nx[i] + 1]) ELSE NoRank

\* A list over a merge table.
ListOf(m, n, s, nx, pv) ==
    /\ m \in Tables /\ n \in Nat /\ s \in Seq(Symbol) /\ Len(s) = n
    /\ Chained(n, nx, pv)

\* The live positions are finitely many numbers, the first of them 0.
LEMMA LiveFacts ==
    ASSUME NEW n \in Nat, NEW nx, NEW pv
    PROVE  /\ LiveOf(n, nx, pv) \in SUBSET Nat /\ LiveOf(n, nx, pv) \in SUBSET (0..n - 1)
           /\ IsFiniteSet(LiveOf(n, nx, pv))
           /\ Cardinality(LiveOf(n, nx, pv)) \in Nat
           /\ n > 0 => 0 \in LiveOf(n, nx, pv)
<1> DEFINE L == LiveOf(n, nx, pv)
<1>1. L \in SUBSET (0..n - 1) /\ (n > 0 => 0 \in L)
  BY DEF LiveOf
<1>2. IsFiniteSet(0..n - 1)
  BY FS_Interval
<1> HIDE DEF L
<1>3. IsFiniteSet(L)
  BY <1>1, <1>2, FS_Subset
<1>4. L \in SUBSET Nat
  BY <1>1
<1> QED BY <1>1, <1>3, <1>4, FS_CardinalityType DEF L

\* The places of a position of the list and of the next one.
LEMMA WordFacts ==
    ASSUME NEW m, NEW n, NEW s, NEW nx, NEW pv, ListOf(m, n, s, nx, pv)
    PROVE  LET L == LiveOf(n, nx, pv)
               w == Word(n, s, nx, pv)
           IN  /\ w \in Seq(Symbol) /\ Len(w) = Cardinality(L)
               /\ \A i \in L :
                    /\ Upto(L, i) \in 1..Len(w) /\ w[Upto(L, i)] = s[i + 1]
                    /\ nx[i] < n => nx[i] \in L /\ Upto(L, nx[i]) = Upto(L, i) + 1
                    /\ ~(nx[i] < n) => Upto(L, i) = Len(w)
<1> DEFINE L == LiveOf(n, nx, pv)
           K == Cardinality(L)
           w == Word(n, s, nx, pv)
<1>1. n \in Nat /\ s \in Seq(Symbol) /\ Len(s) = n /\ Chained(n, nx, pv)
  BY DEF ListOf
<1>2. L \in SUBSET Nat /\ L \in SUBSET (0..n - 1) /\ IsFiniteSet(L) /\ K \in Nat
  BY <1>1, LiveFacts
<1>3. w = [k \in 1..K |-> s[Spot(L, k) + 1]]
  BY DEF Word
<1>4. \A i \in L : Neighbours(L, n, nx, pv, i)
  BY <1>1 DEF Chained
<1> HIDE DEF L, K, w
<1>5. \A i \in L : i \in Nat /\ i + 1 \in 1..n /\ s[i + 1] \in Symbol
  BY <1>1, <1>2, ElementOfSeq
<1>6. \A k \in 1..K : Spot(L, k) \in L /\ Upto(L, Spot(L, k)) = k
  BY <1>2, SpotFacts DEF K
<1>7. \A i \in L : Upto(L, i) \in 1..K /\ Spot(L, Upto(L, i)) = i
  BY <1>2, SpotFacts, UptoFacts DEF K
<1>8. w \in Seq(Symbol) /\ Len(w) = K
  <2>1. \A k \in 1..K : s[Spot(L, k) + 1] \in Symbol
    BY <1>5, <1>6
  <2> QED BY <2>1, <1>2, <1>3
<1>9. ASSUME NEW i \in L
      PROVE  /\ Upto(L, i) \in 1..Len(w) /\ w[Upto(L, i)] = s[i + 1]
             /\ nx[i] < n => nx[i] \in L /\ Upto(L, nx[i]) = Upto(L, i) + 1
             /\ ~(nx[i] < n) => Upto(L, i) = Len(w)
  <2>1. Upto(L, i) \in 1..Len(w) /\ w[Upto(L, i)] = s[i + 1]
    BY <1>3, <1>7, <1>8
  <2>2. ASSUME nx[i] < n
        PROVE  nx[i] \in L /\ Upto(L, nx[i]) = Upto(L, i) + 1
    <3>1. nx[i] \in L /\ i < nx[i] /\ \A j \in L : j <= i \/ nx[i] <= j
      BY <2>2, <1>4 DEF Neighbours
    <3> QED BY <3>1, <1>2, UptoSteps
  <2>3. ASSUME ~(nx[i] < n)
        PROVE  Upto(L, i) = Len(w)
    <3>1. \A j \in L : j <= i
      BY <2>3, <1>4 DEF Neighbours
    <3> QED BY <3>1, <1>2, <1>8, UptoSteps DEF K
  <2> QED BY <2>1, <2>2, <2>3
<1> QED BY <1>8, <1>9 DEF L, K, w

\* The mergeable pairs of the list are those of its symbols.
LEMMA CandidateFacts ==
    ASSUME NEW m, NEW n, NEW s, NEW nx, NEW pv, ListOf(m, n, s, nx, pv)
    PROVE  LET L == LiveOf(n, nx, pv)
               w == Word(n, s, nx, pv)
           IN  /\ \A k \in Abstract!Candidates(m, w) : \E i \in L : k = Upto(L, i)
               /\ \A i \in L :
                    /\ Upto(L, i) \in Abstract!Candidates(m, w)
                            <=> PairOf(m, n, s, nx, pv, i) # NoRank
                    /\ Upto(L, i) \in Abstract!Candidates(m, w) =>
                            /\ nx[i] < n
                            /\ Abstract!RankAt(m, w, Upto(L, i)) = PairOf(m, n, s, nx, pv, i)
<1> DEFINE L == LiveOf(n, nx, pv)
           K == Cardinality(L)
           w == Word(n, s, nx, pv)
           C == Abstract!Candidates(m, w)
           P(i) == PairOf(m, n, s, nx, pv, i)
<1>1. m \in Tables /\ n \in Nat
  BY DEF ListOf
<1>2. L \in SUBSET Nat /\ IsFiniteSet(L) /\ K \in Nat
  BY <1>1, LiveFacts
<1>3. /\ w \in Seq(Symbol) /\ Len(w) = K
      /\ \A i \in L :
           /\ Upto(L, i) \in 1..Len(w) /\ w[Upto(L, i)] = s[i + 1]
           /\ nx[i] < n => nx[i] \in L /\ Upto(L, nx[i]) = Upto(L, i) + 1
           /\ ~(nx[i] < n) => Upto(L, i) = Len(w)
  BY WordFacts
<1>4. \A i \in L : P(i) = IF nx[i] < n THEN RankIn(m, s[i + 1], s[nx[i] + 1]) ELSE NoRank
  BY DEF PairOf
<1>5. \A k : k \in C <=> k \in 1..Len(w) - 1 /\ <<w[k], w[k + 1]>> \in DOMAIN m
  BY DEF Abstract!Candidates
<1>6. \A k : Abstract!RankAt(m, w, k) = m[<<w[k], w[k + 1]>>].rank
  BY DEF Abstract!RankAt
<1>7. \A p \in DOMAIN m : m[p].rank # NoRank
  BY <1>1, TableAssumption, Bounds
<1> HIDE DEF L, K, w, C, P
<1>8. ASSUME NEW k \in C
      PROVE  \E i \in L : k = Upto(L, i)
  <2>1. k \in 1..Cardinality(L)
    <3>1. k \in 1..Len(w) - 1
      BY <1>5
    <3> QED BY <3>1, <1>2, <1>3 DEF K
  <2>2. Spot(L, k) \in L /\ Upto(L, Spot(L, k)) = k
    BY <2>1, <1>2, SpotFacts
  <2> QED BY <2>2
<1>9. ASSUME NEW i \in L
      PROVE  /\ Upto(L, i) \in C <=> P(i) # NoRank
             /\ Upto(L, i) \in C =>
                    nx[i] < n /\ Abstract!RankAt(m, w, Upto(L, i)) = P(i)
  <2> DEFINE k == Upto(L, i)
  <2>1. k \in 1..Len(w) /\ w[k] = s[i + 1] /\ Len(w) \in Nat
    BY <1>2, <1>3
  <2>2. CASE nx[i] < n
    <3>1. k + 1 \in 1..Len(w) /\ w[k + 1] = s[nx[i] + 1]
      BY <2>2, <1>3
    <3> HIDE DEF k
    <3>2. k \in 1..Len(w) - 1
      BY <2>1, <3>1
    <3>3. P(i) = RankIn(m, w[k], w[k + 1])
      BY <2>1, <2>2, <3>1, <1>4
    <3>4. /\ k \in C <=> <<w[k], w[k + 1]>> \in DOMAIN m
          /\ k \in C => P(i) = Abstract!RankAt(m, w, k)
          /\ P(i) # NoRank <=> <<w[k], w[k + 1]>> \in DOMAIN m
      BY <3>2, <3>3, <1>5, <1>6, <1>7 DEF RankIn
    <3> QED BY <3>4, <2>2 DEF k
  <2>3. CASE ~(nx[i] < n)
    <3>1. k = Len(w) /\ P(i) = NoRank
      BY <2>3, <1>3, <1>4
    <3> HIDE DEF k
    <3>2. k \notin 1..Len(w) - 1
      BY <3>1, <2>1
    <3>3. k \notin C
      BY <3>2, <1>5
    <3> QED BY <3>1, <3>3 DEF k
  <2> QED BY <2>2, <2>3
<1> QED BY <1>8, <1>9 DEF L, w, C, P

\* The pair to merge next: no pair of the list has a lower rank, or the same
\* rank further left.
Lowest(m, n, s, nx, pv, i) ==
    LET P(j) == PairOf(m, n, s, nx, pv, j) IN
    /\ i \in LiveOf(n, nx, pv) /\ P(i) # NoRank
    /\ \A j \in LiveOf(n, nx, pv) :
            P(j) # NoRank => P(i) < P(j) \/ (P(i) = P(j) /\ i <= j)

\* Ranks of pairs lie below NoRank.
LEMMA PairRange ==
    ASSUME NEW m, NEW n, NEW s, NEW nx, NEW pv, ListOf(m, n, s, nx, pv), NEW i
    PROVE  PairOf(m, n, s, nx, pv, i) \in 0..NoRank - 1 \cup {NoRank}
<1>1. \A p \in DOMAIN m : m[p].rank \in 0..NoRank - 1
  BY TableAssumption DEF ListOf
<1> QED BY <1>1 DEF PairOf, RankIn

\* The lowest pair of the list is the best candidate of its word.
LEMMA BestFacts ==
    ASSUME NEW m, NEW n, NEW s, NEW nx, NEW pv, ListOf(m, n, s, nx, pv),
           NEW i, Lowest(m, n, s, nx, pv, i)
    PROVE  LET k == Upto(LiveOf(n, nx, pv), i)
               w == Word(n, s, nx, pv)
           IN  k \in Abstract!Candidates(m, w) /\ Abstract!Best(m, w) = k
<1> DEFINE L == LiveOf(n, nx, pv)
           w == Word(n, s, nx, pv)
           C == Abstract!Candidates(m, w)
           P(j) == PairOf(m, n, s, nx, pv, j)
           R(k) == Abstract!RankAt(m, w, k)
           b == Upto(L, i)
<1>1. n \in Nat
  BY DEF ListOf
<1>2. L \in SUBSET Nat /\ IsFiniteSet(L)
  BY <1>1, LiveFacts
<1>3. /\ \A k \in C : \E j \in L : k = Upto(L, j)
      /\ \A j \in L : /\ Upto(L, j) \in C <=> P(j) # NoRank
                      /\ Upto(L, j) \in C => R(Upto(L, j)) = P(j)
  BY CandidateFacts
<1>4. \A j \in L : P(j) # NoRank => P(j) \in Nat
  BY PairRange, Bounds
<1>5. /\ i \in L /\ P(i) # NoRank
      /\ \A j \in L : P(j) # NoRank => P(i) < P(j) \/ (P(i) = P(j) /\ i <= j)
  BY DEF Lowest
<1>6. Abstract!Best(m, w) = CHOOSE k \in C : \A o \in C : R(k) < R(o) \/ (R(k) = R(o) /\ k <= o)
  BY DEF Abstract!Best
<1>7. /\ \A j \in L : Upto(L, j) \in Nat
      /\ \A j, o \in L : j < o => Upto(L, j) < Upto(L, o)
  <2>1. Cardinality(L) \in Nat
    BY <1>1, LiveFacts
  <2> HIDE DEF L
  <2> QED BY <2>1, <1>2, UptoFacts
<1> HIDE DEF L, w, C, P, R, b
<1>8. b \in C /\ R(b) = P(i) /\ b \in Nat /\ P(i) \in Nat
  BY <1>3, <1>4, <1>5, <1>7 DEF b
<1>9. \A o \in C : o \in Nat /\ R(o) \in Nat /\ (R(b) < R(o) \/ (R(b) = R(o) /\ b <= o))
  <2> TAKE o \in C
  <2>1. PICK j \in L : o = Upto(L, j)
    BY <1>3
  <2>2. P(j) # NoRank /\ R(o) = P(j) /\ P(j) \in Nat /\ o \in Nat
    BY <2>1, <1>3, <1>4, <1>7
  <2>3. P(i) < P(j) \/ (P(i) = P(j) /\ i <= j)
    BY <2>2, <1>5
  <2>4. i <= j => b <= o
    <3>1. i \in Nat /\ j \in Nat
      BY <1>2, <1>5
    <3>2. i < j => b < o
      BY <2>1, <1>5, <1>7 DEF b
    <3>3. i = j => b = o
      BY <2>1 DEF b
    <3> QED BY <3>1, <3>2, <3>3, <2>2, <1>8
  <2> QED BY <2>2, <2>3, <2>4, <1>8
<1>10. \A k \in C : (\A o \in C : R(k) < R(o) \/ (R(k) = R(o) /\ k <= o)) => k = b
  <2> SUFFICES ASSUME NEW k \in C, \A o \in C : R(k) < R(o) \/ (R(k) = R(o) /\ k <= o)
               PROVE  k = b
    OBVIOUS
  <2>1. R(k) < R(b) \/ (R(k) = R(b) /\ k <= b)
    BY <1>8
  <2>2. k \in Nat /\ R(k) \in Nat /\ (R(b) < R(k) \/ (R(b) = R(k) /\ b <= k))
    BY <1>9
  <2> QED BY <2>1, <2>2, <1>8
<1>11. Abstract!Best(m, w) = b
  <2>1. \E k \in C : \A o \in C : R(k) < R(o) \/ (R(k) = R(o) /\ k <= o)
    BY <1>8, <1>9
  <2> QED BY <2>1, <1>6, <1>10
<1> QED BY <1>8, <1>11 DEF b, L, w, C

-----------------------------------------------------------------------------
(* One merge. *)

\* The links after the right neighbour of i is unlinked.
Unlinked(n, nx, pv, i, nx2, pv2) ==
    LET d == nx[i]
        r == nx[d]
    IN  /\ nx2 \in [0..n - 1 -> Nat] /\ pv2 \in [0..n - 1 -> Nat]
        /\ nx2[i] = r /\ (nx2[d] = r \/ ~(nx2[d] < n))
        /\ \A j \in 0..n - 1 : j # i /\ j # d => nx2[j] = nx[j]
        /\ r < n => pv2[r] = i
        /\ \A j \in 0..n - 1 : j # r => pv2[j] = pv[j]

\* Unlinking a right neighbour leaves a list without it.
LEMMA UnlinkedFacts ==
    ASSUME NEW n \in Nat, NEW nx, NEW pv, NEW i, NEW nx2, NEW pv2,
           Chained(n, nx, pv), i \in LiveOf(n, nx, pv), nx[i] < n,
           Unlinked(n, nx, pv, i, nx2, pv2)
    PROVE  /\ nx[i] \in LiveOf(n, nx, pv) /\ i < nx[i]
           /\ LiveOf(n, nx2, pv2) = LiveOf(n, nx, pv) \ {nx[i]}
           /\ Chained(n, nx2, pv2)
<1> DEFINE L == LiveOf(n, nx, pv)
           L2 == LiveOf(n, nx2, pv2)
           d == nx[i]
           r == nx[d]
<1>1. /\ nx \in [0..n - 1 -> Nat] /\ pv \in [0..n - 1 -> Nat]
      /\ n > 0 => pv[0] >= n
      /\ \A j \in 1..n - 1 : pv[j] < n
      /\ \A j \in L : Neighbours(L, n, nx, pv, j)
  BY DEF Chained
<1>2. L \in SUBSET (0..n - 1) /\ L \in SUBSET Nat
  BY LiveFacts
<1>3. /\ \A j \in 0..n - 1 : j \in L <=> j = 0 \/ nx[pv[j]] = j
      /\ \A j \in 0..n - 1 : j \in L2 <=> j = 0 \/ nx2[pv2[j]] = j
      /\ L2 \in SUBSET (0..n - 1)
  BY DEF LiveOf
<1>4. /\ nx2 \in [0..n - 1 -> Nat] /\ pv2 \in [0..n - 1 -> Nat]
      /\ nx2[i] = r /\ (nx2[d] = r \/ ~(nx2[d] < n))
      /\ \A j \in 0..n - 1 : j # i /\ j # d => nx2[j] = nx[j]
      /\ r < n => pv2[r] = i
      /\ \A j \in 0..n - 1 : j # r => pv2[j] = pv[j]
  BY DEF Unlinked
<1> HIDE DEF L, L2
<1>5. /\ i \in L /\ d \in L /\ i < d /\ pv[d] = i
      /\ \A j \in L : j <= i \/ d <= j
  <2>1. i \in L /\ d < n
    BY DEF L
  <2> QED BY <2>1, <1>1 DEF Neighbours
<1>6. /\ r < n => r \in L /\ d < r /\ pv[r] = d /\ \A j \in L : j <= d \/ r <= j
      /\ ~(r < n) => \A j \in L : j <= d
  <2>1. Neighbours(L, n, nx, pv, d)
    BY <1>1, <1>5
  <2> HIDE DEF d
  <2> QED BY <2>1 DEF Neighbours
<1>7. /\ i \in 0..n - 1 /\ d \in 0..n - 1 /\ i \in Nat /\ d \in Nat /\ r \in Nat
      /\ d # 0 /\ d # i /\ r # d /\ r # 0 /\ r # i
  <2>1. i \in 0..n - 1 /\ d \in 0..n - 1
    BY <1>2, <1>5
  <2>2. r \in Nat
    BY <2>1, <1>1
  <2> HIDE DEF d, r
  <2> QED BY <2>1, <2>2, <1>5, <1>6
<1>8. \A j \in L : j # 0 => pv[j] \in L /\ pv[j] < j /\ nx[pv[j]] = j
  BY <1>1 DEF Neighbours
<1>9. \A j \in L : IF nx[j] < n THEN /\ nx[j] \in L /\ j < nx[j] /\ pv[nx[j]] = j
                                      /\ \A o \in L : o <= j \/ nx[j] <= o
                   ELSE \A o \in L : o <= j
  BY <1>1 DEF Neighbours
<1> HIDE DEF d, r
<1>10. ASSUME NEW j \in 0..n - 1
       PROVE  j \in L2 <=> j \in L /\ j # d
  <2>1. CASE j = 0
    BY <2>1, <1>3, <1>7
  <2>2. CASE j = d
    <3>1. pv2[j] = i
      BY <2>2, <1>4, <1>5, <1>7
    <3> QED BY <3>1, <2>2, <1>3, <1>4, <1>7
  <2>3. CASE j = r
    <3>1. r < n
      BY <2>3
    <3> QED BY <3>1, <2>3, <1>3, <1>4, <1>6, <1>7
  <2>4. CASE j # 0 /\ j # d /\ j # r
    <3> DEFINE q == pv[j]
    <3>1. pv2[j] = q /\ q \in 0..n - 1
      <4>1. j \in 1..n - 1
        BY <2>4
      <4> QED BY <4>1, <2>4, <1>1, <1>4
    <3> HIDE DEF q
    <3>2. q = d => nx2[q] # j /\ nx[q] # j
      BY <2>4, <1>4 DEF r
    <3>3. q = i => nx2[q] # j /\ nx[q] # j
      BY <2>4, <1>4 DEF d
    <3>4. q # i /\ q # d => nx2[q] = nx[q]
      BY <3>1, <1>4
    <3>5. (nx2[q] = j) <=> (nx[q] = j)
      BY <3>2, <3>3, <3>4
    <3> QED BY <3>1, <3>5, <2>4, <1>3 DEF q
  <2> QED BY <2>1, <2>2, <2>3, <2>4
<1>11. L2 = L \ {d}
  BY <1>2, <1>3, <1>10
<1>12. ASSUME NEW j \in L2
       PROVE  Neighbours(L2, n, nx2, pv2, j)
  <2>1. j \in L /\ j # d /\ j \in 0..n - 1 /\ j \in Nat
    BY <1>2, <1>11
  <2>2. \A o \in L2 : o \in L /\ o # d /\ o \in Nat
    BY <1>2, <1>11
  <2>3. ASSUME j # 0
        PROVE  pv2[j] \in L2 /\ pv2[j] < j /\ nx2[pv2[j]] = j
    <3>1. CASE j = r
      <4>1. j < n
        BY <2>1
      <4> QED BY <4>1, <3>1, <1>4, <1>5, <1>6, <1>7, <1>11
    <3>2. CASE j # r
      <4> DEFINE q == pv[j]
      <4>1. q \in L /\ q < j /\ nx[q] = j /\ pv2[j] = q /\ q \in 0..n - 1
        BY <3>2, <2>1, <2>3, <1>2, <1>4, <1>8
      <4> HIDE DEF q
      <4>2. q # d
        BY <4>1, <3>2 DEF r
      <4>3. q # i
        BY <4>1, <2>1 DEF d
      <4> QED BY <4>1, <4>2, <4>3, <1>4, <1>11
    <3> QED BY <3>1, <3>2
  <2>4. IF nx2[j] < n THEN /\ nx2[j] \in L2 /\ j < nx2[j] /\ pv2[nx2[j]] = j
                           /\ \A o \in L2 : o <= j \/ nx2[j] <= o
        ELSE \A o \in L2 : o <= j
    <3>1. CASE j = i
      <4>1. \A o \in L2 : o <= i \/ d < o
        BY <2>2, <1>5, <1>7
      <4>2. CASE r < n
        <5>1. r \in L2 /\ i < r /\ pv2[r] = i
          BY <4>2, <1>4, <1>5, <1>6, <1>7, <1>11
        <5>2. \A o \in L2 : o <= i \/ r <= o
          BY <4>1, <4>2, <2>2, <1>6, <1>7
        <5> QED BY <5>1, <5>2, <4>2, <3>1, <1>4
      <4>3. CASE ~(r < n)
        <5>1. \A o \in L2 : o <= i
          BY <4>1, <4>3, <2>2, <1>6, <1>7
        <5> QED BY <5>1, <4>3, <3>1, <1>4
      <4> QED BY <4>2, <4>3
    <3>2. CASE j # i
      <4> DEFINE o == nx[j]
      <4>1. nx2[j] = o
        BY <3>2, <2>1, <1>4
      <4>2. CASE o < n
        <5>1. o \in L /\ j < o /\ pv[o] = j /\ \A x \in L : x <= j \/ o <= x
          BY <4>2, <2>1, <1>9
        <5>2. o # d /\ o # r
          BY <5>1, <3>2, <2>1, <1>5, <1>6, <4>2
        <5>3. pv2[o] = j /\ o \in L2
          BY <5>1, <5>2, <1>2, <1>4, <1>11
        <5> QED BY <5>1, <5>3, <4>1, <4>2, <2>2
      <4>3. CASE ~(o < n)
        <5>1. \A x \in L : x <= j
          BY <4>3, <2>1, <1>9
        <5> QED BY <5>1, <4>1, <4>3, <2>2
      <4> QED BY <4>2, <4>3
    <3> QED BY <3>1, <3>2
  <2> QED BY <2>3, <2>4 DEF Neighbours
<1>13. (n > 0 => pv2[0] >= n) /\ \A j \in 1..n - 1 : pv2[j] < n
  <2>1. n > 0 => pv2[0] >= n
    BY <1>1, <1>4, <1>7
  <2>2. ASSUME NEW j \in 1..n - 1
        PROVE  pv2[j] < n
    <3>1. j \in 0..n - 1 /\ pv[j] < n /\ i < n
      BY <1>1, <1>7
    <3>2. j = r => pv2[j] = i
      BY <3>1, <1>4
    <3>3. j # r => pv2[j] = pv[j]
      BY <3>1, <1>4
    <3> QED BY <3>1, <3>2, <3>3
  <2> QED BY <2>1, <2>2
<1>14. Chained(n, nx2, pv2)
  BY <1>4, <1>12, <1>13 DEF Chained, L2
<1> QED BY <1>5, <1>11, <1>14 DEF L, L2, d

\* Replacing two neighbours of a sequence by one symbol.
LEMMA Splice ==
    ASSUME NEW S, NEW w \in Seq(S), NEW k \in 1..Len(w) - 1, NEW x \in S, NEW v \in Seq(S),
           Len(v) = Len(w) - 1,
           \A q \in 1..Len(v) : v[q] = IF q < k THEN w[q] ELSE IF q = k THEN x ELSE w[q + 1]
    PROVE  v = SubSeq(w, 1, k - 1) \o <<x>> \o SubSeq(w, k + 2, Len(w))
<1> DEFINE K == Len(w)
           front == SubSeq(w, 1, k - 1)
           back == SubSeq(w, k + 2, K)
           mid == <<x>>
           fm == front \o mid
           all == fm \o back
<1>1. K \in Nat /\ k \in Nat /\ k >= 1 /\ k + 1 <= K /\ \A q \in 1..K : w[q] \in S
  <2>1. K \in Nat
    BY LenProperties
  <2>2. \A q \in 1..K : w[q] \in S
    BY ElementOfSeq
  <2> HIDE DEF K
  <2>3. k \in 1..K - 1
    BY DEF K
  <2> QED BY <2>1, <2>2, <2>3
<1> HIDE DEF K
<1>2. /\ front \in Seq(S) /\ Len(front) = k - 1
      /\ \A q \in 1..k - 1 : front[q] = w[q]
  <2> DEFINE o == 1
             e == k - 1
  <2>1. o \in Int /\ e \in Int /\ \A q \in o..e : w[q] \in S
    BY <1>1
  <2> HIDE DEF o, e
  <2>2. /\ SubSeq(w, o, e) \in Seq(S)
        /\ Len(SubSeq(w, o, e)) = IF o <= e THEN e - o + 1 ELSE 0
        /\ \A q \in 1..e - o + 1 : SubSeq(w, o, e)[q] = w[o + q - 1]
    BY <2>1, SubSeqProperties
  <2>3. front = SubSeq(w, o, e)
    BY DEF o, e
  <2> HIDE DEF front
  <2>4. Len(front) = k - 1
    BY <2>2, <2>3, <1>1 DEF o, e
  <2>5. \A q \in 1..k - 1 : front[q] = w[q]
    BY <2>2, <2>3, <1>1 DEF o, e
  <2> QED BY <2>2, <2>3, <2>4, <2>5
<1>3. /\ back \in Seq(S) /\ Len(back) = K - k - 1
      /\ \A q \in 1..K - k - 1 : back[q] = w[k + 1 + q]
  <2> DEFINE o == k + 2
  <2>1. o \in Int /\ K \in Int /\ \A q \in o..K : w[q] \in S
    BY <1>1
  <2> HIDE DEF o
  <2>2. /\ SubSeq(w, o, K) \in Seq(S)
        /\ Len(SubSeq(w, o, K)) = IF o <= K THEN K - o + 1 ELSE 0
        /\ \A q \in 1..K - o + 1 : SubSeq(w, o, K)[q] = w[o + q - 1]
    BY <2>1, SubSeqProperties
  <2>3. back = SubSeq(w, o, K)
    BY DEF o
  <2> HIDE DEF back
  <2>4. Len(back) = K - k - 1
    BY <2>2, <2>3, <1>1 DEF o
  <2>5. \A q \in 1..K - k - 1 : back[q] = w[k + 1 + q]
    <3> SUFFICES ASSUME NEW q \in 1..K - k - 1
                 PROVE  back[q] = w[k + 1 + q]
      OBVIOUS
    <3>1. q \in 1..K - o + 1 /\ o + q - 1 = k + 1 + q
      BY <1>1 DEF o
    <3> QED BY <3>1, <2>2, <2>3
  <2> QED BY <2>2, <2>3, <2>4, <2>5
<1>4. mid \in Seq(S) /\ Len(mid) = 1 /\ mid[1] = x
  OBVIOUS
<1> HIDE DEF front, back, mid
<1>5. /\ fm \in Seq(S) /\ Len(fm) = k
      /\ \A q \in 1..k : fm[q] = IF q <= k - 1 THEN front[q] ELSE mid[q - (k - 1)]
  <2>1. /\ fm \in Seq(S) /\ Len(fm) = Len(front) + Len(mid)
        /\ \A q \in 1..Len(front) + Len(mid) :
                fm[q] = IF q <= Len(front) THEN front[q] ELSE mid[q - Len(front)]
    BY <1>2, <1>4, ConcatProperties
  <2>2. Len(front) + Len(mid) = k
    BY <1>1, <1>2, <1>4
  <2> QED BY <2>1, <2>2, <1>2
<1> HIDE DEF fm
<1>6. /\ all \in Seq(S) /\ Len(all) = K - 1
      /\ \A q \in 1..K - 1 : all[q] = IF q <= k THEN fm[q] ELSE back[q - k]
  <2>1. /\ all \in Seq(S) /\ Len(all) = Len(fm) + Len(back)
        /\ \A q \in 1..Len(fm) + Len(back) :
                all[q] = IF q <= Len(fm) THEN fm[q] ELSE back[q - Len(fm)]
    <3>1. fm \in Seq(S) /\ back \in Seq(S)
      BY <1>3, <1>5
    <3> QED BY <3>1, ConcatProperties
  <2>2. Len(fm) + Len(back) = K - 1
    <3>1. Len(fm) = k /\ Len(back) = K - k - 1
      BY <1>3, <1>5
    <3> QED BY <3>1, <1>1
  <2> QED BY <2>1, <2>2, <1>5
<1> HIDE DEF all
<1>7. Len(v) = K - 1
  BY DEF K
<1>8. \A q \in 1..Len(v) : v[q] = all[q]
  <2> SUFFICES ASSUME NEW q \in 1..K - 1
               PROVE  v[q] = all[q]
    BY <1>7
  <2>1. v[q] = IF q < k THEN w[q] ELSE IF q = k THEN x ELSE w[q + 1]
    BY <1>7
  <2>2. CASE q < k
    <3>1. q \in 1..k - 1 /\ q \in 1..k /\ q <= k /\ q <= k - 1
      BY <2>2, <1>1
    <3>2. v[q] = w[q] /\ all[q] = fm[q]
      BY <3>1, <2>1, <2>2, <1>6
    <3>3. fm[q] = front[q] /\ front[q] = w[q]
      BY <3>1, <1>2, <1>5
    <3> QED BY <3>2, <3>3
  <2>3. CASE q = k
    <3>1. q \in 1..k /\ ~(q <= k - 1) /\ q - (k - 1) = 1
      BY <2>3, <1>1
    <3> QED BY <3>1, <2>1, <2>3, <1>1, <1>4, <1>5, <1>6
  <2>4. CASE q > k
    <3>1. q - k \in 1..K - k - 1 /\ k + 1 + (q - k) = q + 1 /\ ~(q <= k) /\ ~(q < k) /\ q # k
      BY <2>4, <1>1
    <3> QED BY <3>1, <2>1, <1>3, <1>6
  <2>5. q < k \/ q = k \/ q > k
    BY <1>1
  <2> QED BY <2>2, <2>3, <2>4, <2>5
<1>9. v = all
  BY <1>6, <1>7, <1>8, SeqEqual
<1> QED BY <1>9 DEF all, fm, front, mid, back, K

\* The list after the pair at i became one symbol.
MergedList(m, n, s, nx, pv, i, s2, nx2, pv2) ==
    /\ ListOf(m, n, s, nx, pv) /\ Lowest(m, n, s, nx, pv, i)
    /\ Unlinked(n, nx, pv, i, nx2, pv2)
    /\ s2 = [s EXCEPT ![i + 1] = m[<<s[i + 1], s[nx[i] + 1]>>].id]

MergedTo(m, n, s, nx, pv, i, s2, nx2, pv2) ==
    LET L == LiveOf(n, nx, pv)
        p == <<s[i + 1], s[nx[i] + 1]>>
    IN  /\ i \in L /\ nx[i] \in L /\ i < nx[i] /\ nx[i] < n
        /\ p \in DOMAIN m /\ m[p].id \in Symbol /\ PairOf(m, n, s, nx, pv, i) = m[p].rank
        /\ s2 \in Seq(Symbol) /\ Len(s2) = n /\ s2[i + 1] = m[p].id
        /\ \A j \in 0..n - 1 : j # i => s2[j + 1] = s[j + 1]
        /\ LiveOf(n, nx2, pv2) = L \ {nx[i]}
        /\ ListOf(m, n, s2, nx2, pv2)

\* What a merge leaves of the symbols and of the list.
LEMMA MergedFacts ==
    ASSUME NEW m, NEW n, NEW s, NEW nx, NEW pv, NEW i, NEW s2, NEW nx2, NEW pv2,
           MergedList(m, n, s, nx, pv, i, s2, nx2, pv2)
    PROVE  MergedTo(m, n, s, nx, pv, i, s2, nx2, pv2)
<1> DEFINE L == LiveOf(n, nx, pv)
           p == <<s[i + 1], s[nx[i] + 1]>>
           id == m[p].id
<1>1. /\ m \in Tables /\ n \in Nat /\ s \in Seq(Symbol) /\ Len(s) = n /\ Chained(n, nx, pv)
      /\ ListOf(m, n, s, nx, pv)
  BY DEF MergedList, ListOf
<1>2. i \in L /\ PairOf(m, n, s, nx, pv, i) # NoRank
  BY DEF MergedList, Lowest
<1>3. nx[i] < n /\ p \in DOMAIN m /\ PairOf(m, n, s, nx, pv, i) = m[p].rank
  BY <1>2 DEF PairOf, RankIn
<1>4. /\ nx[i] \in L /\ i < nx[i] /\ LiveOf(n, nx2, pv2) = L \ {nx[i]} /\ Chained(n, nx2, pv2)
  <2>1. Unlinked(n, nx, pv, i, nx2, pv2)
    BY DEF MergedList
  <2> QED BY <2>1, <1>1, <1>2, <1>3, UnlinkedFacts
<1>5. id \in Symbol
  BY <1>1, <1>3, TableAssumption
<1>6. i \in 0..n - 1 /\ i \in Nat /\ i + 1 \in 1..Len(s)
  <2>1. i \in 0..n - 1
    BY <1>1, <1>2, LiveFacts
  <2> QED BY <2>1, <1>1
<1>7. s2 = [s EXCEPT ![i + 1] = id]
  BY DEF MergedList
<1> HIDE DEF id, L, p
<1>8. /\ s2 \in Seq(Symbol) /\ Len(s2) = n
      /\ \A j \in 1..n : s2[j] = IF j = i + 1 THEN id ELSE s[j]
  BY <1>1, <1>5, <1>6, <1>7, ExceptSeq
<1>9. s2[i + 1] = id /\ \A j \in 0..n - 1 : j # i => s2[j + 1] = s[j + 1]
  <2>1. i + 1 \in 1..n
    BY <1>1, <1>6
  <2>2. ASSUME NEW j \in 0..n - 1, j # i
        PROVE  s2[j + 1] = s[j + 1]
    <3>1. j + 1 \in 1..n /\ j + 1 # i + 1
      BY <1>1, <1>6, <2>2
    <3> QED BY <3>1, <1>8
  <2> QED BY <2>1, <2>2, <1>8
<1>10. ListOf(m, n, s2, nx2, pv2)
  BY <1>1, <1>4, <1>8 DEF ListOf
<1> QED BY <1>2, <1>3, <1>4, <1>5, <1>8, <1>9, <1>10 DEF id, L, p, MergedTo

\* One merge of the list is the next merge of its symbols.
LEMMA WordMerged ==
    ASSUME NEW m, NEW n, NEW s, NEW nx, NEW pv, NEW i, NEW s2, NEW nx2, NEW pv2,
           MergedList(m, n, s, nx, pv, i, s2, nx2, pv2)
    PROVE  LET w == Word(n, s, nx, pv)
           IN  /\ Abstract!Candidates(m, w) # {}
               /\ Word(n, s2, nx2, pv2) = Abstract!MergeAt(m, w, Abstract!Best(m, w))
<1> DEFINE L == LiveOf(n, nx, pv)
           L2 == LiveOf(n, nx2, pv2)
           K == Cardinality(L)
           w == Word(n, s, nx, pv)
           v == Word(n, s2, nx2, pv2)
           d == nx[i]
           id == m[<<s[i + 1], s[nx[i] + 1]>>].id
           k == Upto(L, i)
<1>1. /\ ListOf(m, n, s, nx, pv) /\ Lowest(m, n, s, nx, pv, i)
      /\ ListOf(m, n, s2, nx2, pv2) /\ n \in Nat
      /\ i \in L /\ d \in L /\ d < n /\ L2 = L \ {d}
      /\ id \in Symbol /\ s2[i + 1] = id
      /\ \A j \in 0..n - 1 : j # i => s2[j + 1] = s[j + 1]
  <2>1. ListOf(m, n, s, nx, pv) /\ Lowest(m, n, s, nx, pv, i) /\ n \in Nat
    BY DEF MergedList, ListOf
  <2>2. MergedTo(m, n, s, nx, pv, i, s2, nx2, pv2)
    BY MergedFacts
  <2>3. /\ ListOf(m, n, s2, nx2, pv2)
        /\ i \in L /\ d \in L /\ d < n /\ L2 = L \ {d}
        /\ id \in Symbol /\ s2[i + 1] = id
        /\ \A j \in 0..n - 1 : j # i => s2[j + 1] = s[j + 1]
    BY <2>2 DEF MergedTo
  <2> QED BY <2>1, <2>3
<1>2. k \in Abstract!Candidates(m, w) /\ Abstract!Best(m, w) = k
  BY <1>1, BestFacts
<1>3. L \in SUBSET Nat /\ L \in SUBSET (0..n - 1) /\ IsFiniteSet(L) /\ K \in Nat
  BY <1>1, LiveFacts
<1>4. /\ w \in Seq(Symbol) /\ Len(w) = K
      /\ \A j \in L : /\ Upto(L, j) \in 1..Len(w) /\ w[Upto(L, j)] = s[j + 1]
                      /\ nx[j] < n => Upto(L, nx[j]) = Upto(L, j) + 1
  <2>1. ListOf(m, n, s, nx, pv)
    BY <1>1
  <2> QED BY ONLY <2>1, WordFacts
<1>5. v \in Seq(Symbol) /\ Len(v) = Cardinality(L2)
  <2>1. ListOf(m, n, s2, nx2, pv2)
    BY <1>1
  <2> QED BY ONLY <2>1, WordFacts
<1>6. /\ w = [q \in 1..K |-> s[Spot(L, q) + 1]]
      /\ v = [q \in 1..Cardinality(L2) |-> s2[Spot(L2, q) + 1]]
  BY DEF Word
<1> HIDE DEF L, L2, K, w, v, d, id, k
<1>7. Upto(L, d) = k + 1 /\ k \in 1..K /\ k + 1 \in 1..K /\ w[k] = s[i + 1] /\ w[k + 1] = s[d + 1]
  <2>1. Upto(L, d) = k + 1
    BY <1>1, <1>4 DEF d, k
  <2>2. k \in 1..K /\ w[k] = s[i + 1]
    BY <1>1, <1>4 DEF k
  <2>3. Upto(L, d) \in 1..K /\ w[Upto(L, d)] = s[d + 1]
    BY <1>1, <1>4
  <2> QED BY <2>1, <2>2, <2>3
<1>8. /\ Cardinality(L2) = K - 1
      /\ \A q \in 1..Cardinality(L2) : Spot(L2, q) = Spot(L, IF q < k + 1 THEN q ELSE q + 1)
  <2>1. LET e == Upto(L, d)
        IN  /\ Cardinality(L \ {d}) = Cardinality(L) - 1
            /\ \A q \in 1..Cardinality(L \ {d}) :
                    Spot(L \ {d}, q) = Spot(L, IF q < e THEN q ELSE q + 1)
    BY <1>1, <1>3, SpotRemoved
  <2> QED BY <2>1, <1>1, <1>7 DEF K
<1>9. /\ \A q \in 1..K : Spot(L, q) \in L /\ Upto(L, Spot(L, q)) = q
      /\ Spot(L, k) = i
  BY <1>1, <1>3, SpotFacts DEF K, k
<1>10. ASSUME NEW q \in 1..K - 1
       PROVE  v[q] = IF q < k THEN w[q] ELSE IF q = k THEN id ELSE w[q + 1]
  <2> DEFINE o == IF q < k + 1 THEN q ELSE q + 1
             a == Spot(L, o)
  <2>1. o \in 1..K /\ q \in Nat /\ k \in Nat
    BY <1>3, <1>7
  <2>2. v[q] = s2[a + 1]
    BY <1>6, <1>8
  <2>3. w[o] = s[a + 1]
    <3> HIDE DEF o
    <3> QED BY <2>1, <1>6
  <2>4. a \in L /\ Upto(L, a) = o
    <3> HIDE DEF o
    <3> QED BY <2>1, <1>9
  <2> HIDE DEF a
  <2>5. CASE q = k
    <3>1. o = k
      BY <2>5, <2>1
    <3>2. a = i
      BY <3>1, <1>9 DEF a
    <3> QED BY <3>2, <2>2, <2>5, <1>1
  <2>6. CASE q # k
    <3>1. o # k /\ o = IF q < k THEN q ELSE q + 1
      BY <2>6, <2>1
    <3> HIDE DEF o
    <3>2. a # i
      BY <3>1, <2>4 DEF k
    <3>3. a \in 0..n - 1
      BY <2>4, <1>3
    <3>4. v[q] = w[o]
      BY <3>2, <3>3, <2>2, <2>3, <1>1
    <3> QED BY <3>1, <3>4, <2>6
  <2> QED BY <2>5, <2>6
<1>11. v = SubSeq(w, 1, k - 1) \o <<id>> \o SubSeq(w, k + 2, Len(w))
  <2>1. k \in 1..Len(w) - 1
    BY <1>4, <1>7
  <2>2. Len(v) = Len(w) - 1
    BY <1>4, <1>5, <1>8
  <2>3. \A q \in 1..Len(v) : v[q] = IF q < k THEN w[q] ELSE IF q = k THEN id ELSE w[q + 1]
    BY <1>5, <1>8, <1>10
  <2>4. id \in Symbol /\ w \in Seq(Symbol) /\ v \in Seq(Symbol)
    BY <1>1, <1>4, <1>5
  <2> QED BY ONLY <2>1, <2>2, <2>3, <2>4, Splice
<1>12. id = m[<<w[k], w[k + 1]>>].id
  BY <1>7 DEF id, d
<1>13. Abstract!MergeAt(m, w, k)
            = SubSeq(w, 1, k - 1) \o <<m[<<w[k], w[k + 1]>>].id>> \o SubSeq(w, k + 2, Len(w))
  BY DEF Abstract!MergeAt
<1>14. v = Abstract!MergeAt(m, w, Abstract!Best(m, w))
  BY <1>2, <1>11, <1>12, <1>13
<1> QED BY <1>2, <1>14 DEF v, w

\* A merge changes the pairs of the merged symbol and of the one before it.
LEMMA PairsMerged ==
    ASSUME NEW m, NEW n, NEW s, NEW nx, NEW pv, NEW i, NEW s2, NEW nx2, NEW pv2,
           MergedList(m, n, s, nx, pv, i, s2, nx2, pv2)
    PROVE  LET P(j) == PairOf(m, n, s, nx, pv, j)
               P2(j) == PairOf(m, n, s2, nx2, pv2, j)
           IN  /\ P2(i) = IF nx2[i] < n THEN RankIn(m, s2[i + 1], s2[nx2[i] + 1]) ELSE NoRank
               /\ P2(nx[i]) = NoRank
               /\ pv[i] < n => /\ pv[i] \in LiveOf(n, nx, pv) /\ pv[i] # i /\ pv[i] # nx[i]
                               /\ P2(pv[i]) = RankIn(m, s[pv[i] + 1], s2[i + 1])
               /\ \A j : j # i /\ j # nx[i] /\ j # pv[i] => P2(j) = P(j)
<1> DEFINE L == LiveOf(n, nx, pv)
           L2 == LiveOf(n, nx2, pv2)
           P(j) == PairOf(m, n, s, nx, pv, j)
           P2(j) == PairOf(m, n, s2, nx2, pv2, j)
           d == nx[i]
           q == pv[i]
<1>1. /\ ListOf(m, n, s, nx, pv) /\ n \in Nat /\ Unlinked(n, nx, pv, i, nx2, pv2)
      /\ Chained(n, nx, pv)
  BY DEF MergedList, ListOf
<1>2. /\ i \in L /\ d \in L /\ i < d /\ d < n /\ L2 = L \ {d}
      /\ \A j \in 0..n - 1 : j # i => s2[j + 1] = s[j + 1]
  <2>1. MergedTo(m, n, s, nx, pv, i, s2, nx2, pv2)
    BY MergedFacts
  <2> QED BY <2>1 DEF MergedTo
<1>3. L \in SUBSET (0..n - 1) /\ L \in SUBSET Nat
  BY <1>1, LiveFacts
<1>4. \A j \in L : Neighbours(L, n, nx, pv, j)
  BY <1>1 DEF Chained
<1>5. \A j \in 0..n - 1 : j # i /\ j # d => nx2[j] = nx[j]
  BY <1>1 DEF Unlinked
<1>6. /\ \A j : P(j) = IF j \in L /\ nx[j] < n THEN RankIn(m, s[j + 1], s[nx[j] + 1]) ELSE NoRank
      /\ \A j : P2(j) = IF j \in L2 /\ nx2[j] < n THEN RankIn(m, s2[j + 1], s2[nx2[j] + 1])
                        ELSE NoRank
  BY DEF PairOf
<1>7. q >= n \/ i # 0
  <2>1. n > 0 => pv[0] >= n
    BY <1>1 DEF Chained
  <2>2. n > 0
    BY <1>1, <1>2, <1>3
  <2> QED BY <2>1, <2>2
<1> HIDE DEF L, L2, P, P2, d
<1>8. i \in L2 /\ d \notin L2 /\ i \in 0..n - 1 /\ d \in 0..n - 1
  BY <1>2, <1>3
<1>9. P2(i) = IF nx2[i] < n THEN RankIn(m, s2[i + 1], s2[nx2[i] + 1]) ELSE NoRank
  BY <1>6, <1>8
<1>10. P2(d) = NoRank
  BY <1>6, <1>8
<1>11. i # 0 => q \in L /\ q < i /\ nx[q] = i
  BY <1>2, <1>4 DEF Neighbours
<1> HIDE DEF q
<1>12. \A j \in L : j # q => nx[j] # i \/ ~(nx[j] < n)
  <2> SUFFICES ASSUME NEW j \in L, nx[j] = i, nx[j] < n
               PROVE  j = q
    OBVIOUS
  <2> QED BY <1>4 DEF Neighbours, q
<1>13. \A j \in L : j # i => nx[j] # d \/ ~(nx[j] < n)
  <2> SUFFICES ASSUME NEW j \in L, nx[j] = d, nx[j] < n
               PROVE  j = i
    OBVIOUS
  <2>1. pv[d] = j
    BY <1>4 DEF Neighbours
  <2>2. pv[d] = i
    BY <1>2, <1>4 DEF Neighbours, d
  <2> QED BY <2>1, <2>2
<1>14. ASSUME q < n
       PROVE  q \in L /\ q # i /\ q # d /\ P2(q) = RankIn(m, s[q + 1], s2[i + 1])
  <2>1. i # 0
    <3>1. pv[i] \in Nat
      BY <1>1, <1>8 DEF Chained
    <3> QED BY <3>1, <1>14, <1>7, <1>1 DEF q
  <2>2. q \in L /\ q < i /\ nx[q] = i
    BY <2>1, <1>11
  <2>3. q # i /\ q # d /\ q \in 0..n - 1
    BY <2>2, <1>2, <1>3
  <2>4. nx2[q] = i /\ s2[q + 1] = s[q + 1] /\ q \in L2
    BY <2>2, <2>3, <1>2, <1>5
  <2>5. i < n
    BY <1>1, <1>8
  <2>6. P2(q) = RankIn(m, s2[q + 1], s2[nx2[q] + 1])
    BY <2>4, <2>5, <1>6
  <2> QED BY <2>2, <2>3, <2>4, <2>6
<1>15. ASSUME NEW j, j # i, j # d, j # q
       PROVE  P2(j) = P(j)
  <2>1. CASE j \notin L
    BY <2>1, <1>2, <1>6
  <2>2. CASE j \in L
    <3>1. j \in L2 /\ j \in 0..n - 1 /\ nx2[j] = nx[j] /\ s2[j + 1] = s[j + 1]
      BY <2>2, <1>2, <1>3, <1>5, <1>15
    <3>2. CASE nx[j] < n
      <4>1. nx[j] # i
        BY <2>2, <3>2, <1>12, <1>15
      <4>2. nx[j] \in L
        BY <2>2, <3>2, <1>4 DEF Neighbours
      <4>3. s2[nx[j] + 1] = s[nx[j] + 1]
        BY <4>1, <4>2, <1>2, <1>3
      <4>4. P2(j) = RankIn(m, s2[j + 1], s2[nx2[j] + 1]) /\ P(j) = RankIn(m, s[j + 1], s[nx[j] + 1])
        BY <2>2, <3>1, <3>2, <1>6
      <4> QED BY <3>1, <4>3, <4>4
    <3>3. CASE ~(nx[j] < n)
      BY <2>2, <3>1, <3>3, <1>6
    <3> QED BY <3>2, <3>3
  <2> QED BY <2>1, <2>2
<1> QED BY <1>9, <1>10, <1>14, <1>15 DEF P, P2, L, d, q

-----------------------------------------------------------------------------
(* The states of a call. *)

\* The pairs that left todo are in the flat table.
BuildInv ==
    /\ merges \in Tables /\ todo \in SUBSET DOMAIN merges
    /\ flat # NoTable => Packable(merges) /\ TableInv(flat, merges, DOMAIN merges \ todo)

ListInv == ListOf(merges, N, token, next, prev)

P(i) == PairOf(merges, N, token, next, prev, i)

\* The symbols before read are copied to the front.
CopyInv ==
    /\ read \in Nat /\ written \in Nat /\ (written = 0 => read = 0)
    /\ IF read < N THEN read \in Live /\ Upto(Live, read) = written + 1
       ELSE written = Cardinality(Live)

ScanInv ==
    /\ N <= SMALL_MERGE_MAX /\ ranks \in [0..SMALL_MERGE_MAX - 1 -> Nat]
    /\ \A i \in 0..N - 1 : ranks[i] = P(i)

LanesInv ==
    /\ flat # NoTable
    /\ \A i \in 0..SHORT_MERGE_MAX - 1 :
            IF P(i) # NoRank THEN ranks[i] = Pack(P(i), i) ELSE ranks[i] >= NO_MERGE_FLOOR

\* Every pair has its entry; the other entries are stale.
HeapInv ==
    /\ IsABag(heap) /\ BagToSet(heap) \subseteq (0..NoRank - 1) \X (0..N - 1)
    /\ \A i \in 0..N - 1 : P(i) # NoRank => <<P(i), i>> \in BagToSet(heap)
    /\ \A i \in 0..N - 1 : next[i] < N \/ next[i] = NONE
    /\ \A i \in 0..N - 1 : i \notin Live => next[i] = NONE

LoopInv ==
    /\ loop \in {"scan", "lanes", "heap"}
    /\ loop = "scan" /\ N >= 2 => ScanInv
    /\ loop = "lanes" => LanesInv
    /\ loop = "heap" => HeapInv

LaneType ==
    loop = "lanes" => /\ N \in 2..SHORT_MERGE_MAX - 1
                      /\ ranks \in [0..SHORT_MERGE_MAX - 1 -> Nat]

\* Compaction began, or the call has ended.
Done == written > 0 \/ out # <<>>

Waiting == read = 0 /\ written = 0 /\ out = <<>>

Working ==
    /\ Built /\ ListInv /\ CopyInv /\ LaneType
    /\ IF Done THEN Exhausted /\ Abstract!Candidates(merges, Current) = {} ELSE LoopInv

IInv ==
    /\ BuildInv
    /\ token \in Seq(Symbol) /\ N <= NONE
    /\ IF loop = "none" THEN Waiting ELSE Working

\* Whatever table serves the call, it gives the rank and the symbol of the map.
Served ==
    \A a, b \in Symbol :
        /\ Rank(a, b) = RankIn(merges, a, b)
        /\ <<a, b>> \in DOMAIN merges =>
                /\ Merged(a, b) = merges[<<a, b>>].id
                /\ flat # NoTable => /\ RankIn(merges, a, b) = merges[<<a, b>>].id
                                     /\ RankIn(merges, a, b) \in 0..ID_LIMIT - 1

\* The lookup is exact once the table is built or given up.
LEMMA RankExact ==
    ASSUME BuildInv, Built
    PROVE  Served
<1> SUFFICES ASSUME NEW a \in Symbol, NEW b \in Symbol
             PROVE  /\ Rank(a, b) = RankIn(merges, a, b)
                    /\ <<a, b>> \in DOMAIN merges =>
                            /\ Merged(a, b) = merges[<<a, b>>].id
                            /\ flat # NoTable => /\ RankIn(merges, a, b) = merges[<<a, b>>].id
                                                 /\ RankIn(merges, a, b) \in 0..ID_LIMIT - 1
  BY DEF Served
<1>1. CASE flat = NoTable
  BY <1>1 DEF Rank, Merged, MapRank, MapId, RankIn
<1>2. CASE flat # NoTable
  <2>1. todo = {} /\ merges \in Tables /\ Packable(merges)
    BY <1>2 DEF Built, BuildInv
  <2>2. TableInv(flat, merges, DOMAIN merges)
    <3>1. TableInv(flat, merges, DOMAIN merges \ todo)
      BY <1>2 DEF BuildInv
    <3>2. DOMAIN merges \ todo = DOMAIN merges
      BY <2>1
    <3> QED BY <3>1, <3>2
  <2>3. TableRank(flat, a, b) = IF <<a, b>> \in DOMAIN merges THEN merges[<<a, b>>].id ELSE NoRank
    BY <2>1, <2>2, TableRankExact
  <2>4. <<a, b>> \in DOMAIN merges =>
            /\ merges[<<a, b>>].rank = merges[<<a, b>>].id
            /\ merges[<<a, b>>].id \in 0..ID_LIMIT - 1
    BY <2>1 DEF Packable
  <2> QED BY <2>3, <2>4, <1>2 DEF Rank, Merged, RankIn
<1> QED BY <1>1, <1>2

\* Dropping one entry of a heap and adding others.
LEMMA BagFacts ==
    ASSUME NEW b, IsABag(b), NEW e, NEW S
    PROVE  LET r == b (-) SetToBag({e})
               a == r (+) SetToBag(S)
           IN  /\ IsABag(r) /\ BagToSet(r) \subseteq BagToSet(b)
               /\ BagToSet(b) \ {e} \subseteq BagToSet(r)
               /\ IsABag(a) /\ BagToSet(a) = BagToSet(r) \cup S
<1> DEFINE r == b (-) SetToBag({e})
           a == r (+) SetToBag(S)
<1>1. b \in [DOMAIN b -> {k \in Nat : k > 0}]
  BY DEF IsABag
<1>2. /\ IsABag(r) /\ DOMAIN r \subseteq DOMAIN b /\ DOMAIN b \ {e} \subseteq DOMAIN r
  <2> DEFINE q == [x \in DOMAIN b |-> IF x \in {e} THEN b[x] - 1 ELSE b[x]]
  <2>1. r = [x \in {y \in DOMAIN q : q[y] > 0} |-> q[x]]
    BY DEF (-), SetToBag
  <2>2. \A x \in DOMAIN b : q[x] \in Int /\ (x # e => q[x] = b[x])
    BY <1>1
  <2>3. DOMAIN q = DOMAIN b
    OBVIOUS
  <2> HIDE DEF q, r
  <2>4. DOMAIN r = {y \in DOMAIN b : q[y] > 0} /\ \A x \in DOMAIN r : r[x] = q[x]
    BY <2>1, <2>3
  <2>5. \A x \in DOMAIN r : r[x] \in Nat /\ r[x] > 0
    BY <2>2, <2>4
  <2>6. \A x \in DOMAIN b : x # e => q[x] > 0
    BY <2>2, <1>1
  <2>7. r = [x \in DOMAIN r |-> r[x]]
    BY <2>1, <2>3
  <2>8. IsABag(r)
    BY <2>5, <2>7 DEF IsABag
  <2> QED BY <2>4, <2>6, <2>8
<1> HIDE DEF r
<1>3. /\ IsABag(a) /\ DOMAIN a = DOMAIN r \cup S
  <2>1. r \in [DOMAIN r -> {k \in Nat : k > 0}]
    BY <1>2 DEF IsABag
  <2>2. a = [x \in DOMAIN r \cup S |->
                (IF x \in DOMAIN r THEN r[x] ELSE 0) + (IF x \in S THEN 1 ELSE 0)]
    BY DEF (+), SetToBag
  <2> HIDE DEF a
  <2>3. \A x \in DOMAIN r \cup S : a[x] \in Nat /\ a[x] > 0
    BY <2>1, <2>2
  <2> QED BY <2>2, <2>3 DEF IsABag
<1> QED BY <1>2, <1>3 DEF BagToSet, r

\* A fresh heap holds the set it is built from.
LEMMA BagOfSet ==
    ASSUME NEW S
    PROVE  IsABag(SetToBag(S)) /\ BagToSet(SetToBag(S)) = S
BY DEF IsABag, BagToSet, SetToBag

\* The pair at the last position and at the empty ones.
LEMMA LastPair ==
    ASSUME NEW m, NEW n, NEW s, NEW nx, NEW pv, ListOf(m, n, s, nx, pv), NEW i,
           i \notin 0..n - 2
    PROVE  PairOf(m, n, s, nx, pv, i) = NoRank
<1> DEFINE L == LiveOf(n, nx, pv)
<1>1. n \in Nat /\ Chained(n, nx, pv)
  BY DEF ListOf
<1>2. L \in SUBSET (0..n - 1)
  BY <1>1, LiveFacts
<1> SUFFICES ASSUME i \in L, nx[i] < n
             PROVE  FALSE
  BY DEF PairOf
<1>3. nx[i] \in L /\ i < nx[i]
  BY <1>1 DEF Chained, Neighbours
<1> QED BY <1>1, <1>2, <1>3

\* Before compaction the list spells what the caller would read.
LEMMA CurrentIsWord ==
    ASSUME N \in Nat, loop # "none", written = 0, out = <<>>
    PROVE  Current = Word(N, token, next, prev)
<1>1. \A k : Nth(k) = Spot(Live, k)
  BY DEF Nth, Spot, Upto
<1>2. Live = LiveOf(N, next, prev)
  BY DEF Live, LiveOf
<1>3. Cardinality(Live) \in Nat
  <2>1. Cardinality(LiveOf(N, next, prev)) \in Nat
    BY LiveFacts
  <2> QED BY <2>1, <1>2
<1> QED BY <1>1, <1>2, <1>3 DEF Current, Word, At

\* What a merge at i does to the pairs, in the words of the loops.
NewPairs(i) ==
    LET P2(j) == PairOf(merges, N, token', next', prev', j) IN
    /\ \A j : P(j)' = P2(j) /\ P2(j) \in 0..NoRank - 1 \cup {NoRank}
    /\ flat # NoTable => \A j : P2(j) \in 0..ID_LIMIT - 1 \cup {NoRank}
    /\ PairRank(i, token', next') = P2(i)
    /\ P2(next[i]) = NoRank
    /\ Active(prev[i]) =>
            /\ prev[i] \in Live /\ prev[i] # i /\ prev[i] # next[i]
            /\ Rank(At(prev[i]), token'[i + 1]) = P2(prev[i])
    /\ \A j : j # i /\ j # next[i] /\ ~(Active(prev[i]) /\ j = prev[i]) => P2(j) = P(j)

MergeStep(i) ==
    /\ i \in Live /\ next[i] \in Live /\ i < next[i] /\ next[i] < N /\ N >= 2 /\ N' = N
    /\ Live' = Live \ {next[i]}
    /\ NewPairs(i) /\ Abstract!Step
    /\ LaneType' /\ LoopInv' => IInv'

\* Every loop merges by the same surgery; what is left to a loop is LoopInv.
LEMMA Merging ==
    ASSUME IInv, loop # "none", ~Done, NEW i, Lowest(merges, N, token, next, prev, i),
           Surgery(i, merges[<<At(i), At(next[i])>>].id),
           UNCHANGED <<merges, todo, flat, loop, read, written, out>>
    PROVE  MergeStep(i)
<1> DEFINE d == next[i]
           r == next[d]
           id == merges[<<At(i), At(next[i])>>].id
           L == LiveOf(N, next, prev)
           L2 == LiveOf(N, next', prev')
           P2(j) == PairOf(merges, N, token', next', prev', j)
<1>1. /\ ListOf(merges, N, token, next, prev) /\ BuildInv /\ Built /\ CopyInv
      /\ token \in Seq(Symbol) /\ N \in Nat /\ N <= NONE /\ written = 0 /\ out = <<>> /\ read = 0
  <2>1. Working /\ BuildInv /\ token \in Seq(Symbol) /\ N <= NONE
    BY DEF IInv
  <2>2. CopyInv /\ ListInv /\ Built
    BY <2>1 DEF Working
  <2>3. written = 0 /\ out = <<>> /\ read = 0
    BY <2>2 DEF Done, CopyInv
  <2> QED BY <2>1, <2>2, <2>3 DEF ListInv, ListOf
<1>2. /\ next \in [0..N - 1 -> Nat] /\ prev \in [0..N - 1 -> Nat]
      /\ \A j \in L : Neighbours(L, N, next, prev, j)
      /\ N > 0 => prev[0] >= N
      /\ \A j \in 1..N - 1 : prev[j] < N
  BY <1>1 DEF ListOf, Chained
<1>3. i \in L /\ d < N /\ <<At(i), At(d)>> \in DOMAIN merges
  <2>1. i \in L /\ PairOf(merges, N, token, next, prev, i) # NoRank
    BY DEF Lowest
  <2> QED BY <2>1 DEF PairOf, RankIn, At
<1>4. L \in SUBSET (0..N - 1) /\ L \in SUBSET Nat
  BY <1>1, LiveFacts
<1>5. /\ token' = [token EXCEPT ![i + 1] = id]
      /\ next' = IF loop = "heap" THEN [next EXCEPT ![i] = r, ![d] = NONE]
                 ELSE [next EXCEPT ![i] = r]
      /\ prev' = IF r < N THEN [prev EXCEPT ![r] = i] ELSE prev
  BY DEF Surgery, Active
<1>6. d \in L /\ i < d /\ (r < N => r \in L)
  <2>1. Neighbours(L, N, next, prev, i)
    BY <1>2, <1>3
  <2>2. d \in L /\ i < d
    BY <2>1, <1>3 DEF Neighbours
  <2>3. Neighbours(L, N, next, prev, d)
    BY <2>2, <1>2
  <2> QED BY <2>2, <2>3 DEF Neighbours
<1> HIDE DEF L
<1>7. i \in 0..N - 1 /\ d \in 0..N - 1 /\ r \in Nat /\ i # d /\ (r < N => r \in 0..N - 1)
  <2>1. i \in 0..N - 1 /\ d \in 0..N - 1 /\ i # d
    BY <1>3, <1>4, <1>6
  <2>2. r \in Nat
    BY <2>1, <1>2
  <2> QED BY <2>1, <2>2, <1>4, <1>6
<1>8. NONE \in Nat /\ ~(NONE < N)
  BY <1>1, Bounds
<1>9. Unlinked(N, next, prev, i, next', prev')
  <2> HIDE DEF d, r
  <2>1. next' \in [0..N - 1 -> Nat]
    BY <1>2, <1>5, <1>7, <1>8
  <2>2. prev' \in [0..N - 1 -> Nat]
    BY <1>2, <1>5, <1>7
  <2>3. next'[i] = r /\ (next'[d] = r \/ ~(next'[d] < N))
    <3>1. CASE loop = "heap"
      BY <3>1, <1>2, <1>5, <1>7, <1>8
    <3>2. CASE loop # "heap"
      <4>1. next'[d] = next[d]
        BY <3>2, <1>2, <1>5, <1>7
      <4> QED BY <4>1, <3>2, <1>2, <1>5, <1>7 DEF r
    <3> QED BY <3>1, <3>2
  <2>4. \A j \in 0..N - 1 : j # i /\ j # d => next'[j] = next[j]
    BY <1>2, <1>5, <1>7
  <2>5. r < N => prev'[r] = i
    BY <1>2, <1>5, <1>7
  <2>6. \A j \in 0..N - 1 : j # r => prev'[j] = prev[j]
    BY <1>2, <1>5, <1>7
  <2> QED BY <2>1, <2>2, <2>3, <2>4, <2>5, <2>6 DEF Unlinked, d, r
<1>10. MergedList(merges, N, token, next, prev, i, token', next', prev')
  BY <1>1, <1>5, <1>9 DEF MergedList, At
<1>11. /\ i \in L /\ d \in L /\ d < N /\ token' \in Seq(Symbol) /\ Len(token') = N
       /\ L2 = L \ {d} /\ ListOf(merges, N, token', next', prev')
  <2>1. MergedTo(merges, N, token, next, prev, i, token', next', prev')
    BY <1>10, MergedFacts
  <2> QED BY <2>1 DEF MergedTo, L
<1>12. N' = N /\ merges' = merges /\ N >= 2
  BY <1>1, <1>6, <1>7, <1>11 DEF N
<1>13. Served
  BY <1>1, RankExact
<1>14. NewPairs(i)
  <2>1. /\ P2(i) = IF next'[i] < N THEN RankIn(merges, token'[i + 1], token'[next'[i] + 1])
                   ELSE NoRank
        /\ P2(d) = NoRank
        /\ prev[i] < N => /\ prev[i] \in L /\ prev[i] # i /\ prev[i] # d
                          /\ P2(prev[i]) = RankIn(merges, token[prev[i] + 1], token'[i + 1])
        /\ \A j : j # i /\ j # d /\ j # prev[i] => P2(j) = P(j)
    BY <1>10, PairsMerged DEF P, L
  <2>2. \A j \in 0..N - 1 : token[j + 1] \in Symbol /\ token'[j + 1] \in Symbol
    <3> SUFFICES ASSUME NEW j \in 0..N - 1
                 PROVE  token[j + 1] \in Symbol /\ token'[j + 1] \in Symbol
      OBVIOUS
    <3>1. j + 1 \in 1..Len(token) /\ j + 1 \in 1..Len(token')
      BY <1>1, <1>11, <1>12 DEF N
    <3> QED BY <3>1, <1>1, <1>11, ElementOfSeq
  <2>3. L2 \in SUBSET (0..N - 1)
    BY <1>4, <1>11
  <2> HIDE DEF P2, L2, d, r
  <2>4. PairRank(i, token', next') = P2(i)
    <3>1. next'[i] \in Nat
      BY <1>7, <1>9 DEF Unlinked
    <3>2. CASE next'[i] < N
      <4>1. next'[i] \in 0..N - 1
        BY <3>1, <3>2, <1>1
      <4>2. token'[i + 1] \in Symbol /\ token'[next'[i] + 1] \in Symbol
        BY <4>1, <1>7, <2>2
      <4> QED BY <4>2, <3>2, <2>1, <1>13 DEF PairRank, Served
    <3>3. CASE ~(next'[i] < N)
      BY <3>3, <2>1 DEF PairRank
    <3> QED BY <3>2, <3>3
  <2>5. ASSUME prev[i] < N
        PROVE  /\ prev[i] \in L /\ prev[i] # i /\ prev[i] # d
               /\ Rank(At(prev[i]), token'[i + 1]) = P2(prev[i])
    <3>1. prev[i] \in L
      BY <2>1, <2>5
    <3>2. token[prev[i] + 1] \in Symbol /\ token'[i + 1] \in Symbol
      BY <3>1, <1>4, <1>7, <2>2
    <3> QED BY <3>1, <3>2, <2>1, <2>5, <1>13 DEF Served, At
  <2>6. ASSUME NEW j, j # i, j # d, ~(prev[i] < N /\ j = prev[i])
        PROVE  P2(j) = P(j)
    <3>1. CASE j = prev[i]
      <4>1. j \notin 0..N - 2
        BY <3>1, <2>6, <1>1
      <4>2. P2(j) = NoRank
        BY <4>1, <1>11, LastPair DEF P2
      <4>3. P(j) = NoRank
        BY <4>1, <1>1, LastPair DEF P
      <4> QED BY <4>2, <4>3
    <3>2. CASE j # prev[i]
      BY <3>2, <2>1, <2>6
    <3> QED BY <3>1, <3>2
  <2>7. L = Live
    BY DEF L, Live, LiveOf
  <2>8. \A j : P(j)' = P2(j)
    BY <1>12 DEF P, P2
  <2>9. \A j : P2(j) \in 0..NoRank - 1 \cup {NoRank}
    BY <1>11, PairRange DEF P2
  <2>10. flat # NoTable => \A j : P2(j) \in 0..ID_LIMIT - 1 \cup {NoRank}
    <3>1. flat # NoTable => \A p \in DOMAIN merges : merges[p].rank \in 0..ID_LIMIT - 1
      BY <1>1 DEF BuildInv, Packable
    <3> QED BY <3>1 DEF P2, PairOf, RankIn
  <2> QED BY <2>1, <2>4, <2>5, <2>6, <2>7, <2>8, <2>9, <2>10 DEF NewPairs, Active, P2, d
<1>15. Abstract!Step
  <2> DEFINE w == Word(N, token, next, prev)
  <2>1. Current = w
    BY <1>1, CurrentIsWord
  <2>2. Current' = Word(N, token', next', prev')
    <3>1. \A k : Nth(k)' = Spot(L2, k)
      BY <1>12 DEF Nth, Spot, Upto, Live, LiveOf
    <3>2. Live' = L2
      BY <1>12 DEF Live, LiveOf
    <3>3. Cardinality(L2) \in Nat
      BY <1>1, LiveFacts
    <3>4. loop' # "none" /\ out' = <<>> /\ written' = 0
      BY <1>1
    <3>5. Current' = [k \in 1..Cardinality(Live') |->
                        IF k <= written' THEN token'[k] ELSE token'[Nth(k)' + 1]]
      BY <3>4 DEF Current, At
    <3> HIDE DEF L2
    <3>6. Current' = [k \in 1..Cardinality(L2) |-> token'[Spot(L2, k) + 1]]
      BY <3>1, <3>2, <3>3, <3>4, <3>5
    <3> QED BY <3>6 DEF Word, L2
  <2>3. /\ Abstract!Candidates(merges, w) # {}
        /\ Word(N, token', next', prev') = Abstract!MergeAt(merges, w, Abstract!Best(merges, w))
    BY <1>10, WordMerged
  <2> HIDE DEF w
  <2> QED BY <2>1, <2>2, <2>3 DEF Abstract!Step
<1>16. ASSUME LaneType', LoopInv'
       PROVE  IInv'
  <2>1. BuildInv'
    BY <1>1 DEF BuildInv
  <2>2. ListInv' /\ Built'
    BY <1>1, <1>11, <1>12 DEF ListInv, Built
  <2>3. CopyInv'
    <3>1. 0 \in L2 /\ Upto(L2, 0) = 1
      <4>1. 0 \in L2 /\ L2 \in SUBSET Nat /\ IsFiniteSet(L2)
        BY <1>1, <1>12, LiveFacts
      <4> QED BY <4>1, UptoSteps
    <3>2. Live' = L2
      BY <1>12 DEF Live, LiveOf
    <3> HIDE DEF L2
    <3> QED BY <3>1, <3>2, <1>1, <1>12 DEF CopyInv
  <2>4. ~Done' /\ loop' # "none"
    BY <1>1 DEF Done
  <2>5. token' \in Seq(Symbol) /\ N' <= NONE
    BY <1>1, <1>11, <1>12
  <2> QED BY <2>1, <2>2, <2>3, <2>4, <2>5, <1>16 DEF IInv, Working
<1>17. L = Live /\ L2 = Live'
  BY <1>12 DEF L, Live, LiveOf
<1> QED BY <1>6, <1>11, <1>12, <1>14, <1>15, <1>16, <1>17 DEF MergeStep

\* What a working call relies on before compaction.
LEMMA AtWork ==
    ASSUME IInv, loop # "none", ~Done
    PROVE  /\ Served /\ LoopInv /\ LaneType /\ ListOf(merges, N, token, next, prev) /\ N \in Nat
           /\ \A i \in Live : i \in 0..N - 1 /\ i \in Nat
           /\ \A i : P(i) \in 0..NoRank - 1 \cup {NoRank}
           /\ \A i : i \notin 0..N - 2 => P(i) = NoRank
           /\ \A i \in Live : next[i] < N => P(i) = Rank(At(i), At(next[i]))
           /\ \A i : P(i) # NoRank =>
                    /\ i \in Live /\ i \in 0..N - 2 /\ next[i] < N
                    /\ <<At(i), At(next[i])>> \in DOMAIN merges
                    /\ P(i) = Rank(At(i), At(next[i]))
                    /\ Merged(At(i), At(next[i])) = merges[<<At(i), At(next[i])>>].id
                    /\ flat # NoTable => /\ P(i) = merges[<<At(i), At(next[i])>>].id
                                         /\ P(i) \in 0..ID_LIMIT - 1
<1>1. BuildInv /\ Working /\ ListInv
  BY DEF IInv, Working
<1>2. LoopInv /\ LaneType /\ Built /\ ListOf(merges, N, token, next, prev)
  BY <1>1 DEF Working, ListInv
<1>3. Served
  BY <1>1, <1>2, RankExact
<1>4. N \in Nat /\ merges \in Tables
  BY <1>2 DEF ListOf
<1>5. Live = LiveOf(N, next, prev)
  BY DEF Live, LiveOf
<1>6. Live \in SUBSET (0..N - 1)
  BY <1>4, <1>5, LiveFacts
<1>7. \A i : P(i) \in 0..NoRank - 1 \cup {NoRank}
  BY <1>2, PairRange DEF P
<1>8. \A i : i \notin 0..N - 2 => P(i) = NoRank
  BY <1>2, LastPair DEF P
<1>9. ASSUME NEW i, P(i) # NoRank
      PROVE  /\ i \in Live /\ i \in 0..N - 2 /\ next[i] < N
             /\ <<At(i), At(next[i])>> \in DOMAIN merges
             /\ P(i) = Rank(At(i), At(next[i]))
             /\ Merged(At(i), At(next[i])) = merges[<<At(i), At(next[i])>>].id
             /\ flat # NoTable => /\ P(i) = merges[<<At(i), At(next[i])>>].id
                                  /\ P(i) \in 0..ID_LIMIT - 1
  <2>1. i \in Live /\ next[i] < N /\ P(i) = RankIn(merges, At(i), At(next[i]))
    BY <1>5, <1>9 DEF P, PairOf, At
  <2>2. i \in 0..N - 2
    BY <1>8, <1>9
  <2> DEFINE a == At(i)
             b == At(next[i])
  <2>3. <<a, b>> \in DOMAIN merges
    BY <2>1, <1>9 DEF RankIn
  <2>4. a \in Symbol /\ b \in Symbol
    <3>1. DOMAIN merges \subseteq Symbol \X Symbol
      BY <1>4, TableAssumption
    <3> HIDE DEF a, b
    <3> QED BY <3>1, <2>3
  <2> HIDE DEF a, b
  <2>5. /\ Rank(a, b) = RankIn(merges, a, b) /\ Merged(a, b) = merges[<<a, b>>].id
        /\ flat # NoTable => /\ RankIn(merges, a, b) = merges[<<a, b>>].id
                             /\ RankIn(merges, a, b) \in 0..ID_LIMIT - 1
    BY <2>3, <2>4, <1>3 DEF Served
  <2> QED BY <2>1, <2>2, <2>3, <2>5 DEF a, b
<1>10. ASSUME NEW i \in Live, next[i] < N
       PROVE  P(i) = Rank(At(i), At(next[i]))
  <2>1. next[i] \in Live
    BY <1>2, <1>5, <1>10 DEF ListOf, Chained, Neighbours
  <2>2. \A j \in Live : At(j) \in Symbol
    <3> TAKE j \in Live
    <3>1. j + 1 \in 1..Len(token)
      BY <1>4, <1>6 DEF N
    <3>2. token \in Seq(Symbol)
      BY <1>2 DEF ListOf
    <3> QED BY <3>1, <3>2, ElementOfSeq DEF At
  <2>3. P(i) = RankIn(merges, At(i), At(next[i]))
    BY <1>5, <1>10 DEF P, PairOf, At
  <2>4. At(i) \in Symbol /\ At(next[i]) \in Symbol
    BY <2>1, <2>2
  <2> QED BY <2>3, <2>4, <1>3 DEF Served
<1> QED BY <1>2, <1>3, <1>4, <1>6, <1>7, <1>8, <1>9, <1>10

\* A scan merges the pair the specification would.
LEMMA ScanStep ==
    ASSUME IInv, Scan
    PROVE  IInv' /\ Abstract!Step
<1> DEFINE P2(j) == PairOf(merges, N, token', next', prev', j)
<1>1. PICK i \in 0..N - 2 :
        /\ ranks[i] # NoRank
        /\ \A j \in 0..N - 2 : ranks[i] < ranks[j] \/ (ranks[i] = ranks[j] /\ i <= j)
        /\ Surgery(i, Merged(At(i), At(next[i])))
        /\ LET cleared == [ranks EXCEPT ![next[i]] = NoRank]
               merged == [cleared EXCEPT ![i] = PairRank(i, token', next')]
           IN ranks' = IF Active(prev[i])
                       THEN [merged EXCEPT ![prev[i]] = Rank(At(prev[i]), token'[i + 1])]
                       ELSE merged
  BY DEF Scan
<1>2. /\ loop = "scan" /\ out = <<>>
      /\ UNCHANGED <<merges, todo, flat, loop, heap, read, written, out>>
  BY DEF Scan
<1>3. ~Done
  <2> SUFFICES ASSUME Done PROVE FALSE
    OBVIOUS
  <2>1. Exhausted
    BY <1>2 DEF IInv, Working
  <2> QED BY <2>1, <1>1, <1>2 DEF Exhausted
<1>4. /\ N \in Nat /\ LoopInv
      /\ \A j : P(j) \in 0..NoRank - 1 \cup {NoRank}
      /\ \A j : P(j) # NoRank => j \in Live /\ j \in 0..N - 2
      /\ P(i) # NoRank => Merged(At(i), At(next[i])) = merges[<<At(i), At(next[i])>>].id
  BY <1>2, <1>3, AtWork
<1>5. /\ N <= SMALL_MERGE_MAX /\ ranks \in [0..SMALL_MERGE_MAX - 1 -> Nat]
      /\ \A j \in 0..N - 1 : ranks[j] = P(j)
  BY <1>1, <1>2, <1>4 DEF LoopInv, ScanInv
<1>6. P(i) # NoRank /\ i \in 0..N - 1
  BY <1>1, <1>4, <1>5
<1>7. Lowest(merges, N, token, next, prev, i)
  <2>1. i \in Live
    BY <1>4, <1>6
  <2>2. ASSUME NEW j \in Live, P(j) # NoRank
        PROVE  P(i) < P(j) \/ (P(i) = P(j) /\ i <= j)
    <3>1. j \in 0..N - 2 /\ j \in 0..N - 1
      BY <2>2, <1>4
    <3> QED BY <3>1, <1>1, <1>5, <1>6
  <2>3. Live = LiveOf(N, next, prev)
    BY DEF Live, LiveOf
  <2> QED BY <2>1, <2>2, <2>3, <1>6 DEF Lowest, P
<1>8. MergeStep(i)
  <2>1. Surgery(i, merges[<<At(i), At(next[i])>>].id)
    BY <1>1, <1>4, <1>6
  <2> QED BY <2>1, <1>2, <1>3, <1>7, Merging
<1>9. /\ next[i] \in Live /\ i < next[i] /\ next[i] < N /\ N >= 2 /\ N' = N
      /\ Abstract!Step /\ (LaneType' /\ LoopInv' => IInv')
      /\ \A j : P(j)' = P2(j) /\ P2(j) \in 0..NoRank - 1 \cup {NoRank}
      /\ PairRank(i, token', next') = P2(i) /\ P2(next[i]) = NoRank
      /\ Active(prev[i]) => /\ prev[i] \in Live /\ prev[i] # i /\ prev[i] # next[i]
                            /\ Rank(At(prev[i]), token'[i + 1]) = P2(prev[i])
      /\ \A j : j # i /\ j # next[i] /\ ~(Active(prev[i]) /\ j = prev[i]) => P2(j) = P(j)
  BY <1>8 DEF MergeStep, NewPairs
<1>10. \A j : P(j)' = P2(j) /\ P2(j) \in Nat
  BY <1>9, Bounds
<1>11. ScanInv'
  <2> DEFINE S == 0..SMALL_MERGE_MAX - 1
             q == prev[i]
             cleared == [ranks EXCEPT ![next[i]] = NoRank]
             merged == [cleared EXCEPT ![i] = PairRank(i, token', next')]
             back == [merged EXCEPT ![q] = Rank(At(q), token'[i + 1])]
  <2>1. ranks' = IF Active(q) THEN back ELSE merged
    BY <1>1
  <2>2. /\ i \in S /\ next[i] \in S /\ i # next[i] /\ (Active(q) => q \in S)
        /\ \A j \in 0..N - 1 : j \in S
    <3>1. \A j \in 0..N - 1 : j \in S
      BY <1>4, <1>5, Bounds
    <3>2. \A j \in Live : j \in 0..N - 1
      BY DEF Live
    <3>3. i < next[i] /\ next[i] \in Live /\ i \in 0..N - 1 /\ (Active(q) => q \in Live)
      BY <1>6, <1>9
    <3> QED BY <3>1, <3>2, <3>3
  <2> HIDE DEF P2, S
  <2>3. /\ cleared \in [S -> Nat]
        /\ cleared = [j \in S |-> IF j = next[i] THEN P2(next[i]) ELSE ranks[j]]
    BY <2>2, <1>5, <1>9, <1>10 DEF S
  <2> HIDE DEF cleared
  <2>4. merged \in [S -> Nat] /\ merged = [j \in S |-> IF j = i THEN P2(i) ELSE cleared[j]]
    BY <2>2, <2>3, <1>9, <1>10
  <2> HIDE DEF merged
  <2>5. Active(q) => back \in [S -> Nat] /\ back = [j \in S |-> IF j = q THEN P2(q) ELSE merged[j]]
    BY <2>2, <2>4, <1>9, <1>10
  <2> HIDE DEF back
  <2>6. ranks' \in [S -> Nat]
    BY <2>1, <2>4, <2>5
  <2>7. ASSUME NEW j \in 0..N - 1
        PROVE  ranks'[j] = P2(j)
    <3>1. j \in S
      BY <2>2
    <3>2. CASE Active(q) /\ j = q
      BY <3>1, <3>2, <2>1, <2>5
    <3>3. CASE ~(Active(q) /\ j = q)
      <4>1. ranks'[j] = merged[j]
        BY <3>1, <3>3, <2>1, <2>5
      <4>2. CASE j = i
        BY <4>1, <4>2, <3>1, <2>4
      <4>3. CASE j # i /\ j = next[i]
        BY <4>1, <4>3, <3>1, <2>3, <2>4
      <4>4. CASE j # i /\ j # next[i]
        <5>1. merged[j] = ranks[j]
          BY <4>4, <3>1, <2>3, <2>4
        <5>2. P2(j) = P(j)
          BY <4>4, <3>3, <1>9 DEF q
        <5> QED BY <5>1, <5>2, <4>1, <1>5
      <4> QED BY <4>2, <4>3, <4>4
    <3> QED BY <3>2, <3>3
  <2> QED BY <2>6, <2>7, <1>5, <1>9, <1>10 DEF ScanInv, S
<1>12. LaneType' /\ LoopInv'
  BY <1>2, <1>11 DEF LoopInv, LaneType
<1> QED BY <1>9, <1>12

\* Lanes order pairs by rank, then by position.
LEMMA LaneOrder ==
    ASSUME NEW r \in 0..ID_LIMIT - 1, NEW i \in 0..PACK - 1,
           NEW o \in 0..ID_LIMIT - 1, NEW j \in 0..PACK - 1, Pack(r, i) <= Pack(o, j)
    PROVE  r < o \/ (r = o /\ i <= j)
<1>1. Pack(r, i) = r * PACK + i /\ Pack(o, j) = o * PACK + j
  BY PackFacts
<1>2. PACK = 256 /\ ID_LIMIT \in Nat
  BY Bounds DEF PACK
<1> QED BY <1>1, <1>2

\* The lane of a pair or of none.
LEMMA LaneFacts ==
    /\ NO_MERGE_FLOOR \in Nat /\ WORD - 1 \in Nat /\ WORD - 1 >= NO_MERGE_FLOOR
    /\ \A r \in 0..ID_LIMIT - 1 \cup {NoRank}, i \in 0..PACK - 1 :
            Pack(r, i) \in Nat /\ (r = NoRank => Pack(r, i) >= NO_MERGE_FLOOR)
<1>1. /\ NoRank \in Nat /\ ID_LIMIT \in Nat /\ PACK = 256 /\ WORD = NoRank + 1
      /\ (ID_LIMIT + 1) * PACK <= WORD
  BY Bounds DEF PACK, WORD
<1>2. /\ NO_MERGE_FLOOR = WORD - PACK
      /\ \A r \in 0..ID_LIMIT - 1, i \in 0..PACK - 1 : Pack(r, i) = r * PACK + i
      /\ \A i : Pack(NoRank, i) = NO_MERGE_FLOOR + i
  BY PackFacts
<1>3. NO_MERGE_FLOOR \in Nat /\ WORD - 1 \in Nat /\ WORD - 1 >= NO_MERGE_FLOOR
  BY <1>1, <1>2
<1>4. ASSUME NEW r \in 0..ID_LIMIT - 1 \cup {NoRank}, NEW i \in 0..PACK - 1
      PROVE  Pack(r, i) \in Nat /\ (r = NoRank => Pack(r, i) >= NO_MERGE_FLOOR)
  <2>1. CASE r = NoRank
    BY <2>1, <1>1, <1>2, <1>3
  <2>2. CASE r # NoRank
    <3>1. r \in 0..ID_LIMIT - 1 /\ r \in Nat /\ i \in Nat
      BY <2>2, <1>1
    <3>2. Pack(r, i) = r * 256 + i
      <4>1. Pack(r, i) = r * PACK + i
        BY <3>1, <1>2
      <4> QED BY <4>1, <1>1
    <3> QED BY <3>1, <3>2, <2>2
  <2> QED BY <2>1, <2>2
<1> QED BY <1>3, <1>4

\* The lowest lane is the pair the specification would merge.
LEMMA LanesStep ==
    ASSUME IInv, Lanes
    PROVE  IInv' /\ Abstract!Step
<1> DEFINE P2(j) == PairOf(merges, N, token', next', prev', j)
           best == CHOOSE v \in {ranks[x] : x \in LanesRead} : \A x \in LanesRead : v <= ranks[x]
           i == best % PACK
           S == 0..SHORT_MERGE_MAX - 1
           q == prev[i]
           cleared == [ranks EXCEPT ![next[i]] = WORD - 1]
           merged == [cleared EXCEPT ![i] = IF Active(next'[i])
                               THEN Pack(PairRank(i, token', next'), i) ELSE WORD - 1]
           back == [merged EXCEPT ![q] = Pack(Rank(At(q), token'[i + 1]), q)]
<1>1. /\ loop = "lanes" /\ out = <<>> /\ best < NO_MERGE_FLOOR
      /\ Surgery(i, best \div PACK)
      /\ ranks' = IF Active(q) THEN back ELSE merged
      /\ UNCHANGED <<merges, todo, flat, loop, heap, read, written, out>>
  BY DEF Lanes
<1>2. Working
  BY <1>1 DEF IInv
<1>3. /\ N \in 2..SHORT_MERGE_MAX - 1 /\ ranks \in [S -> Nat] /\ SHORT_MERGE_MAX \in Nat
      /\ SHORT_MERGE_MAX <= PACK /\ NARROW \in Nat /\ NARROW <= SHORT_MERGE_MAX
  BY <1>1, <1>2, Bounds DEF Working, LaneType
<1>4. /\ LanesRead \subseteq S /\ \A j \in 0..N - 2 : j \in LanesRead /\ 0 \in LanesRead
      /\ S \subseteq 0..PACK - 1
  <2>1. PACK = 256
    BY DEF PACK
  <2> QED BY <2>1, <1>3 DEF LanesRead
<1> HIDE DEF S
<1>5. /\ best \in {ranks[x] : x \in LanesRead}
      /\ \A x \in LanesRead : best <= ranks[x]
  <2> DEFINE R == {ranks[x] : x \in LanesRead}
  <2>1. R \in SUBSET Nat /\ R # {}
    <3>1. 0 \in LanesRead
      BY <1>3, <1>4
    <3> QED BY <3>1, <1>3, <1>4
  <2>2. PICK v \in R : \A y \in R : v <= y
    <3> HIDE DEF R
    <3> QED BY <2>1, NatLeast
  <2>3. \E w \in R : \A x \in LanesRead : w <= ranks[x]
    BY <2>2
  <2> HIDE DEF R
  <2>4. best = CHOOSE w \in R : \A x \in LanesRead : w <= ranks[x]
    BY DEF R
  <2> HIDE DEF best
  <2>5. best \in R /\ \A x \in LanesRead : best <= ranks[x]
    BY <2>3, <2>4
  <2> QED BY <2>5 DEF R
<1> HIDE DEF best
<1>6. PICK x \in LanesRead : best = ranks[x]
  BY <1>5
<1>7. x \in S /\ x \in 0..PACK - 1 /\ best \in Nat /\ NO_MERGE_FLOOR \in Nat
  <2>1. x \in S
    BY <1>4
  <2> QED BY <2>1, <1>3, <1>4, <1>6, LaneFacts
<1>8. ~Done
  <2> SUFFICES ASSUME Done PROVE FALSE
    OBVIOUS
  <2>1. Exhausted
    BY <1>2 DEF Working
  <2>2. ranks[x] >= NO_MERGE_FLOOR
    BY <2>1, <1>1 DEF Exhausted
  <2> QED BY <2>2, <1>1, <1>6, <1>7
<1>9. /\ LoopInv /\ \A j : P(j) \in 0..NoRank - 1 \cup {NoRank}
      /\ \A j : P(j) # NoRank =>
            /\ j \in Live /\ j \in 0..N - 2
            /\ flat # NoTable => /\ P(j) = merges[<<At(j), At(next[j])>>].id
                                 /\ P(j) \in 0..ID_LIMIT - 1
  BY <1>1, <1>8, AtWork
<1>10. /\ flat # NoTable
       /\ \A j \in S : IF P(j) # NoRank THEN ranks[j] = Pack(P(j), j)
                       ELSE ranks[j] >= NO_MERGE_FLOOR
  BY <1>1, <1>9 DEF LoopInv, LanesInv, S
<1>11. P(x) # NoRank /\ best = Pack(P(x), x)
  <2>1. ~(ranks[x] >= NO_MERGE_FLOOR)
    BY <1>1, <1>6, <1>7
  <2> QED BY <2>1, <1>6, <1>7, <1>10
<1>12. /\ x \in Live /\ x \in 0..N - 2 /\ P(x) \in 0..ID_LIMIT - 1
       /\ i = x /\ best \div PACK = P(x) /\ P(x) = merges[<<At(x), At(next[x])>>].id
  <2>1. x \in Live /\ x \in 0..N - 2 /\ P(x) = merges[<<At(x), At(next[x])>>].id
        /\ P(x) \in 0..ID_LIMIT - 1
    BY <1>9, <1>10, <1>11
  <2>2. best % PACK = x /\ best \div PACK = P(x)
    BY <2>1, <1>7, <1>11, PackFacts
  <2> QED BY <2>1, <2>2
<1> HIDE DEF i
<1>13. Lowest(merges, N, token, next, prev, i)
  <2>1. ASSUME NEW j \in Live, P(j) # NoRank
        PROVE  P(x) < P(j) \/ (P(x) = P(j) /\ x <= j)
    <3>1. j \in LanesRead /\ j \in S /\ j \in 0..PACK - 1 /\ P(j) \in 0..ID_LIMIT - 1
      <4>1. j \in 0..N - 2 /\ P(j) \in 0..ID_LIMIT - 1
        BY <2>1, <1>9, <1>10
      <4> QED BY <4>1, <1>4
    <3>2. best <= ranks[j] /\ ranks[j] = Pack(P(j), j)
      BY <3>1, <2>1, <1>5, <1>10
    <3>3. Pack(P(x), x) <= Pack(P(j), j)
      BY <3>2, <1>11
    <3> HIDE DEF P
    <3>4. P(x) \in 0..ID_LIMIT - 1 /\ x \in 0..PACK - 1
      BY <1>7, <1>12
    <3> QED BY ONLY <3>1, <3>3, <3>4, LaneOrder
  <2>2. Live = LiveOf(N, next, prev)
    BY DEF Live, LiveOf
  <2> QED BY <2>1, <2>2, <1>11, <1>12 DEF Lowest, P
<1>14. MergeStep(i)
  <2>1. Surgery(i, merges[<<At(i), At(next[i])>>].id)
    BY <1>1, <1>12
  <2> QED BY <2>1, <1>1, <1>8, <1>13, Merging
<1>15. /\ i \in Live /\ next[i] \in Live /\ i < next[i] /\ N' = N
       /\ Abstract!Step /\ (LaneType' /\ LoopInv' => IInv')
       /\ \A j : P(j)' = P2(j) /\ P2(j) \in 0..ID_LIMIT - 1 \cup {NoRank}
       /\ PairRank(i, token', next') = P2(i) /\ P2(next[i]) = NoRank
       /\ Active(q) => /\ q \in Live /\ q # i /\ q # next[i]
                       /\ Rank(At(q), token'[i + 1]) = P2(q)
       /\ \A j : j # i /\ j # next[i] /\ ~(Active(q) /\ j = q) => P2(j) = P(j)
  BY <1>10, <1>14 DEF MergeStep, NewPairs
<1>16. \A j \in Live : j \in S /\ j \in 0..PACK - 1
  <2>1. \A j \in Live : j \in S
    BY <1>3 DEF Live, S
  <2> QED BY <2>1, <1>4
<1>17. ~Active(next'[i]) => P2(i) = NoRank
  BY <1>15 DEF PairRank, Active
<1> HIDE DEF P2
<1>18. /\ WORD - 1 \in Nat /\ WORD - 1 >= NO_MERGE_FLOOR
       /\ \A j \in S : /\ Pack(P2(j), j) \in Nat
                       /\ P2(j) = NoRank => Pack(P2(j), j) >= NO_MERGE_FLOOR
  BY <1>4, <1>15, LaneFacts
<1> DEFINE mi == IF Active(next'[i]) THEN Pack(P2(i), i) ELSE WORD - 1
<1>19. /\ cleared \in [S -> Nat]
       /\ cleared = [j \in S |-> IF j = next[i] THEN WORD - 1 ELSE ranks[j]]
  BY <1>3, <1>15, <1>16, <1>18
<1> HIDE DEF cleared
<1>20. /\ merged \in [S -> Nat]
       /\ merged = [j \in S |-> IF j = i THEN mi ELSE cleared[j]]
  BY <1>15, <1>16, <1>18, <1>19
<1> HIDE DEF merged
<1>21. Active(q) => /\ back \in [S -> Nat]
                    /\ back = [j \in S |-> IF j = q THEN Pack(P2(q), q) ELSE merged[j]]
  BY <1>15, <1>16, <1>18, <1>20
<1> HIDE DEF back
<1>22. ranks' \in [S -> Nat]
  BY <1>1, <1>20, <1>21
<1>23. ASSUME NEW j \in S
       PROVE  IF P2(j) # NoRank THEN ranks'[j] = Pack(P2(j), j) ELSE ranks'[j] >= NO_MERGE_FLOOR
  <2>1. CASE Active(q) /\ j = q
    <3>1. ranks'[j] = Pack(P2(j), j)
      BY <2>1, <1>1, <1>21
    <3> QED BY <3>1, <1>18
  <2>2. CASE ~(Active(q) /\ j = q)
    <3>1. ranks'[j] = merged[j]
      BY <2>2, <1>1, <1>21
    <3>2. CASE j = i
      <4>1. ranks'[j] = mi
        BY <3>1, <3>2, <1>20
      <4> QED BY <4>1, <3>2, <1>17, <1>18
    <3>3. CASE j # i /\ j = next[i]
      <4>1. ranks'[j] = WORD - 1 /\ P2(j) = NoRank
        BY <3>1, <3>3, <1>15, <1>19, <1>20
      <4> QED BY <4>1, <1>18
    <3>4. CASE j # i /\ j # next[i]
      <4>1. ranks'[j] = ranks[j]
        BY <3>1, <3>4, <1>19, <1>20
      <4>2. P2(j) = P(j)
        BY <2>2, <3>4, <1>15
      <4> QED BY <4>1, <4>2, <1>10
    <3> QED BY <3>2, <3>3, <3>4
  <2> QED BY <2>1, <2>2
<1>24. LaneType' /\ LoopInv'
  <2>1. LanesInv'
    <3>1. flat' # NoTable /\ \A j : P(j)' = P2(j)
      BY <1>1, <1>10, <1>15
    <3> QED BY <3>1, <1>23 DEF LanesInv, S
  <2>2. LaneType'
    BY <1>3, <1>15, <1>22 DEF LaneType, S
  <2> QED BY <2>1, <2>2, <1>1 DEF LoopInv
<1> QED BY <1>15, <1>24

\* A fresh entry is the pair the specification would merge, and a stale one
\* changes no symbol.
LEMMA PopStep ==
    ASSUME IInv, Pop
    PROVE  IInv' /\ (Abstract!Step \/ UNCHANGED <<merges, Current>>)
<1>1. /\ loop = "heap" /\ heap # EmptyBag
      /\ UNCHANGED <<merges, todo, flat, loop, ranks, read, written, out>>
  BY DEF Pop
<1>2. PICK e \in BagToSet(heap) :
        /\ \A f \in BagToSet(heap) : e[1] < f[1] \/ (e[1] = f[1] /\ e[2] <= f[2])
        /\ IF Fresh(e)
           THEN /\ Surgery(e[2], Merged(At(e[2]), At(next[e[2]])))
                /\ heap' = (heap (-) SetToBag({e})) (+) SetToBag(Pushed(e[2], token', next'))
           ELSE heap' = heap (-) SetToBag({e}) /\ UNCHANGED list
  BY DEF Pop
<1>3. Working
  BY <1>1 DEF IInv
<1>4. ~Done
  BY <1>1, <1>3 DEF Working, Exhausted
<1>5. /\ LoopInv /\ N \in Nat
      /\ \A j : P(j) \in 0..NoRank - 1 \cup {NoRank}
      /\ \A j \in Live : next[j] < N => P(j) = Rank(At(j), At(next[j]))
      /\ \A j : P(j) # NoRank =>
            /\ j \in Live /\ j \in 0..N - 2 /\ next[j] < N
            /\ P(j) = Rank(At(j), At(next[j]))
            /\ Merged(At(j), At(next[j])) = merges[<<At(j), At(next[j])>>].id
  BY <1>1, <1>4, AtWork
<1>6. /\ IsABag(heap) /\ BagToSet(heap) \subseteq (0..NoRank - 1) \X (0..N - 1)
      /\ \A j \in 0..N - 1 : P(j) # NoRank => <<P(j), j>> \in BagToSet(heap)
      /\ \A j \in 0..N - 1 : next[j] < N \/ next[j] = NONE
      /\ \A j \in 0..N - 1 : j \notin Live => next[j] = NONE
  BY <1>1, <1>5 DEF LoopInv, HeapInv
<1>7. /\ N <= NONE /\ NONE \in Nat /\ NoRank \in Nat /\ ListOf(merges, N, token, next, prev)
  BY <1>3, Bounds DEF IInv, Working, ListInv
<1> DEFINE i == e[2]
           r == heap (-) SetToBag({e})
<1>8. i \in 0..N - 1 /\ e[1] \in 0..NoRank - 1 /\ e = <<e[1], i>>
  BY <1>2, <1>6
<1>9. /\ IsABag(r) /\ BagToSet(r) \subseteq BagToSet(heap)
      /\ BagToSet(heap) \ {e} \subseteq BagToSet(r)
      /\ \A S : /\ IsABag(r (+) SetToBag(S))
                /\ BagToSet(r (+) SetToBag(S)) = BagToSet(r) \cup S
  BY <1>6, BagFacts
<1> HIDE DEF i, r
<1>10. ASSUME NEW j \in 0..N - 1, P(j) # NoRank, <<P(j), j>> = e
       PROVE  Fresh(e)
  <2>1. e[1] = P(j) /\ e[2] = j
    BY <1>10
  <2>2. next[j] < N /\ P(j) = Rank(At(j), At(next[j]))
    BY <1>5, <1>10
  <2>3. next[j] # NONE
    BY <2>2, <1>5, <1>7
  <2> QED BY <2>1, <2>2, <2>3 DEF Fresh
<1>11. CASE ~Fresh(e)
  <2>1. heap' = r /\ UNCHANGED <<token, next, prev>>
    BY <1>2, <1>11 DEF r, list
  <2>2. N' = N /\ Live' = Live /\ \A j : P(j)' = P(j)
    BY <1>1, <2>1 DEF N, Live, P
  <2>3. HeapInv'
    <3>1. IsABag(heap') /\ BagToSet(heap') \subseteq (0..NoRank - 1) \X (0..N - 1)
      BY <2>1, <1>6, <1>9
    <3>2. \A j \in 0..N - 1 : P(j) # NoRank => <<P(j), j>> \in BagToSet(heap')
      BY <2>1, <1>6, <1>9, <1>10, <1>11
    <3> QED BY <3>1, <3>2, <2>1, <2>2, <1>6 DEF HeapInv, BagToSet
  <2>4. LoopInv' /\ LaneType'
    BY <2>3, <1>1 DEF LoopInv, LaneType
  <2>5. IInv'
    <3>1. BuildInv' /\ Built' /\ ListInv' /\ CopyInv'
      <4>1. BuildInv /\ Built /\ ListInv /\ CopyInv
        BY <1>3 DEF IInv, Working
      <4> QED BY <4>1, <1>1, <2>1, <2>2 DEF BuildInv, Built, ListInv, CopyInv
    <3>2. ~Done' /\ loop' # "none"
      BY <1>1, <1>4 DEF Done
    <3>3. token' \in Seq(Symbol) /\ N' <= NONE
      BY <2>1, <2>2 DEF IInv
    <3> QED BY <3>1, <3>2, <3>3, <2>4 DEF IInv, Working
  <2>6. UNCHANGED <<merges, Current>>
    <3>1. \A k : Nth(k)' = Nth(k)
      BY <2>2 DEF Nth
    <3> QED BY <3>1, <1>1, <2>1, <2>2 DEF Current, At
  <2> QED BY <2>5, <2>6
<1>12. CASE Fresh(e)
  <2> DEFINE P2(j) == PairOf(merges, N, token', next', prev', j)
             push == Pushed(i, token', next')
             q == prev[i]
             d == next[i]
  <2>1. Surgery(i, Merged(At(i), At(d))) /\ heap' = r (+) SetToBag(push)
    BY <1>2, <1>12 DEF i, r
  <2>2. d < N /\ i \in Live /\ P(i) = e[1] /\ P(i) # NoRank
    <3>1. d # NONE /\ Rank(At(i), At(d)) = e[1]
      BY <1>12 DEF Fresh, i
    <3>2. d < N /\ i \in Live
      BY <3>1, <1>6, <1>8
    <3> QED BY <3>1, <3>2, <1>5, <1>7, <1>8
  <2>3. Lowest(merges, N, token, next, prev, i)
    <3>1. ASSUME NEW j \in Live, P(j) # NoRank
          PROVE  P(i) < P(j) \/ (P(i) = P(j) /\ i <= j)
      <4>1. j \in 0..N - 1
        BY <3>1 DEF Live
      <4>2. <<P(j), j>> \in BagToSet(heap)
        BY <4>1, <3>1, <1>6
      <4> DEFINE f == <<P(j), j>>
      <4>3. e[1] < f[1] \/ (e[1] = f[1] /\ e[2] <= f[2])
        BY <4>2, <1>2
      <4> QED BY <4>3, <2>2 DEF i
    <3>2. Live = LiveOf(N, next, prev)
      BY DEF Live, LiveOf
    <3> QED BY <3>1, <3>2, <2>2 DEF Lowest, P
  <2>4. MergeStep(i)
    <3>1. Surgery(i, merges[<<At(i), At(next[i])>>].id)
      BY <2>1, <2>2, <1>5
    <3> QED BY <3>1, <2>3, <1>1, <1>4, Merging
  <2>5. /\ d \in Live /\ i < d /\ N' = N /\ Live' = Live \ {d}
        /\ Abstract!Step /\ (LaneType' /\ LoopInv' => IInv')
        /\ \A j : P(j)' = P2(j) /\ P2(j) \in 0..NoRank - 1 \cup {NoRank}
        /\ PairRank(i, token', next') = P2(i) /\ P2(d) = NoRank
        /\ Active(q) => /\ q \in Live /\ q # i /\ q # d
                        /\ Rank(At(q), token'[i + 1]) = P2(q)
        /\ \A j : j # i /\ j # d /\ ~(Active(q) /\ j = q) => P2(j) = P(j)
    BY <2>4 DEF MergeStep, NewPairs
  <2>6. \A j \in Live : j \in 0..N - 1 /\ j \in Nat
    BY <1>5 DEF Live
  <2>7. /\ next' = [next EXCEPT ![i] = next[d], ![d] = NONE]
        /\ Active(q) => token'[q + 1] = At(q)
    <3>1. /\ next' = [next EXCEPT ![i] = next[d], ![d] = NONE]
          /\ token' = [token EXCEPT ![i + 1] = Merged(At(i), At(d))]
      BY <2>1, <1>1 DEF Surgery
    <3>2. Active(q) => token'[q + 1] = token[q + 1]
      <4> SUFFICES ASSUME Active(q) PROVE token'[q + 1] = token[q + 1]
        OBVIOUS
      <4>1. q \in Live /\ q # i
        BY <2>5
      <4>2. q \in 0..N - 1 /\ i \in 0..N - 1
        BY <4>1, <2>6, <1>8
      <4> HIDE DEF q
      <4>3. q + 1 # i + 1 /\ q + 1 \in 1..Len(token)
        BY <4>1, <4>2, <1>5 DEF N
      <4>4. token \in Seq(Symbol)
        BY <1>7 DEF ListOf
      <4> QED BY <4>3, <4>4, <3>1
    <3> QED BY <3>1, <3>2 DEF At
  <2>8. /\ i \in 0..N - 1 /\ d \in 0..N - 1 /\ i # d
        /\ Active(q) => q \in 0..N - 1
    BY <2>5, <2>6, <1>8
  <2>9. push = {f \in {<<IF Active(q) THEN P2(q) ELSE NoRank, q>>, <<P2(i), i>>} : f[1] # NoRank}
    <3>1. push = {f \in {<<IF Active(q) THEN Rank(token'[q + 1], token'[i + 1]) ELSE NoRank, q>>,
                         <<PairRank(i, token', next'), i>>} : f[1] # NoRank}
      BY DEF Pushed
    <3>2. Active(q) => Rank(token'[q + 1], token'[i + 1]) = P2(q)
      BY <2>5, <2>7
    <3> HIDE DEF push, P2, q
    <3> QED BY <3>1, <3>2, <2>5
  <2> HIDE DEF push, P2, q, d
  <2>10. /\ push \subseteq (0..NoRank - 1) \X (0..N - 1)
         /\ \A j : P2(j) # NoRank /\ (j = i \/ (Active(q) /\ j = q)) => <<P2(j), j>> \in push
    <3>1. ASSUME NEW f \in push
          PROVE  f \in (0..NoRank - 1) \X (0..N - 1)
      <4>1. CASE f = <<P2(i), i>>
        BY <4>1, <2>5, <2>8, <2>9
      <4>2. CASE f = <<IF Active(q) THEN P2(q) ELSE NoRank, q>>
        <5>1. f[1] # NoRank
          BY <2>9
        <5>2. Active(q) /\ f = <<P2(q), q>> /\ P2(q) # NoRank
          BY <5>1, <4>2
        <5> QED BY <5>2, <2>5, <2>8
      <4> QED BY <4>1, <4>2, <2>9
    <3>2. ASSUME NEW j, P2(j) # NoRank, j = i \/ (Active(q) /\ j = q)
          PROVE  <<P2(j), j>> \in push
      BY <3>2, <2>9
    <3> QED BY <3>1, <3>2
  <2>11. IsABag(heap') /\ BagToSet(heap') = BagToSet(r) \cup push
    BY <2>1, <1>9
  <2>12. BagToSet(heap') \subseteq (0..NoRank - 1) \X (0..N - 1)
    BY <2>10, <2>11, <1>6, <1>9
  <2>13. ASSUME NEW j \in 0..N - 1, P2(j) # NoRank
         PROVE  <<P2(j), j>> \in BagToSet(heap')
    <3>1. CASE j = i \/ (Active(q) /\ j = q)
      BY <3>1, <2>10, <2>11, <2>13
    <3>2. CASE j # i /\ ~(Active(q) /\ j = q)
      <4>1. j # d
        BY <2>5, <2>13
      <4>2. P2(j) = P(j)
        BY <4>1, <3>2, <2>5
      <4>3. <<P(j), j>> \in BagToSet(heap) /\ <<P(j), j>> # e
        <5>1. <<P(j), j>> \in BagToSet(heap)
          BY <4>2, <2>13, <1>6
        <5>2. <<P(j), j>> # <<e[1], i>>
          BY <3>2
        <5> QED BY <5>1, <5>2, <1>8
      <4> QED BY <4>2, <4>3, <2>11, <1>9
    <3> QED BY <3>1, <3>2
  <2>14. ASSUME NEW j \in 0..N - 1
         PROVE  /\ next'[j] < N \/ next'[j] = NONE
                /\ j \notin Live' => next'[j] = NONE
    <3>1. next \in [0..N - 1 -> Nat]
      BY <1>7 DEF ListOf, Chained
    <3>2. CASE j = d
      BY <3>1, <3>2, <2>7, <2>8
    <3>3. CASE j = i
      <4>1. next'[j] = next[d]
        BY <3>1, <3>3, <2>7, <2>8
      <4> QED BY <4>1, <3>3, <2>2, <2>5, <2>8, <1>6
    <3>4. CASE j # i /\ j # d
      <4>1. next'[j] = next[j]
        BY <3>1, <3>4, <2>7, <2>8
      <4> QED BY <4>1, <3>4, <2>5, <1>6
    <3> QED BY <3>2, <3>3, <3>4
  <2>15. HeapInv'
    BY <2>5, <2>11, <2>12, <2>13, <2>14 DEF HeapInv, BagToSet
  <2>16. LoopInv' /\ LaneType'
    BY <2>15, <1>1 DEF LoopInv, LaneType
  <2> QED BY <2>5, <2>16
<1> QED BY <1>11, <1>12

-----------------------------------------------------------------------------
(* The steps that merge nothing. *)

\* No variable changes.
LEMMA Stutter ==
    ASSUME IInv, UNCHANGED vars
    PROVE  IInv' /\ UNCHANGED <<merges, Current>>
<1>1. /\ UNCHANGED <<merges, todo, flat, loop, ranks, heap, read, written, out>>
      /\ UNCHANGED <<token, next, prev>>
  BY DEF vars, list
<1>2. /\ N' = N /\ Live' = Live /\ \A j : P(j)' = P(j)
      /\ \A k : Nth(k)' = Nth(k)
  BY <1>1 DEF N, Live, P, Nth
<1>3. Current' = Current
  BY <1>1, <1>2 DEF Current, At
<1>4. LanesRead' = LanesRead
  BY <1>2 DEF LanesRead
<1>5. BuildInv' = BuildInv /\ Waiting' = Waiting /\ Done' = Done
  BY <1>1 DEF BuildInv, Waiting, Done
<1>6. Built' = Built /\ ListInv' = ListInv /\ CopyInv' = CopyInv /\ LaneType' = LaneType
  BY <1>1, <1>2 DEF Built, ListInv, CopyInv, LaneType
<1>7. Exhausted' = Exhausted
  BY <1>1, <1>2, <1>4 DEF Exhausted
<1>8. ScanInv' = ScanInv /\ LanesInv' = LanesInv /\ HeapInv' = HeapInv
  BY <1>1, <1>2 DEF ScanInv, LanesInv, HeapInv, BagToSet
<1>9. LoopInv' = LoopInv
  BY <1>1, <1>2, <1>8 DEF LoopInv
<1>10. Working' = Working
  BY <1>1, <1>3, <1>5, <1>6, <1>7, <1>9 DEF Working
<1> QED BY <1>1, <1>2, <1>3, <1>5, <1>10 DEF IInv

\* An initial state is an initial state of the specification.
LEMMA InitStep ==
    ASSUME Init
    PROVE  IInv /\ Abstract!Init
<1>1. /\ merges \in Tables /\ token \in Inputs /\ loop = "none" /\ read = 0 /\ written = 0
      /\ out = <<>> /\ todo = (IF Packable(merges) THEN DOMAIN merges ELSE {})
      /\ flat = (IF Packable(merges) THEN EmptyTable ELSE NoTable)
  BY DEF Init
<1>2. BuildInv
  <2>1. TableInv(EmptyTable, merges, {})
    BY EmptyTableInv
  <2>2. Packable(merges) => DOMAIN merges \ todo = {}
    BY <1>1
  <2> QED BY <2>1, <2>2, <1>1 DEF BuildInv
<1>3. token \in Seq(Symbol) /\ N <= NONE
  BY <1>1, SymbolAssumption DEF N
<1>4. Current = token
  BY <1>1 DEF Current
<1> QED BY <1>1, <1>2, <1>3, <1>4 DEF IInv, Waiting, Abstract!Init

\* Building the flat table moves no symbol.
LEMMA BuildStep ==
    ASSUME IInv, Build
    PROVE  IInv' /\ UNCHANGED <<merges, Current>>
<1>1. /\ todo # {} /\ flat # NoTable
      /\ UNCHANGED <<merges, loop, token, next, prev, ranks, heap, read, written, out>>
  BY DEF Build, list
<1>2. PICK p \in todo :
        /\ todo' = todo \ {p}
        /\ flat' = IF Displacement(flat.slots, p) > MAX_DISPLACEMENT THEN NoTable
                   ELSE Inserted(flat, p, merges[p].id)
  BY DEF Build
<1>3. loop = "none"
  BY <1>1 DEF IInv, Working, Built
<1>4. /\ BuildInv /\ Waiting /\ token \in Seq(Symbol) /\ N <= NONE
  BY <1>3 DEF IInv
<1>5. BuildInv'
  <2> DEFINE D == DOMAIN merges \ todo
  <2>1. /\ merges \in Tables /\ todo \in SUBSET DOMAIN merges /\ Packable(merges)
        /\ TableInv(flat, merges, D)
    BY <1>1, <1>4 DEF BuildInv
  <2>2. p \in DOMAIN merges /\ p \notin D /\ DOMAIN merges \ todo' = D \cup {p}
    BY <2>1, <1>2
  <2>3. D \in SUBSET DOMAIN merges
    OBVIOUS
  <2> HIDE DEF D
  <2>4. TableInv(Inserted(flat, p, merges[p].id), merges, D \cup {p})
    BY <2>1, <2>2, <2>3, InsertedInv
  <2>5. flat' # NoTable => TableInv(flat', merges, DOMAIN merges \ todo')
    BY <2>2, <2>4, <1>2
  <2> QED BY <2>1, <2>5, <1>1, <1>2 DEF BuildInv
<1>6. Waiting' /\ token' \in Seq(Symbol) /\ N' <= NONE
  BY <1>1, <1>4 DEF Waiting, N
<1>7. Current' = Current
  BY <1>1, <1>3, <1>4 DEF Current, Waiting
<1> QED BY <1>1, <1>3, <1>5, <1>6, <1>7 DEF IInv

\* A fresh list spells the sequence, and its pairs are the sequence's.
FreshList(m, n, s, nx, pv) ==
    /\ ListOf(m, n, s, nx, pv) /\ LiveOf(n, nx, pv) = 0..n - 1 /\ Word(n, s, nx, pv) = s
    /\ \A j \in Nat : PairOf(m, n, s, nx, pv, j) =
            IF j < n - 1 THEN RankIn(m, s[j + 1], s[j + 2]) ELSE NoRank

\* Linked builds a fresh list.
LEMMA FreshFacts ==
    ASSUME NEW m \in Tables, NEW s \in Seq(Symbol), NEW n, n = Len(s), n <= NONE,
           NEW end \in Nat, end >= n, NEW nx, NEW pv,
           nx = [i \in 0..n - 1 |-> IF i = n - 1 THEN end ELSE i + 1],
           pv = [i \in 0..n - 1 |-> IF i = 0 THEN NONE ELSE i - 1]
    PROVE  FreshList(m, n, s, nx, pv)
<1> DEFINE L == LiveOf(n, nx, pv)
           I == 0..n - 1
<1>1. n \in Nat /\ NONE \in Nat
  BY LenProperties, Bounds
<1>2. /\ nx \in [I -> Nat] /\ pv \in [I -> Nat] /\ (n > 0 => pv[0] = NONE)
      /\ \A i \in I : nx[i] = IF i = n - 1 THEN end ELSE i + 1
      /\ \A i \in I : i # 0 => pv[i] = i - 1 /\ i - 1 \in I
  BY <1>1
<1>3. L = I
  <2>1. \A i \in I : i = 0 \/ nx[pv[i]] = i
    BY <1>1, <1>2
  <2> QED BY <2>1 DEF LiveOf
<1>4. \A i \in I : Neighbours(I, n, nx, pv, i)
  <2> TAKE i \in I
  <2>1. CASE i = n - 1
    <3>1. ~(nx[i] < n) /\ \A j \in I : j <= i
      BY <2>1, <1>1, <1>2
    <3>2. i # 0 => pv[i] \in I /\ pv[i] < i /\ nx[pv[i]] = i
      BY <1>1, <1>2
    <3> QED BY <3>1, <3>2 DEF Neighbours
  <2>2. CASE i # n - 1
    <3>1. nx[i] = i + 1 /\ i + 1 \in I /\ pv[i + 1] = i /\ i + 1 < n
      BY <2>2, <1>1, <1>2
    <3>2. \A j \in I : j <= i \/ i + 1 <= j
      BY <1>1
    <3>3. i # 0 => pv[i] \in I /\ pv[i] < i /\ nx[pv[i]] = i
      BY <1>1, <1>2
    <3> QED BY <3>1, <3>2, <3>3 DEF Neighbours
  <2> QED BY <2>1, <2>2
<1>5. Chained(n, nx, pv)
  <2>1. n > 0 => pv[0] >= n
    BY <1>1, <1>2
  <2>2. \A i \in 1..n - 1 : pv[i] < n
    <3> TAKE i \in 1..n - 1
    <3>1. i \in I /\ i # 0
      BY <1>1
    <3> QED BY <3>1, <1>1, <1>2
  <2>3. \A i \in L : Neighbours(L, n, nx, pv, i)
    <3> HIDE DEF L
    <3> QED BY <1>3, <1>4
  <2> HIDE DEF I
  <2>4. nx \in [I -> Nat] /\ pv \in [I -> Nat]
    BY <1>2
  <2> QED BY <2>1, <2>2, <2>3, <2>4 DEF Chained, I
<1>6. ListOf(m, n, s, nx, pv)
  BY <1>1, <1>5 DEF ListOf
<1>7. Cardinality(I) = n /\ \A i \in I : Upto(I, i) = i + 1
  <2>1. Cardinality(I) = n
    <3> DEFINE o == 0
               e == n - 1
    <3>1. o \in Int /\ e \in Int /\ I = o..e
      BY <1>1
    <3> HIDE DEF o, e, I
    <3>2. Cardinality(I) = IF o > e THEN 0 ELSE e - o + 1
      BY <3>1, FS_Interval
    <3> QED BY <3>2, <1>1 DEF o, e
  <2>2. ASSUME NEW i \in I
        PROVE  Upto(I, i) = i + 1
    <3>1. {j \in I : j <= i} = 0..i
      BY <1>1
    <3>2. i \in Int /\ Cardinality(0..i) = i + 1
      BY <1>1, FS_Interval
    <3> QED BY <3>1, <3>2 DEF Upto
  <2> QED BY <2>1, <2>2
<1>8. \A k \in 1..n : Spot(I, k) = k - 1
  <2> TAKE k \in 1..n
  <2>1. k - 1 \in I /\ Upto(I, k - 1) = k
    BY <1>1, <1>7
  <2>2. I \in SUBSET Nat /\ IsFiniteSet(I)
    BY <1>1, FS_Interval
  <2> HIDE DEF I
  <2>3. Spot(I, Upto(I, k - 1)) = k - 1
    BY <2>1, <2>2, SpotFacts
  <2> QED BY <2>1, <2>3
<1>9. Word(n, s, nx, pv) = s
  <2>1. s = [k \in 1..n |-> s[k]]
    BY LenProperties
  <2>2. Word(n, s, nx, pv) = [k \in 1..n |-> s[Spot(I, k) + 1]]
    BY <1>3, <1>7 DEF Word
  <2>3. \A k \in 1..n : s[Spot(I, k) + 1] = s[k]
    BY <1>1, <1>8
  <2> HIDE DEF I
  <2> QED BY <2>1, <2>2, <2>3
<1>10. ASSUME NEW j \in Nat
       PROVE  PairOf(m, n, s, nx, pv, j) =
                    IF j < n - 1 THEN RankIn(m, s[j + 1], s[j + 2]) ELSE NoRank
  <2>1. CASE j < n - 1
    <3>1. j \in I /\ nx[j] = j + 1 /\ j + 1 < n /\ (j + 1) + 1 = j + 2
      BY <2>1, <1>1, <1>2
    <3> QED BY <3>1, <2>1, <1>3 DEF PairOf
  <2>2. CASE ~(j < n - 1)
    <3>1. ~(j \in I /\ nx[j] < n)
      BY <2>2, <1>1, <1>2
    <3> QED BY <3>1, <2>2, <1>3 DEF PairOf
  <2> QED BY <2>1, <2>2
<1> QED BY <1>3, <1>6, <1>9, <1>10 DEF FreshList

\* What a start leaves to its loop.
StartStep ==
    /\ N' = N /\ N \in Nat /\ Served
    /\ \A j \in Nat : P(j)' = SeedRank(j) /\ SeedRank(j) \in 0..NoRank - 1 \cup {NoRank}
    /\ flat # NoTable => \A j \in Nat : SeedRank(j) \in 0..ID_LIMIT - 1 \cup {NoRank}
    /\ Live' = 0..N - 1
    /\ out' = <<>> => UNCHANGED <<merges, Current>>
    /\ out' = <<>> /\ LaneType' /\ LoopInv' => IInv'
    /\ out' # <<>> /\ LaneType' /\ Exhausted' /\ Abstract!Candidates(merges, out') = {} => IInv'

\* Every start links the sequence; what is left to a loop is LoopInv.
LEMMA Starting ==
    ASSUME IInv, Idle, NEW end \in Nat, end >= N, Linked(end), loop' # "none",
           UNCHANGED <<merges, todo, flat, token, read, written>>
    PROVE  StartStep
<1> DEFINE P2(j) == PairOf(merges, N, token, next', prev', j)
<1>1. /\ BuildInv /\ Built /\ token \in Seq(Symbol) /\ N <= NONE /\ Waiting /\ loop = "none"
  BY DEF IInv, Idle
<1>2. Served
  BY <1>1, RankExact
<1>3. merges \in Tables /\ N = Len(token) /\ N \in Nat
  <2>1. Len(token) \in Nat
    BY <1>1, LenProperties
  <2> QED BY <2>1, <1>1 DEF BuildInv, N
<1>4. /\ next' = [i \in 0..N - 1 |-> IF i = N - 1 THEN end ELSE i + 1]
      /\ prev' = [i \in 0..N - 1 |-> IF i = 0 THEN NONE ELSE i - 1]
  BY DEF Linked
<1>5. FreshList(merges, N, token, next', prev')
  BY <1>1, <1>3, <1>4, FreshFacts
<1>6. /\ ListOf(merges, N, token, next', prev') /\ LiveOf(N, next', prev') = 0..N - 1
      /\ Word(N, token, next', prev') = token
      /\ \A j \in Nat : P2(j) = IF j < N - 1 THEN RankIn(merges, token[j + 1], token[j + 2])
                                ELSE NoRank
  BY <1>5 DEF FreshList
<1>7. N' = N /\ Live' = 0..N - 1 /\ \A j : P(j)' = P2(j)
  <2>1. N' = N
    BY DEF N
  <2> QED BY <2>1, <1>6 DEF Live, LiveOf, P
<1>8. \A j \in Nat : P2(j) = SeedRank(j)
  <2> TAKE j \in Nat
  <2>1. CASE j < N - 1
    <3>1. j + 1 \in 1..Len(token) /\ j + 2 \in 1..Len(token) /\ (j + 1) + 1 = j + 2
      BY <2>1, <1>3
    <3>2. token[j + 1] \in Symbol /\ token[j + 2] \in Symbol
      BY <3>1, <1>1, ElementOfSeq
    <3> HIDE DEF P2
    <3>3. At(j) = token[j + 1] /\ At(j + 1) = token[j + 2]
      BY <3>1 DEF At
    <3>4. Rank(token[j + 1], token[j + 2]) = RankIn(merges, token[j + 1], token[j + 2])
      BY <3>2, <1>2 DEF Served
    <3> QED BY <3>3, <3>4, <2>1, <1>6 DEF SeedRank
  <2>2. CASE ~(j < N - 1)
    BY <2>2, <1>6 DEF SeedRank
  <2> QED BY <2>1, <2>2
<1>9. \A j : P2(j) \in 0..NoRank - 1 \cup {NoRank}
  BY <1>6, PairRange
<1>10. flat # NoTable => \A j : P2(j) \in 0..ID_LIMIT - 1 \cup {NoRank}
  <2>1. flat # NoTable => \A p \in DOMAIN merges : merges[p].rank \in 0..ID_LIMIT - 1
    BY <1>1 DEF BuildInv, Packable
  <2> QED BY <2>1 DEF PairOf, RankIn
<1> HIDE DEF P2
<1>11. BuildInv' /\ Built' /\ ListInv'
  BY <1>1, <1>6, <1>7 DEF BuildInv, Built, ListInv
<1>12. CopyInv'
  <2>1. read' = 0 /\ written' = 0
    BY <1>1 DEF Waiting
  <2>2. CASE N = 0
    <3>1. Live' = {} /\ Cardinality({}) = 0
      BY <2>2, <1>7, FS_EmptySet
    <3> QED BY <3>1, <2>1, <2>2, <1>7 DEF CopyInv
  <2>3. CASE N > 0
    <3> DEFINE L == Live'
    <3>1. 0 \in L /\ L \in SUBSET Nat /\ IsFiniteSet(L)
      <4>1. 0 \in L /\ L \in SUBSET Nat /\ L = 0..N - 1
        BY <2>3, <1>3, <1>7
      <4>2. 0 \in Int /\ N - 1 \in Int
        BY <1>3
      <4>3. IsFiniteSet(0..N - 1)
        BY <4>2, FS_Interval
      <4> HIDE DEF L
      <4> QED BY <4>1, <4>3
    <3> HIDE DEF L
    <3>2. Upto(L, 0) = 1
      BY <3>1, UptoSteps DEF L
    <3> QED BY <3>1, <3>2, <2>1, <2>3, <1>3, <1>7 DEF CopyInv, L
  <2> QED BY <2>2, <2>3, <1>3
<1>13. ASSUME out' = <<>>
       PROVE  UNCHANGED <<merges, Current>>
  <2>1. Current = token
    BY <1>1 DEF Current, Waiting
  <2>2. Current' = Word(N, token, next', prev')
    <3> DEFINE L == LiveOf(N, next', prev')
    <3>1. \A k : Nth(k)' = Spot(L, k)
      BY <1>7 DEF Nth, Spot, Upto, Live, LiveOf
    <3>2. Live' = L
      BY <1>7 DEF Live, LiveOf
    <3>3. Cardinality(L) \in Nat
      BY <1>3, LiveFacts
    <3>4. written' = 0
      BY <1>1 DEF Waiting
    <3>5. Current' = [k \in 1..Cardinality(Live') |->
                        IF k <= written' THEN token'[k] ELSE token'[Nth(k)' + 1]]
      BY <1>13 DEF Current, At
    <3> HIDE DEF L
    <3>6. Current' = [k \in 1..Cardinality(L) |-> token[Spot(L, k) + 1]]
      BY <3>1, <3>2, <3>3, <3>4, <3>5
    <3> QED BY <3>6 DEF Word, L
  <2> QED BY <2>1, <2>2, <1>6
<1>14. token' \in Seq(Symbol) /\ N' <= NONE
  BY <1>1, <1>7
<1>15. out' = <<>> /\ LaneType' /\ LoopInv' => IInv'
  <2>1. out' = <<>> => ~Done'
    BY <1>1 DEF Done, Waiting
  <2> QED BY <2>1, <1>11, <1>12, <1>14 DEF IInv, Working
<1>16. out' # <<>> /\ LaneType' /\ Exhausted' /\ Abstract!Candidates(merges, out') = {} => IInv'
  <2>1. out' # <<>> => Done' /\ Current' = out'
    BY DEF Done, Current
  <2> QED BY <2>1, <1>11, <1>12, <1>14 DEF IInv, Working
<1> QED BY <1>2, <1>3, <1>7, <1>8, <1>9, <1>10, <1>13, <1>15, <1>16 DEF StartStep

\* Fewer than two symbols are returned as they are.
LEMMA TrivialStep ==
    ASSUME IInv, Trivial
    PROVE  IInv' /\ UNCHANGED <<merges, Current>>
<1>1. /\ Idle /\ N < 2 /\ loop' = "scan" /\ out' = token /\ Linked(N)
      /\ UNCHANGED <<merges, todo, flat, token, ranks, heap, read, written>>
  BY DEF Trivial
<1>2. N \in Nat /\ Waiting /\ loop = "none" /\ token \in Seq(Symbol) /\ N = Len(token)
  <2>1. token \in Seq(Symbol)
    BY DEF IInv
  <2>2. Len(token) \in Nat
    BY <2>1, LenProperties
  <2> QED BY <2>1, <2>2, <1>1 DEF IInv, Idle, N
<1>3. StartStep
  <2>1. N >= N /\ loop' # "none"
    BY <1>1, <1>2
  <2> QED BY <2>1, <1>1, <1>2, Starting
<1>4. LaneType' /\ N' = N
  BY <1>1, <1>3 DEF LaneType, StartStep
<1>5. CASE token = <<>>
  <2>1. out' = <<>> /\ LoopInv'
    BY <1>1, <1>2, <1>4, <1>5 DEF LoopInv
  <2> QED BY <2>1, <1>3, <1>4 DEF StartStep
<1>6. CASE token # <<>>
  <2>1. Exhausted'
    BY <1>1, <1>2, <1>4 DEF Exhausted
  <2>2. Abstract!Candidates(merges, out') = {}
    BY <1>1, <1>2 DEF Abstract!Candidates
  <2>3. Current' = Current
    BY <1>1, <1>2, <1>6 DEF Current, Waiting
  <2> QED BY <2>1, <2>2, <2>3, <1>1, <1>3, <1>4, <1>6 DEF StartStep
<1> QED BY <1>5, <1>6

\* The rank array starts with the rank of every pair.
LEMMA StartScanStep ==
    ASSUME IInv, StartScan
    PROVE  IInv' /\ UNCHANGED <<merges, Current>>
<1>1. /\ Idle /\ N \in 2..SMALL_MERGE_MAX /\ loop' = "scan" /\ Linked(N) /\ out' = out
      /\ ranks' = [i \in 0..SMALL_MERGE_MAX - 1 |-> SeedRank(i)]
      /\ UNCHANGED <<merges, todo, flat, token, heap, read, written>>
  BY DEF StartScan
<1>2. out' = <<>> /\ N \in Nat /\ SMALL_MERGE_MAX \in Nat /\ NoRank \in Nat
  BY <1>1, Bounds DEF IInv, Idle, Waiting
<1>3. StartStep
  <2>1. N >= N /\ loop' # "none"
    BY <1>1, <1>2
  <2> QED BY <2>1, <1>1, <1>2, Starting
<1>4. /\ N' = N /\ \A j \in Nat : P(j)' = SeedRank(j) /\ SeedRank(j) \in 0..NoRank - 1 \cup {NoRank}
  BY <1>3 DEF StartStep
<1>5. ScanInv'
  <2>1. ranks' \in [0..SMALL_MERGE_MAX - 1 -> Nat]
    <3>1. \A i \in 0..SMALL_MERGE_MAX - 1 : SeedRank(i) \in Nat
      BY <1>2, <1>4
    <3> QED BY <3>1, <1>1
  <2>2. ASSUME NEW i \in 0..N - 1
        PROVE  ranks'[i] = P(i)'
    <3>1. i \in 0..SMALL_MERGE_MAX - 1 /\ i \in Nat
      BY <1>1, <1>2
    <3> QED BY <3>1, <1>1, <1>4
  <2> QED BY <2>1, <2>2, <1>1, <1>4 DEF ScanInv
<1>6. LaneType' /\ LoopInv'
  BY <1>1, <1>5 DEF LaneType, LoopInv
<1> QED BY <1>2, <1>3, <1>6 DEF StartStep

\* The lanes start with the packed rank of every pair.
LEMMA StartLanesStep ==
    ASSUME IInv, StartLanes
    PROVE  IInv' /\ UNCHANGED <<merges, Current>>
<1> DEFINE S == 0..SHORT_MERGE_MAX - 1
<1>1. /\ Idle /\ N \in 2..SHORT_MERGE_MAX - 1 /\ loop' = "lanes" /\ Linked(N) /\ out' = out
      /\ ranks' = [i \in S |-> IF i < N - 1 THEN Pack(SeedRank(i), i) ELSE WORD - 1]
      /\ flat # NoTable
      /\ UNCHANGED <<merges, todo, flat, token, heap, read, written>>
  BY DEF StartLanes
<1>2. /\ out' = <<>> /\ N \in Nat /\ SHORT_MERGE_MAX \in Nat /\ NoRank \in Nat
      /\ SHORT_MERGE_MAX <= PACK /\ PACK = 256
  BY <1>1, Bounds DEF IInv, Idle, Waiting, PACK
<1>3. StartStep
  <2>1. N >= N /\ loop' # "none"
    BY <1>1, <1>2
  <2> QED BY <2>1, <1>1, <1>2, Starting
<1>4. /\ N' = N
      /\ \A j \in Nat : P(j)' = SeedRank(j) /\ SeedRank(j) \in 0..ID_LIMIT - 1 \cup {NoRank}
  BY <1>1, <1>3 DEF StartStep
<1>5. S \subseteq 0..PACK - 1 /\ S \subseteq Nat
  BY <1>2
<1> HIDE DEF S
<1>6. /\ WORD - 1 \in Nat /\ WORD - 1 >= NO_MERGE_FLOOR
      /\ \A j \in S : /\ Pack(SeedRank(j), j) \in Nat
                      /\ SeedRank(j) = NoRank => Pack(SeedRank(j), j) >= NO_MERGE_FLOOR
  BY <1>4, <1>5, LaneFacts
<1>7. ranks' \in [S -> Nat]
  BY <1>1, <1>6
<1>8. ASSUME NEW i \in S
      PROVE  IF P(i)' # NoRank THEN ranks'[i] = Pack(P(i)', i) ELSE ranks'[i] >= NO_MERGE_FLOOR
  <2>1. P(i)' = SeedRank(i)
    BY <1>4, <1>5
  <2>2. CASE i < N - 1
    <3>1. ranks'[i] = Pack(SeedRank(i), i)
      BY <2>2, <1>1
    <3> QED BY <3>1, <2>1, <1>6
  <2>3. CASE ~(i < N - 1)
    <3>1. ranks'[i] = WORD - 1 /\ SeedRank(i) = NoRank
      BY <2>3, <1>1 DEF SeedRank
    <3> QED BY <3>1, <2>1, <1>6
  <2> QED BY <2>2, <2>3
<1>9. LanesInv' /\ LaneType'
  BY <1>1, <1>4, <1>7, <1>8 DEF LanesInv, LaneType, S
<1>10. LoopInv'
  BY <1>1, <1>9 DEF LoopInv
<1> QED BY <1>2, <1>3, <1>9, <1>10 DEF StartStep

\* The heap starts with an entry of every pair.
LEMMA StartHeapStep ==
    ASSUME IInv, StartHeap
    PROVE  IInv' /\ UNCHANGED <<merges, Current>>
<1> DEFINE S == {<<SeedRank(i), i>> : i \in {j \in 0..N - 2 : SeedRank(j) # NoRank}}
<1>1. /\ Idle /\ N > SMALL_MERGE_MAX /\ loop' = "heap" /\ Linked(NONE) /\ out' = out
      /\ heap' = SetToBag(S)
      /\ UNCHANGED <<merges, todo, flat, token, ranks, read, written>>
  BY DEF StartHeap
<1>2. /\ out' = <<>> /\ N <= NONE /\ NONE \in Nat /\ NoRank \in Nat
  BY <1>1, Bounds DEF IInv, Idle, Waiting
<1>3. N \in Nat
  <2>1. token \in Seq(Symbol)
    BY DEF IInv
  <2> QED BY <2>1, LenProperties DEF N
<1>4. StartStep
  <2>1. NONE >= N /\ loop' # "none"
    BY <1>1, <1>2, <1>3
  <2> QED BY <2>1, <1>1, <1>2, Starting
<1>5. /\ N' = N /\ Live' = 0..N - 1
      /\ \A j \in Nat : P(j)' = SeedRank(j) /\ SeedRank(j) \in 0..NoRank - 1 \cup {NoRank}
  BY <1>4 DEF StartStep
<1> HIDE DEF S
<1>6. IsABag(heap') /\ BagToSet(heap') = S
  BY <1>1, BagOfSet
<1>7. S \subseteq (0..NoRank - 1) \X (0..N - 1)
  BY <1>3, <1>5 DEF S
<1>8. ASSUME NEW i \in 0..N - 1, P(i)' # NoRank
      PROVE  <<P(i)', i>> \in S
  <2>1. P(i)' = SeedRank(i) /\ i \in 0..N - 2
    BY <1>3, <1>5, <1>8 DEF SeedRank
  <2> QED BY <2>1, <1>8 DEF S
<1>9. \A i \in 0..N - 1 : next'[i] < N \/ next'[i] = NONE
  BY <1>1, <1>3 DEF Linked
<1>10. HeapInv'
  BY <1>5, <1>6, <1>7, <1>8, <1>9 DEF HeapInv, BagToSet
<1>11. LaneType' /\ LoopInv'
  BY <1>1, <1>10 DEF LaneType, LoopInv
<1> QED BY <1>2, <1>4, <1>11 DEF StartStep

-----------------------------------------------------------------------------
(* Compaction. *)

\* A loop stops when no pair of its list merges.
LEMMA NoneLeft ==
    ASSUME IInv, loop # "none", Exhausted
    PROVE  Abstract!Candidates(merges, Current) = {}
<1>1. CASE Done
  BY <1>1 DEF IInv, Working
<1>2. CASE ~Done
  <2>1. /\ LoopInv /\ LaneType /\ N \in Nat /\ ListOf(merges, N, token, next, prev)
        /\ \A j : P(j) \in 0..NoRank - 1 \cup {NoRank}
        /\ \A i : P(i) # NoRank => /\ i \in Live /\ i \in 0..N - 2
                                   /\ flat # NoTable => P(i) \in 0..ID_LIMIT - 1
    BY <1>2, AtWork
  <2>2. \A i : P(i) = NoRank
    <3> SUFFICES ASSUME NEW i, P(i) # NoRank
                 PROVE  FALSE
      OBVIOUS
    <3>1. i \in 0..N - 2 /\ i \in 0..N - 1 /\ i \in Nat /\ N >= 2
      BY <2>1
    <3>2. CASE loop = "scan"
      <4>1. ranks[i] = P(i)
        BY <3>1, <3>2, <2>1 DEF LoopInv, ScanInv
      <4> QED BY <4>1, <3>1, <3>2 DEF Exhausted
    <3>3. CASE loop = "lanes"
      <4>1. /\ N \in 2..SHORT_MERGE_MAX - 1 /\ SHORT_MERGE_MAX \in Nat /\ SHORT_MERGE_MAX <= PACK
            /\ NARROW \in Nat /\ NARROW <= SHORT_MERGE_MAX /\ PACK = 256 /\ flat # NoTable
        BY <3>3, <2>1, Bounds DEF LoopInv, LaneType, LanesInv, PACK
      <4>2. i \in 0..SHORT_MERGE_MAX - 1 /\ i \in LanesRead /\ i \in 0..PACK - 1
        BY <4>1, <3>1 DEF LanesRead
      <4>3. ranks[i] = Pack(P(i), i)
        BY <4>2, <3>3, <2>1 DEF LoopInv, LanesInv
      <4>4. ranks[i] >= NO_MERGE_FLOOR
        BY <4>2, <3>3 DEF Exhausted
      <4>5. P(i) \in 0..ID_LIMIT - 1
        BY <4>1, <2>1
      <4> HIDE DEF P
      <4>6. Pack(P(i), i) < NO_MERGE_FLOOR /\ Pack(P(i), i) \in Nat /\ NO_MERGE_FLOOR \in Nat
        BY <4>2, <4>5, PackFacts, LaneFacts
      <4> QED BY <4>3, <4>4, <4>6
    <3>4. CASE loop = "heap"
      <4>1. <<P(i), i>> \in BagToSet(heap)
        BY <3>1, <3>4, <2>1 DEF LoopInv, HeapInv
      <4>2. heap = EmptyBag
        BY <3>4 DEF Exhausted
      <4> QED BY <4>1, <4>2 DEF EmptyBag, SetToBag, BagToSet
    <3> QED BY <3>2, <3>3, <3>4 DEF Exhausted
  <2>3. Current = Word(N, token, next, prev)
    <3>1. written = 0 /\ out = <<>>
      BY <1>2 DEF Done, IInv, Working, CopyInv
    <3> QED BY <3>1, <2>1, CurrentIsWord
  <2> DEFINE w == Word(N, token, next, prev)
             L == LiveOf(N, next, prev)
  <2>4. /\ \A k \in Abstract!Candidates(merges, w) : \E i \in L : k = Upto(L, i)
        /\ \A i \in L : Upto(L, i) \in Abstract!Candidates(merges, w) <=> P(i) # NoRank
    BY <2>1, CandidateFacts DEF P
  <2> HIDE DEF w, L
  <2> QED BY <2>2, <2>3, <2>4 DEF w
<1> QED BY <1>1, <1>2

\* Copying a symbol forward overwrites none that is still to be copied.
LEMMA CompactStep ==
    ASSUME IInv, Compact
    PROVE  IInv' /\ UNCHANGED <<merges, Current>>
<1>1. /\ Exhausted /\ out = <<>> /\ read < N /\ token' = [token EXCEPT ![written + 1] = At(read)]
      /\ written' = written + 1 /\ read' = next[read]
      /\ UNCHANGED <<merges, todo, flat, loop, next, prev, ranks, heap, out>>
  BY DEF Compact, Active
<1>2. loop # "none"
  BY <1>1 DEF Exhausted
<1>3. /\ BuildInv /\ Built /\ CopyInv /\ LaneType /\ ListOf(merges, N, token, next, prev)
      /\ token \in Seq(Symbol) /\ N <= NONE
  BY <1>2 DEF IInv, Working, ListInv
<1>4. N \in Nat /\ Chained(N, next, prev) /\ N = Len(token)
  BY <1>3 DEF ListOf, N
<1> DEFINE L == LiveOf(N, next, prev)
           K == Cardinality(L)
<1>5. /\ L \in SUBSET (0..N - 1) /\ L \in SUBSET Nat /\ IsFiniteSet(L) /\ K \in Nat
      /\ \A i \in L : Neighbours(L, N, next, prev, i)
      /\ Live = L
  <2>1. L \in SUBSET (0..N - 1) /\ L \in SUBSET Nat /\ IsFiniteSet(L) /\ K \in Nat
    BY <1>4, LiveFacts
  <2>2. \A i \in L : Neighbours(L, N, next, prev, i)
    BY <1>4 DEF Chained
  <2> QED BY <2>1, <2>2 DEF Live, LiveOf
<1> HIDE DEF L, K
<1>6. read \in L /\ Upto(L, read) = written + 1 /\ written \in Nat /\ read \in Nat
  BY <1>1, <1>3, <1>5 DEF CopyInv
<1>7. /\ Upto(L, read) <= read + 1 /\ Upto(L, read) \in 1..K
      /\ \A i \in L : Upto(L, i) <= i + 1
      /\ \A k \in 1..K : Spot(L, k) \in L /\ Upto(L, Spot(L, k)) = k
      /\ Spot(L, written + 1) = read
  <2>1. \A i \in L : Upto(L, i) <= i + 1
    BY <1>5, UptoBound
  <2>2. Upto(L, read) \in 1..K
    BY <1>5, <1>6, UptoFacts DEF K
  <2>3. /\ \A k \in 1..K : Spot(L, k) \in L /\ Upto(L, Spot(L, k)) = k
        /\ Spot(L, Upto(L, read)) = read
    BY <1>5, <1>6, SpotFacts DEF K
  <2> QED BY <2>1, <2>2, <2>3, <1>6
<1>8. written + 1 \in 1..Len(token) /\ At(read) \in Symbol
  <2>1. written + 1 \in 1..Len(token)
    BY <1>1, <1>4, <1>6, <1>7
  <2>2. read + 1 \in 1..Len(token)
    BY <1>1, <1>4, <1>6
  <2> QED BY <2>1, <2>2, <1>3, ElementOfSeq DEF At
<1>9. /\ token' \in Seq(Symbol) /\ Len(token') = N
      /\ \A j \in 1..N : token'[j] = IF j = written + 1 THEN At(read) ELSE token[j]
  BY <1>1, <1>3, <1>4, <1>8, ExceptSeq
<1>10. N' = N
  BY <1>9 DEF N
<1>11. Live' = L /\ \A k : Nth(k) = Spot(L, k) /\ Nth(k)' = Spot(L, k)
  <2>1. Live' = L
    BY <1>1, <1>10 DEF Live, LiveOf, L
  <2> QED BY <2>1, <1>5 DEF Nth, Spot, Upto
<1>12. Current' = Current
  <2>1. Current = [k \in 1..K |-> IF k <= written THEN token[k] ELSE token[Spot(L, k) + 1]]
    BY <1>1, <1>2, <1>5, <1>11 DEF Current, At, K
  <2>2. Current' = [k \in 1..K |-> IF k <= written' THEN token'[k] ELSE token'[Spot(L, k) + 1]]
    BY <1>1, <1>2, <1>11 DEF Current, At, K
  <2>3. ASSUME NEW k \in 1..K
        PROVE  (IF k <= written' THEN token'[k] ELSE token'[Spot(L, k) + 1])
                    = (IF k <= written THEN token[k] ELSE token[Spot(L, k) + 1])
    <3> DEFINE i == Spot(L, k)
    <3>1. i \in L /\ k <= i + 1 /\ i \in 0..N - 1 /\ i \in Nat
      BY <1>5, <1>7
    <3>2. k \in 1..N /\ i + 1 \in 1..N
      <4> HIDE DEF i
      <4> QED BY <3>1, <1>4, <1>5
    <3>3. CASE k <= written
      <4>1. k <= written' /\ k # written + 1
        BY <3>3, <1>1, <1>6
      <4> QED BY <4>1, <3>2, <3>3, <1>9
    <3>4. CASE k = written + 1
      <4>1. k <= written' /\ ~(k <= written)
        BY <3>4, <1>1, <1>6
      <4>2. i = read
        BY <3>4, <1>7
      <4> QED BY <4>1, <4>2, <3>2, <3>4, <1>9 DEF At
    <3>5. CASE k > written + 1
      <4>1. ~(k <= written') /\ ~(k <= written)
        BY <3>5, <1>1, <1>6
      <4>2. i + 1 # written + 1
        <5> HIDE DEF i
        <5> QED BY <3>1, <3>5, <1>6
      <4> QED BY <4>1, <4>2, <3>2, <1>9
    <3>6. k <= written \/ k = written + 1 \/ k > written + 1
      BY <1>5, <1>6
    <3> QED BY <3>3, <3>4, <3>5, <3>6
  <2> QED BY <2>1, <2>2, <2>3
<1>13. Abstract!Candidates(merges, Current) = {}
  BY <1>1, <1>2, NoneLeft
<1>14. Exhausted' /\ LaneType'
  <2>1. LanesRead' = LanesRead
    BY <1>10 DEF LanesRead
  <2> QED BY <2>1, <1>1, <1>3, <1>10 DEF Exhausted, LaneType
<1>15. ListInv' /\ BuildInv' /\ Built'
  <2>1. ListOf(merges, N, token', next, prev)
    BY <1>3, <1>9 DEF ListOf
  <2> QED BY <2>1, <1>1, <1>3, <1>10 DEF ListInv, BuildInv, Built
<1>16. CopyInv'
  <2>1. /\ next[read] \in Nat
        /\ next[read] < N => next[read] \in L /\ Upto(L, next[read]) = written + 2
        /\ ~(next[read] < N) => written + 1 = K
    <3>1. next[read] \in Nat
      BY <1>4, <1>5, <1>6 DEF Chained
    <3>2. Neighbours(L, N, next, prev, read)
      BY <1>5, <1>6
    <3>3. ASSUME next[read] < N
          PROVE  next[read] \in L /\ Upto(L, next[read]) = written + 2
      <4> DEFINE o == next[read]
      <4>1. o \in L /\ read < o /\ \A j \in L : j <= read \/ o <= j
        BY <3>2, <3>3 DEF Neighbours
      <4> HIDE DEF o
      <4>2. Upto(L, o) = Upto(L, read) + 1
        BY <4>1, <1>5, <1>6, UptoSteps
      <4>3. Upto(L, o) = written + 2
        BY <4>2, <1>6
      <4> QED BY <4>1, <4>3 DEF o
    <3>4. ASSUME ~(next[read] < N)
          PROVE  written + 1 = K
      <4>1. \A j \in L : j <= read
        BY <3>2, <3>4 DEF Neighbours
      <4>2. Upto(L, read) = Cardinality(L)
        BY <4>1, <1>5, <1>6, UptoSteps
      <4> QED BY <4>2, <1>6 DEF K
    <3> QED BY <3>1, <3>3, <3>4
  <2>2. written' \in Nat /\ written' # 0 /\ written' + 1 = written + 2
    BY <1>1, <1>6
  <2> QED BY <2>1, <2>2, <1>1, <1>10, <1>11 DEF CopyInv, K
<1>17. Done' /\ loop' # "none"
  BY <1>1, <1>2, <1>6 DEF Done
<1>18. Abstract!Candidates(merges', Current') = {}
  BY <1>1, <1>12, <1>13
<1> QED BY <1>1, <1>3, <1>9, <1>10, <1>12, <1>14, <1>15, <1>16, <1>17, <1>18 DEF IInv, Working

\* The caller reads what compaction copied.
LEMMA TruncateStep ==
    ASSUME IInv, Truncate
    PROVE  IInv' /\ UNCHANGED <<merges, Current>>
<1>1. /\ Exhausted /\ out = <<>> /\ ~(read < N) /\ out' = SubSeq(token, 1, written)
      /\ UNCHANGED <<merges, todo, flat, loop, token, next, prev, ranks, heap, read, written>>
  BY DEF Truncate, Active, list
<1>2. CASE out' = <<>>
  <2>1. UNCHANGED vars
    BY <1>1, <1>2 DEF vars, list
  <2> QED BY <2>1, Stutter
<1>3. CASE out' # <<>>
  <2>1. loop # "none"
    BY <1>1 DEF Exhausted
  <2>2. /\ BuildInv /\ Built /\ CopyInv /\ LaneType /\ ListInv /\ token \in Seq(Symbol) /\ N <= NONE
    BY <2>1 DEF IInv, Working
  <2>3. N \in Nat /\ N = Len(token) /\ written \in Nat /\ written = Cardinality(Live)
    BY <2>2, <1>1 DEF ListInv, ListOf, CopyInv, N
  <2>4. written <= N
    <3>1. Live \in SUBSET (0..N - 1)
      BY DEF Live
    <3>2. 0 \in Int /\ N - 1 \in Int
      BY <2>3
    <3> DEFINE o == 0
               e == N - 1
    <3>3. o \in Int /\ e \in Int /\ Live \in SUBSET (o..e)
      BY <3>1, <3>2
    <3> HIDE DEF o, e
    <3>4. IsFiniteSet(o..e) /\ Cardinality(o..e) = IF o > e THEN 0 ELSE e - o + 1
      BY <3>3, FS_Interval
    <3>5. Cardinality(Live) <= Cardinality(o..e)
      BY <3>3, <3>4, FS_Subset
    <3> QED BY <3>4, <3>5, <2>3 DEF o, e
  <2>5. Current = [k \in 1..written |-> token[k]]
    BY <1>1, <2>1, <2>3 DEF Current
  <2>6. out' = [k \in 1..written |-> token[k]]
    BY <1>1, <2>3, <2>4
  <2>7. Current' = out' /\ Current' = Current
    BY <2>5, <2>6, <1>3 DEF Current
  <2>8. Abstract!Candidates(merges, Current) = {}
    BY <1>1, <2>1, NoneLeft
  <2>9. N' = N /\ Live' = Live
    BY <1>1 DEF N, Live
  <2>10. LanesRead' = LanesRead
    BY <2>9 DEF LanesRead
  <2>11. Exhausted' /\ LaneType' /\ Done' /\ loop' # "none"
    BY <1>1, <1>3, <2>1, <2>2, <2>9, <2>10 DEF Exhausted, LaneType, Done
  <2>12. BuildInv' /\ Built' /\ CopyInv' /\ ListInv'
    BY <1>1, <2>2, <2>9 DEF BuildInv, Built, CopyInv, ListInv
  <2>13. Abstract!Candidates(merges', Current') = {}
    BY <1>1, <2>7, <2>8
  <2> QED BY <1>1, <2>2, <2>7, <2>9, <2>11, <2>12, <2>13 DEF IInv, Working
<1> QED BY <1>2, <1>3

-----------------------------------------------------------------------------

\* Every step keeps the invariant and is a merge or changes no symbol.
LEMMA Step ==
    ASSUME IInv, [Next]_vars
    PROVE  IInv' /\ [Abstract!Step]_(Abstract!vars)
<1>1. CASE Build
  BY <1>1, BuildStep DEF Abstract!vars
<1>2. CASE Trivial
  BY <1>2, TrivialStep DEF Abstract!vars
<1>3. CASE StartScan
  BY <1>3, StartScanStep DEF Abstract!vars
<1>4. CASE StartLanes
  BY <1>4, StartLanesStep DEF Abstract!vars
<1>5. CASE StartHeap
  BY <1>5, StartHeapStep DEF Abstract!vars
<1>6. CASE Scan
  BY <1>6, ScanStep
<1>7. CASE Lanes
  BY <1>7, LanesStep
<1>8. CASE Pop
  BY <1>8, PopStep DEF Abstract!vars
<1>9. CASE Compact
  BY <1>9, CompactStep DEF Abstract!vars
<1>10. CASE Truncate
  BY <1>10, TruncateStep DEF Abstract!vars
<1>11. CASE UNCHANGED vars
  BY <1>11, Stutter DEF Abstract!vars
<1> QED BY <1>1, <1>2, <1>3, <1>4, <1>5, <1>6, <1>7, <1>8, <1>9, <1>10, <1>11 DEF Next

\* The inductive invariant: the flat table holds the pairs taken from the map,
\* the list is linked both ways, the ranks, lanes or heap entries of the loop
\* tell the rank of every pair of the list, and compaction stays behind its
\* reader. It is what keeps the merge loops of bpe/mod.rs on course.
THEOREM LoopsStayInvariant == Spec => []IInv
<1>1. Init => IInv
  BY InitStep
<1>2. IInv /\ [Next]_vars => IInv'
  BY Step
<1> QED BY <1>1, <1>2, PTL DEF Spec

\* Whatever loop and table serve a call of bpe/mod.rs, the symbols of its list
\* start as the input and change only by the merge of the lowest-ranked
\* leftmost pair: the steps of the property ImplementsPairMerge.
THEOREM MergesInOrder == Spec => Abstract!Init /\ [][Abstract!Step]_(Abstract!vars)
<1>1. Init => IInv /\ Abstract!Init
  BY InitStep
<1>2. IInv /\ [Next]_vars => IInv' /\ [Abstract!Step]_(Abstract!vars)
  BY Step
<1> QED BY <1>1, <1>2, PTL DEF Spec

\* What a call returns is merged to its end: no two neighbours of the result
\* are a pair of the map, though ranks, lanes and heap only mirror the list.
THEOREM ResultIsMerged == Spec => [](out # <<>> => Abstract!Candidates(merges, out) = {})
<1>1. IInv => (out # <<>> => Abstract!Candidates(merges, out) = {})
  <2> SUFFICES ASSUME IInv, out # <<>>
               PROVE  Abstract!Candidates(merges, out) = {}
    OBVIOUS
  <2>1. Current = out /\ Done
    BY DEF Current, Done
  <2>2. loop # "none"
    BY DEF IInv, Waiting
  <2> QED BY <2>1, <2>2 DEF IInv, Working
<1> QED BY <1>1, LoopsStayInvariant, PTL

=============================================================================
