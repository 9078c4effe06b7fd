------------------------- MODULE BlockChoiceProofs -------------------------
(***************************************************************************)
(* Proofs about BlockChoice, for every set of uploaders, every size of the *)
(* file, of its blocks and its chunks and of what each network asks for.   *)
(***************************************************************************)
EXTENDS BlockChoice, FiniteSetTheorems, NaturalsInduction, WellFoundedInduction, TLAPS

-----------------------------------------------------------------------------
(* Numbers and blocks *)

\* A set of naturals has a least element.
LEMMA LeastOf ==
  ASSUME NEW T, T \subseteq Nat, T # {}
  PROVE  \E m \in T : \A k \in T : m <= k
<1> DEFINE Less == {ss \in Nat \X Nat : ss[1] < ss[2]}
<1>1. IsWellFoundedOn(Less, Nat)
  BY NatLessThanWellFounded, Zenon DEF OpToRel
<1>2. \A k, m \in Nat : k < m => <<k, m>> \in Less
  OBVIOUS
<1> HIDE DEF Less
<1>3. PICK m \in T : \A k \in T : ~(<<k, m>> \in Less)
  BY <1>1, WFMin
<1>4. \A k \in T : ~(k < m)
  BY <1>2, <1>3
<1> QED BY <1>4

\* A set of positive numbers that is bounded has a greatest element.
LEMMA MaxOf ==
  ASSUME NEW n \in Nat, NEW S, S \subseteq 1 .. n, S # {}
  PROVE  Max(S) \in S /\ \A y \in S : y <= Max(S)
<1> DEFINE T == {n - x : x \in S}
<1>1. T \subseteq Nat
  OBVIOUS
<1>2. T # {}
  <2>1. PICK x : x \in S
    OBVIOUS
  <2>2. n - x \in T
    BY <2>1
  <2> QED BY <2>2
<1> HIDE DEF T
<1>3. PICK m \in T : \A k \in T : m <= k
  BY <1>1, <1>2, LeastOf
<1>4. PICK x \in S : m = n - x
  BY <1>3 DEF T
<1>5. \A y \in S : n - y \in T
  BY DEF T
<1>6. \A y \in S : x >= y
  BY <1>3, <1>4, <1>5
<1> QED BY <1>4, <1>6 DEF Max

LEMMA MinOf ==
  ASSUME NEW a \in Int, NEW b \in Int
  PROVE  Min({a, b}) = IF a <= b THEN a ELSE b
BY DEF Min

LEMMA ProductMonotone ==
  ASSUME NEW c \in Nat, NEW a \in Nat, NEW b \in Nat, b <= a
  PROVE  b * c <= a * c
<1>1. PICK k \in Nat : a = b + k
  <2>1. a - b \in Nat /\ a = b + (a - b)
    OBVIOUS
  <2> QED BY <2>1
<1>2. a * c = b * c + k * c
  BY <1>1
<1>3. k * c \in Nat /\ b * c \in Nat
  OBVIOUS
<1> QED BY <1>2, <1>3

\* A byte lies between the borders of its block.
LEMMA BlockBounds ==
  ASSUME NEW r \in 1 .. s_size
  PROVE  /\ Block(r) \in Nat
         /\ Begin(Block(r)) < r /\ r <= Begin(Block(r)) + block_size
         /\ Begin(Block(r)) \in Nat
<1>1. r - 1 \in Nat /\ block_size \in Nat \ {0} /\ s_size \in Nat
  BY SizesAssumption
<1>2. /\ (r - 1) \div block_size \in Nat
      /\ block_size * ((r - 1) \div block_size) <= r - 1
      /\ r - 1 < block_size * ((r - 1) \div block_size) + block_size
  BY <1>1
<1> DEFINE b == (r - 1) \div block_size
<1>3. b * block_size = block_size * b /\ b * block_size \in Nat
  BY <1>1, <1>2
<1> QED BY <1>1, <1>2, <1>3 DEF Block, Begin

\* And the block is the only one with that byte.
LEMMA BlockUnique ==
  ASSUME NEW i \in Nat, NEW r \in 1 .. s_size, Begin(i) < r, r <= Begin(i) + block_size
  PROVE  Block(r) = i
<1> DEFINE j == Block(r)
<1>1. j \in Nat /\ Begin(j) < r /\ r <= Begin(j) + block_size
  BY BlockBounds
<1>2. block_size \in Nat /\ r \in Int
  BY SizesAssumption
<1> HIDE DEF j
<1>3. \A a \in Nat : Begin(a) \in Nat /\ Begin(a + 1) = Begin(a) + block_size
  BY <1>2 DEF Begin
<1>4. ASSUME i < j PROVE FALSE
  <2>1. Begin(i + 1) <= Begin(j)
    BY <1>1, <1>2, <1>4, ProductMonotone DEF Begin
  <2> QED BY <1>1, <1>2, <1>3, <2>1
<1>5. ASSUME j < i PROVE FALSE
  <2>1. Begin(j + 1) <= Begin(i)
    BY <1>1, <1>2, <1>5, ProductMonotone DEF Begin
  <2> QED BY <1>1, <1>2, <1>3, <2>1
<1> QED BY <1>1, <1>4, <1>5 DEF j

LEMMA BeginType ==
  ASSUME NEW i \in Nat
  PROVE  Begin(i) \in Nat /\ End(i) \in Int /\ End(i) <= Begin(i) + block_size /\ End(i) <= s_size
         /\ (End(i) = Begin(i) + block_size \/ End(i) = s_size)
<1>1. block_size \in Nat /\ s_size \in Nat
  BY SizesAssumption
<1>2. Begin(i) \in Nat
  BY <1>1 DEF Begin
<1> QED BY <1>1, <1>2, MinOf DEF End

LEMMA BlockOfBlock ==
  ASSUME NEW i \in Blocks
  PROVE  /\ i \in Nat /\ Begin(i) \in Nat /\ Begin(i) < End(i)
         /\ End(i) \in 1 .. s_size /\ Block(End(i)) = i
<1>1. block_size \in Nat \ {0} /\ s_size \in Nat \ {0}
  BY SizesAssumption
<1> DEFINE last == (s_size - 1) \div block_size
<1>2. last \in Nat /\ block_size * last <= s_size - 1
  BY <1>1
<1>3. i \in Nat /\ i <= last
  BY <1>2 DEF Blocks
<1> HIDE DEF last
<1>4. i * block_size <= last * block_size
  BY <1>1, <1>2, <1>3, ProductMonotone
<1>5. Begin(i) < s_size /\ Begin(i) \in Nat
  BY <1>1, <1>2, <1>3, <1>4 DEF Begin
<1>6. Begin(i) < End(i) /\ End(i) \in 1 .. s_size /\ End(i) <= Begin(i) + block_size
  BY <1>1, <1>3, <1>5, BeginType
<1> QED BY <1>3, <1>5, <1>6, BlockUnique

LEMMA BlockInBlocks ==
  ASSUME NEW r \in 1 .. s_size
  PROVE  Block(r) \in Blocks /\ r <= End(Block(r)) /\ Begin(Block(r)) < r
<1>1. block_size \in Nat \ {0} /\ s_size \in Nat \ {0}
  BY SizesAssumption
<1> DEFINE last == (s_size - 1) \div block_size
           b == Block(r)
<1>2. last \in Nat /\ s_size - 1 < block_size * last + block_size
  BY <1>1
<1>3. b \in Nat /\ Begin(b) < r /\ r <= Begin(b) + block_size /\ Begin(b) \in Nat
  BY BlockBounds
<1> HIDE DEF last, b
<1>4. ASSUME last < b PROVE FALSE
  <2>1. (last + 1) * block_size <= b * block_size
    BY <1>1, <1>2, <1>3, <1>4, ProductMonotone
  <2>2. (last + 1) * block_size = block_size * last + block_size
    BY <1>1, <1>2
  <2> QED BY <1>1, <1>2, <1>3, <2>1, <2>2 DEF Begin
<1>5. b \in 0 .. last
  BY <1>2, <1>3, <1>4
<1>6. r <= End(b)
  BY <1>1, <1>3, BeginType
<1> QED BY <1>3, <1>5, <1>6 DEF b, last, Blocks

\* What ends before r and in another block ends before the block of r.
LEMMA Apart ==
  ASSUME NEW q \in 1 .. s_size, NEW r \in 1 .. s_size, q < r, Block(q) # Block(r)
  PROVE  q <= Begin(Block(r))
<1>1. Block(r) \in Nat /\ Begin(Block(r)) \in Nat /\ r <= Begin(Block(r)) + block_size
  BY BlockBounds
<1>2. ASSUME Begin(Block(r)) < q PROVE FALSE
  <2>1. q <= Begin(Block(r)) + block_size
    BY <1>1, SizesAssumption
  <2> QED BY <1>1, <1>2, <2>1, BlockUnique
<1> QED BY <1>1, <1>2

-----------------------------------------------------------------------------
(* Sums *)

\* What SumFunctionOnSet computes with, over the subsets of S.
Unfolds(g, S, h) ==
  h = [s \in SUBSET S |->
         IF s = {} THEN 0
         ELSE g[CHOOSE x \in s : TRUE] + h[s \ {CHOOSE x \in s : TRUE}]]

LEMMA SumUnfolds ==
  ASSUME NEW g, NEW S
  PROVE  SumFunctionOnSet(g, S) = (CHOOSE h : Unfolds(g, S, h))[S]
BY DEF SumFunctionOnSet, FoldFunctionOnSet, MapThenFoldSet, Unfolds

LEMMA DisjointUnion ==
  ASSUME NEW A, NEW B, IsFiniteSet(A), IsFiniteSet(B), A \cap B = {}
  PROVE  Cardinality(A \cup B) = Cardinality(A) + Cardinality(B)
<1>1. Cardinality(A) \in Nat /\ Cardinality(B) \in Nat
  BY FS_CardinalityType
<1>2. Cardinality(A \cap B) = 0
  BY FS_EmptySet
<1>3. Cardinality(A \cup B) = Cardinality(A) + Cardinality(B) - Cardinality(A \cap B)
  BY FS_Union
<1> QED BY <1>1, <1>2, <1>3

\* The recursion has one solution at most.
LEMMA UnfoldsOnce ==
  ASSUME NEW g, NEW S, IsFiniteSet(S), NEW h, NEW k, Unfolds(g, S, h), Unfolds(g, S, k)
  PROVE  h = k
<1> DEFINE Differ == {s \in SUBSET S : h[s] # k[s]}
           Sizes == {Cardinality(s) : s \in Differ}
<1>1. \A s \in SUBSET S : IsFiniteSet(s) /\ Cardinality(s) \in Nat
  BY FS_Subset, FS_CardinalityType
<1>2. ASSUME NEW s \in Differ, \A z \in Differ : Cardinality(s) <= Cardinality(z)
      PROVE  FALSE
  <2>1. s # {}
    BY DEF Unfolds
  <2> DEFINE c == CHOOSE x \in s : TRUE
  <2>2. c \in s
    BY <2>1
  <2>3. /\ h[s] = g[c] + h[s \ {c}] /\ k[s] = g[c] + k[s \ {c}]
    BY <2>1 DEF Unfolds
  <2> HIDE DEF c
  <2>4. Cardinality(s \ {c}) = Cardinality(s) - 1
    BY <1>1, <2>2, FS_RemoveElement
  <2>5. s \ {c} \notin Differ
    BY <1>1, <1>2, <2>4
  <2> QED BY <2>3, <2>5
<1>3. Differ = {}
  <2> SUFFICES ASSUME Differ # {} PROVE FALSE
    OBVIOUS
  <2>1. Sizes \subseteq Nat /\ Sizes # {}
    BY <1>1
  <2> HIDE DEF Sizes, Differ
  <2>2. PICK m \in Sizes : \A z \in Sizes : m <= z
    BY <2>1, LeastOf
  <2>3. PICK s \in Differ : m = Cardinality(s)
    BY <2>2 DEF Sizes
  <2>4. \A z \in Differ : Cardinality(s) <= Cardinality(z)
    BY <2>2, <2>3 DEF Sizes
  <2> QED BY <1>2, <2>3, <2>4 DEF Differ
<1>4. \A s \in SUBSET S : h[s] = k[s]
  BY <1>3
<1> QED BY <1>4 DEF Unfolds

AllOf(A, S) == UNION {A[x] : x \in S}
\* g gives the sizes of the sets A[x], which are apart.
SizesOf(A, g, U, S) ==
  /\ \A x \in S : A[x] \subseteq U /\ Cardinality(A[x]) = g[x]
  /\ \A x, y \in S : x # y => A[x] \cap A[y] = {}

\* A sum of the sizes of disjoint sets is the size of their union.
LEMMA SumIsCount ==
  ASSUME NEW S, IsFiniteSet(S), NEW g, NEW A, NEW U, IsFiniteSet(U), SizesOf(A, g, U, S)
  PROVE  SumFunctionOnSet(g, S) = Cardinality(AllOf(A, S))
<1> USE DEF SizesOf, AllOf
<1> DEFINE All(s) == AllOf(A, s)
           Count == [s \in SUBSET S |-> Cardinality(All(s))]
<1>1. \A s \in SUBSET S : All(s) \subseteq U
  OBVIOUS
<1>2. \A s \in SUBSET S : IsFiniteSet(All(s))
  BY <1>1, FS_Subset
<1>3. ASSUME NEW s \in SUBSET S, s # {}
      PROVE  Count[s] = g[CHOOSE x \in s : TRUE] + Count[s \ {CHOOSE x \in s : TRUE}]
  <2> DEFINE c == CHOOSE x \in s : TRUE
  <2>1. c \in s
    BY <1>3
  <2> HIDE DEF c
  <2>2. All(s) = A[c] \cup All(s \ {c}) /\ A[c] \cap All(s \ {c}) = {}
    BY <2>1
  <2>3. IsFiniteSet(A[c]) /\ IsFiniteSet(All(s \ {c})) /\ Cardinality(A[c]) = g[c]
    BY <1>2, <2>1, FS_Subset
  <2> HIDE DEF All
  <2>4. Cardinality(All(s)) = g[c] + Cardinality(All(s \ {c}))
    <3> DEFINE R == All(s \ {c})
    <3>1. A[c] \cap R = {} /\ IsFiniteSet(A[c]) /\ IsFiniteSet(R)
      BY <2>2, <2>3
    <3>2. All(s) = A[c] \cup R /\ Cardinality(A[c]) = g[c]
      BY <2>2, <2>3
    <3> HIDE DEF R
    <3>3. Cardinality(A[c] \cup R) = Cardinality(A[c]) + Cardinality(R)
      BY <3>1, DisjointUnion
    <3> QED BY ONLY <3>2, <3>3 DEF R
  <2> QED BY <2>4 DEF c
<1>4. Count[{}] = 0
  <2>1. All({}) = {}
    OBVIOUS
  <2> HIDE DEF All
  <2> QED BY <2>1, FS_EmptySet
<1>5. Unfolds(g, S, Count)
  <2> HIDE DEF All
  <2>1. \A s \in SUBSET S : Count[s] =
          IF s = {} THEN 0
          ELSE g[CHOOSE x \in s : TRUE] + Count[s \ {CHOOSE x \in s : TRUE}]
    BY <1>3, <1>4
  <2>2. Count = [s \in SUBSET S |-> Count[s]]
    OBVIOUS
  <2> HIDE DEF Count
  <2> QED BY <2>1, <2>2 DEF Unfolds
<1>6. Unfolds(g, S, CHOOSE h : Unfolds(g, S, h))
  <2> HIDE DEF Count
  <2> QED BY <1>5
<1>7. (CHOOSE h : Unfolds(g, S, h)) = Count
  <2> HIDE DEF Count
  <2> QED BY <1>5, <1>6, UnfoldsOnce
<1> QED BY <1>7, SumUnfolds

-----------------------------------------------------------------------------
(* The ranges and who holds them *)

Holders(r) == {u \in Uploaders : r \in up_ranges[u]}
HoldersCounted == \A r \in Ranges : range[r].nuploading = Cardinality(Holders(r))

\* Ranges are in order, and within their blocks.
Ordered ==
  \A r \in Ranges : /\ Begin(Block(r)) <= range[r].begin /\ range[r].begin < r
                    /\ \A q \in Ranges : q < r => q <= range[r].begin

RangesInv == ListsOK /\ RangesInvariant /\ HoldersCounted

LEMMA RangeFacts ==
  ASSUME ListsOK, NEW r \in Ranges
  PROVE  /\ r \in 1 .. s_size /\ r \in Int
         /\ range[r].begin \in 0 .. s_size /\ range[r].begin \in Int
         /\ range[r].nuploading \in Nat
BY SizesAssumption DEF ListsOK, Ranges

LEMMA HoldersFinite ==
  ASSUME NEW r
  PROVE  IsFiniteSet(Holders(r)) /\ Cardinality(Holders(r)) \in Nat
<1>1. Holders(r) \in SUBSET Uploaders
  BY DEF Holders
<1> QED BY <1>1, SizesAssumption, FS_Subset, FS_CardinalityType

\* A range that somebody holds is not free.
LEMMA HeldIsNotFree ==
  ASSUME HoldersCounted, NEW r \in Ranges
  PROVE  Free(r) <=> \A u \in Uploaders : r \notin up_ranges[u]
<1>1. Free(r) <=> Holders(r) = {}
  BY HoldersFinite, FS_EmptySet DEF HoldersCounted, Free
<1> QED BY <1>1 DEF Holders

LEMMA SplitInvariant ==
  RangesInvariant <=>
    /\ Ordered
    /\ \A i \in Blocks : s_blocks[i] = "Partial" <=> RangesOf(i) # {}
    /\ \A u \in Uploaders : up_ranges[u] \subseteq Ranges
BY DEF RangesInvariant, Ordered

\* A step that leaves the places of the ranges alone.
LEMMA SamePlaces ==
  ASSUME RangesInvariant, Ranges' = Ranges,
         \A r \in Ranges : range'[r].begin = range[r].begin,
         \A i \in Blocks : s_blocks'[i] = "Partial" <=> s_blocks[i] = "Partial",
         \A u \in Uploaders : up_ranges'[u] \subseteq up_ranges[u]
  PROVE  RangesInvariant'
<1>1. Ordered'
  BY SplitInvariant DEF Ordered, Begin, Block
<1>2. \A i \in Blocks : RangesOf(i)' = RangesOf(i)
  BY DEF RangesOf, Block
<1>3. \A i \in Blocks : s_blocks'[i] = "Partial" <=> RangesOf(i)' # {}
  BY <1>2, SplitInvariant
<1>4. \A u \in Uploaders : up_ranges'[u] \subseteq Ranges'
  BY SplitInvariant
<1>5. RangesInvariant' <=>
        /\ Ordered'
        /\ \A i \in Blocks : s_blocks'[i] = "Partial" <=> RangesOf(i)' # {}
        /\ \A u \in Uploaders : up_ranges'[u] \subseteq Ranges'
  BY DEF RangesInvariant, Ordered, Blocks
<1> QED BY <1>1, <1>3, <1>4, <1>5

LEMMA ClearEffect ==
  ASSUME RangesInv, NEW u \in Uploaders, clear_uploader_ranges(u)
  PROVE  /\ Ranges' = Ranges
         /\ up_ranges' = [up_ranges EXCEPT ![u] = {}]
         /\ \A r \in Ranges :
              /\ range'[r].begin = range[r].begin
              /\ range'[r].nuploading =
                   IF r \in up_ranges[u] THEN range[r].nuploading - 1 ELSE range[r].nuploading
<1>1. range' = [r \in Ranges |-> IF r \in up_ranges[u] /\ ~Free(r)
                  THEN [range[r] EXCEPT !.nuploading = @ - 1] ELSE range[r]]
  BY DEF clear_uploader_ranges
<1>2. \A r \in Ranges : r \in up_ranges[u] => ~Free(r)
  BY HeldIsNotFree DEF RangesInv
<1>3. \A r \in Ranges : range[r] \in [begin : 0 .. s_size, nuploading : Nat]
  BY DEF RangesInv, ListsOK
<1>4. ASSUME NEW r \in Ranges
      PROVE  /\ range'[r].begin = range[r].begin
             /\ range'[r].nuploading =
                  IF r \in up_ranges[u] THEN range[r].nuploading - 1 ELSE range[r].nuploading
  <2>1. CASE r \in up_ranges[u]
    <3>1. range'[r] = [range[r] EXCEPT !.nuploading = @ - 1]
      BY <1>1, <1>2, <2>1
    <3> QED BY <1>3, <2>1, <3>1
  <2>2. CASE r \notin up_ranges[u]
    BY <1>1, <2>2
  <2> QED BY <2>1, <2>2
<1>5. Ranges' = Ranges
  BY <1>1 DEF Ranges
<1> QED BY <1>4, <1>5 DEF clear_uploader_ranges

LEMMA ClearRanges ==
  ASSUME RangesInv, NEW u \in Uploaders, clear_uploader_ranges(u), UNCHANGED s_blocks
  PROVE  RangesInvariant' /\ HoldersCounted'
<1>1. /\ Ranges' = Ranges
      /\ up_ranges' = [up_ranges EXCEPT ![u] = {}]
      /\ \A r \in Ranges :
           /\ range'[r].begin = range[r].begin
           /\ range'[r].nuploading =
                IF r \in up_ranges[u] THEN range[r].nuploading - 1 ELSE range[r].nuploading
  BY ClearEffect
<1>2. \A v \in Uploaders : up_ranges'[v] = IF v = u THEN {} ELSE up_ranges[v]
  BY <1>1 DEF RangesInv, ListsOK
<1>3. RangesInvariant'
  BY <1>1, <1>2, SamePlaces DEF RangesInv
<1>4. ASSUME NEW r \in Ranges PROVE range'[r].nuploading = Cardinality(Holders(r)')
  <2>1. Holders(r)' = Holders(r) \ {u} /\ (u \in Holders(r) <=> r \in up_ranges[u])
    BY <1>2 DEF Holders
  <2>2. Cardinality(Holders(r) \ {u}) =
          IF u \in Holders(r) THEN Cardinality(Holders(r)) - 1 ELSE Cardinality(Holders(r))
    BY HoldersFinite, FS_RemoveElement
  <2> QED BY <1>1, <2>1, <2>2 DEF RangesInv, HoldersCounted
<1>5. HoldersCounted'
  BY <1>1, <1>4 DEF HoldersCounted
<1> QED BY <1>3, <1>5

\* new_block: a new range is a whole block that had none.
LEMMA NewBlocksEffect ==
  ASSUME RangesInv, NEW E \in SUBSET Blocks, \A i \in E : s_blocks[i] = "Empty", NewBlocks(E)
  PROVE  /\ Ranges' = Ranges \cup {End(i) : i \in E}
         /\ \A r \in Ranges : range'[r] = range[r]
         /\ \A i \in E : /\ End(i) \notin Ranges
                         /\ range'[End(i)].begin = Begin(i) /\ range'[End(i)].nuploading = 0
         /\ \A i \in Blocks : s_blocks'[i] = IF i \in E THEN "Partial" ELSE s_blocks[i]
         /\ \A i \in E : RangesOf(i) = {}
<1>1. range' = [r \in Ranges \cup {End(i) : i \in E} |->
                  IF r \in Ranges THEN range[r] ELSE [begin |-> Begin(Block(r)), nuploading |-> 0]]
  BY DEF NewBlocks
<1>2. \A i \in E : RangesOf(i) = {}
  BY SplitInvariant DEF RangesInv
<1>3. \A i \in E : Block(End(i)) = i
  BY BlockOfBlock
<1>4. \A i \in E : End(i) \notin Ranges
  BY <1>2, <1>3 DEF RangesOf
<1>5. \A i \in Blocks : s_blocks'[i] = IF i \in E THEN "Partial" ELSE s_blocks[i]
  BY DEF NewBlocks
<1>6. Ranges' = Ranges \cup {End(i) : i \in E}
  BY <1>1 DEF Ranges
<1> QED BY <1>1, <1>2, <1>3, <1>4, <1>5, <1>6

LEMMA NewBlocksRanges ==
  ASSUME RangesInv, NEW E \in SUBSET Blocks, \A i \in E : s_blocks[i] = "Empty", NewBlocks(E),
         UNCHANGED up_ranges
  PROVE  RangesInvariant' /\ HoldersCounted'
<1>1. /\ Ranges' = Ranges \cup {End(i) : i \in E}
      /\ \A r \in Ranges : range'[r] = range[r]
      /\ \A i \in E : /\ End(i) \notin Ranges
                      /\ range'[End(i)].begin = Begin(i) /\ range'[End(i)].nuploading = 0
      /\ \A i \in Blocks : s_blocks'[i] = IF i \in E THEN "Partial" ELSE s_blocks[i]
      /\ \A i \in E : RangesOf(i) = {}
  BY NewBlocksEffect
<1>2. /\ Ordered
      /\ \A i \in Blocks : s_blocks[i] = "Partial" <=> RangesOf(i) # {}
      /\ \A u \in Uploaders : up_ranges[u] \subseteq Ranges
  BY SplitInvariant DEF RangesInv
<1>3. \A i \in E : /\ End(i) \in 1 .. s_size /\ Block(End(i)) = i /\ Begin(i) \in Nat
                   /\ Begin(i) < End(i)
  BY BlockOfBlock
<1>4. \A r \in Ranges : r \in 1 .. s_size /\ range[r].begin \in Int
  BY RangeFacts DEF RangesInv
<1>5. \A r \in Ranges' : r \in 1 .. s_size
  BY <1>1, <1>3, <1>4
<1>6. \A q, r \in Ranges' : Block(q) = Block(r) /\ q # r => q \in Ranges /\ r \in Ranges
  BY <1>1, <1>3 DEF RangesOf
<1>7. \A r \in Ranges' : /\ Begin(Block(r)) <= range'[r].begin /\ range'[r].begin < r
                         /\ range'[r].begin \in Int
  BY <1>1, <1>2, <1>3, <1>4 DEF Ordered
<1>8. Ordered'
  <2> SUFFICES ASSUME NEW r \in Ranges', NEW q \in Ranges', q < r
               PROVE  q <= range'[r].begin
    BY <1>7 DEF Ordered, Begin, Block
  <2>1. CASE Block(q) = Block(r)
    <3>1. q \in Ranges /\ r \in Ranges
      BY <1>5, <1>6, <2>1
    <3> QED BY <1>1, <1>2, <3>1 DEF Ordered
  <2>2. CASE Block(q) # Block(r)
    <3>1. q <= Begin(Block(r)) /\ Begin(Block(r)) \in Nat
      BY <1>5, <2>2, Apart, BlockBounds
    <3> QED BY <1>5, <1>7, <3>1
  <2> QED BY <2>1, <2>2
<1>9. \A i \in Blocks : s_blocks'[i] = "Partial" <=> RangesOf(i)' # {}
  <2>1. ASSUME NEW i \in E PROVE RangesOf(i)' # {}
    <3>1. End(i) \in RangesOf(i)'
      BY <1>1, <1>3 DEF RangesOf, Block
    <3> QED BY <3>1
  <2>2. ASSUME NEW i \in Blocks, i \notin E PROVE RangesOf(i)' = RangesOf(i)
    BY <1>1, <1>3, <2>2 DEF RangesOf, Block
  <2> QED BY <1>1, <1>2, <2>1, <2>2
<1>10. \A u \in Uploaders : up_ranges'[u] \subseteq Ranges'
  BY <1>1, <1>2
<1>11. RangesInvariant'
  BY <1>8, <1>9, <1>10 DEF RangesInvariant, Ordered, Blocks
<1>12. ASSUME NEW r \in Ranges' PROVE range'[r].nuploading = Cardinality(Holders(r)')
  <2>1. Holders(r)' = Holders(r)
    BY DEF Holders
  <2>2. CASE r \in Ranges
    BY <1>1, <2>1, <2>2 DEF RangesInv, HoldersCounted
  <2>3. CASE r \notin Ranges
    <3>1. range'[r].nuploading = 0
      BY <1>1, <2>3
    <3>2. Holders(r) = {}
      BY <1>2, <2>3 DEF Holders
    <3> QED BY <2>1, <3>1, <3>2, FS_EmptySet
  <2> QED BY <2>2, <2>3
<1> QED BY <1>11, <1>12 DEF HoldersCounted

LEMMA NextInvariant ==
  ASSUME \A r \in Ranges' : /\ Begin(Block(r)) <= range'[r].begin /\ range'[r].begin < r
                            /\ \A q \in Ranges' : q < r => q <= range'[r].begin,
         \A i \in Blocks : s_blocks'[i] = "Partial" <=> \E r \in Ranges' : Block(r) = i,
         \A u \in Uploaders : up_ranges'[u] \subseteq Ranges'
  PROVE  RangesInvariant'
<1>1. \A i \in Blocks : s_blocks'[i] = "Partial" <=> RangesOf(i)' # {}
  BY DEF RangesOf, Block
<1>2. Ordered'
  BY DEF Ordered, Begin, Block
<1> QED BY <1>1, <1>2 DEF RangesInvariant, Ordered, Blocks

-----------------------------------------------------------------------------
(* find_range *)

EndOf(r, u) == Max(Cluster(r, u) \cup {r})
CutEnd(r, u) ==
  IF range[r].begin < CutAt(r, u) /\ CutAt(r, u) < EndOf(r, u) THEN CutAt(r, u) ELSE EndOf(r, u)

\* The range r is merged, split and given to the uploader.
Takes(u, r) ==
  LET e == CutEnd(r, u)
      end == EndOf(r, u) IN
    /\ range' = [q \in (Ranges \ (Cluster(r, u) \cup {r})) \cup {e, end} |->
         IF q = e THEN [range[r] EXCEPT !.nuploading = @ + 1]
         ELSE IF q = end THEN [begin |-> e, nuploading |-> 0]
         ELSE range[q]]
    /\ up_ranges' = [v \in Uploaders |->
         IF v = u \/ r \in up_ranges[v] THEN (up_ranges[v] \ {r}) \cup {e} ELSE up_ranges[v]]
    /\ block_unselected_remaining' = [block_unselected_remaining EXCEPT ![Block(r)] =
         IF Free(r) THEN @ - (e - range[r].begin) ELSE @]

LEMMA FindRangeTakes ==
  ASSUME NEW u \in Uploaders, FindRange(u)
  PROVE  \E best \in Correct(u) :
           /\ Best(u, best) /\ best.range \in Ranges /\ best.range \notin up_ranges[u]
           /\ up_blocks[u] # <<>> /\ Takes(u, best.range)
<1>1. PICK best \in Correct(u) : Best(u, best) /\ Takes(u, best.range)
  BY Zenon DEF FindRange, Takes, CutEnd, EndOf
<1>2. best.range \in Ranges /\ best.range \notin up_ranges[u] /\ best.place \in DOMAIN up_blocks[u]
  BY DEF Correct
<1> QED BY <1>1, <1>2

\* What is merged is a run of ranges of one block, and all but the first are free.
LEMMA ClusterFacts ==
  ASSUME RangesInv, NEW u \in Uploaders, NEW r \in Ranges
  PROVE  /\ EndOf(r, u) \in Cluster(r, u) \cup {r} /\ EndOf(r, u) \in RangesOf(Block(r))
         /\ \A q \in Cluster(r, u) : q \in RangesOf(Block(r)) /\ Free(q) /\ r < q /\ q <= EndOf(r, u)
         /\ r <= EndOf(r, u)
         /\ \A q \in Ranges : range[r].begin < q /\ q <= EndOf(r, u) => q \in Cluster(r, u) \cup {r}
         /\ \A q \in Cluster(r, u) : range[q].begin \in Ranges
<1> DEFINE end == EndOf(r, u)
<1>1. \A q \in Ranges : q \in 1 .. s_size /\ q \in Int /\ range[q].begin \in Int
  BY RangeFacts DEF RangesInv
<1>2. Cluster(r, u) \cup {r} \subseteq RangesOf(Block(r))
  BY DEF Cluster, RangesOf
<1>3. \A q \in Cluster(r, u) : q \in Ranges /\ r < q /\ Free(q)
  BY <1>1 DEF Cluster, RangesOf, Mergeable
<1>4. end \in Cluster(r, u) \cup {r} /\ \A q \in Cluster(r, u) \cup {r} : q <= end
  <2>1. Cluster(r, u) \cup {r} \subseteq 1 .. s_size /\ s_size \in Nat
    BY <1>1, <1>3, SizesAssumption
  <2> QED BY <2>1, MaxOf DEF EndOf
<1>5. end \in Ranges /\ Block(end) = Block(r)
  BY <1>2, <1>4 DEF RangesOf
<1> HIDE DEF end
<1>6. ASSUME NEW q \in Ranges, range[r].begin < q, q <= end PROVE q \in Cluster(r, u) \cup {r}
  <2>1. r <= q
    BY <1>1, <1>6, SplitInvariant DEF RangesInv, Ordered
  <2>2. Block(q) = Block(r)
    <3>1. Block(r) \in Nat /\ Begin(Block(r)) \in Nat /\ end <= Begin(Block(r)) + block_size
      BY <1>1, <1>5, BlockBounds
    <3>2. Begin(Block(r)) <= range[r].begin
      BY SplitInvariant DEF RangesInv, Ordered
    <3>3. Begin(Block(r)) < q /\ q <= Begin(Block(r)) + block_size
      BY <1>1, <1>5, <1>6, <3>1, <3>2, SizesAssumption
    <3> QED BY <1>1, <3>1, <3>3, BlockUnique
  <2>3. CASE q # r
    <3>1. end # r /\ end \in Cluster(r, u)
      BY <1>1, <1>4, <1>5, <1>6, <2>1, <2>3
    <3> QED BY <1>1, <1>5, <1>6, <2>1, <2>2, <2>3, <3>1 DEF Cluster, RangesOf
  <2> QED BY <2>3
<1>7. \A q \in Cluster(r, u) : range[q].begin \in Ranges
  BY <1>1, <1>3 DEF Cluster, RangesOf
<1> QED BY <1>1, <1>2, <1>3, <1>4, <1>6, <1>7 DEF end

LEMMA LastOf ==
  ASSUME NEW S, NEW s \in Seq(S), s # <<>>
  PROVE  Len(s) \in DOMAIN s /\ Last(s) \in S
<1>1. Len(s) \in Nat /\ Len(s) # 0
  OBVIOUS
<1>2. Len(s) \in 1 .. Len(s)
  BY <1>1
<1> QED BY <1>2 DEF Last

\* The range that is left ends within its block.
LEMMA CutFacts ==
  ASSUME RangesInv, NEW u \in Uploaders, NEW r \in Ranges, up_blocks[u] # <<>>
  PROVE  /\ CutEnd(r, u) \in 1 .. s_size /\ range[r].begin < CutEnd(r, u)
         /\ CutEnd(r, u) <= EndOf(r, u) /\ Block(CutEnd(r, u)) = Block(r)
<1> DEFINE end == EndOf(r, u)
           e == CutEnd(r, u)
           cut == CutAt(r, u)
<1>1. r \in 1 .. s_size /\ range[r].begin \in 0 .. s_size /\ s_size \in Nat /\ block_size \in Nat
  BY RangeFacts, SizesAssumption DEF RangesInv
<1>2. end \in 1 .. s_size /\ Block(end) = Block(r) /\ r <= end
  BY ClusterFacts, RangeFacts DEF RangesInv, RangesOf
<1>3. range[r].begin < r /\ Begin(Block(r)) <= range[r].begin
  BY SplitInvariant DEF RangesInv, Ordered
<1>4. e = IF range[r].begin < cut /\ cut < end THEN cut ELSE end
  BY DEF CutEnd
<1>5. cut \in Int
  <2>1. range[r].begin + range_size[u] \in Int
    BY <1>1, SizesAssumption
  <2>2. \A i \in Nat : End(i) \in Int
    BY BeginType
  <2>3. Last(up_blocks[u]).num \in Nat
    <3>1. up_blocks[u] \in Seq([num : Blocks, live : BOOLEAN])
      BY DEF RangesInv, ListsOK
    <3>2. Last(up_blocks[u]) \in [num : Blocks, live : BOOLEAN]
      BY <3>1, LastOf
    <3>3. Last(up_blocks[u]).num \in Blocks
      BY <3>2
    <3> QED BY <3>3, BlockOfBlock
  <2>4. Block(r) \in Nat
    BY <1>1, BlockBounds
  <2>5. \A i \in Nat : Min({range[r].begin + range_size[u], End(i)}) \in Int
    BY <2>1, <2>2, MinOf
  <2> QED BY <2>3, <2>4, <2>5 DEF CutAt
<1> HIDE DEF e, end, cut
<1>6. e \in 1 .. s_size /\ range[r].begin < e /\ e <= end
  BY <1>1, <1>2, <1>3, <1>4, <1>5
<1>7. Begin(Block(r)) < e /\ e <= Begin(Block(r)) + block_size /\ Block(r) \in Nat
  <2>1. Begin(Block(r)) \in Nat /\ Block(r) \in Nat /\ end <= Begin(Block(r)) + block_size
    BY <1>1, <1>2, BlockBounds
  <2> QED BY <1>1, <1>2, <1>3, <1>6, <2>1
<1>8. Block(e) = Block(r)
  BY <1>6, <1>7, BlockUnique
<1> QED BY <1>6, <1>8 DEF e, end

\* What taking r does: the ranges C are replaced by those that end at e and end.
TakeEffects(u, r, e, end, C) ==
  /\ e \in 1 .. s_size /\ range[r].begin < e /\ e <= end /\ Block(e) = Block(r)
  /\ end \in Ranges /\ end \in C /\ r <= end /\ r \in C
  /\ \A q \in C : q \in Ranges /\ Block(q) = Block(r) /\ r <= q /\ q <= end /\ (q # r => Free(q))
  /\ \A q \in C : q # r => range[q].begin \in Ranges
  /\ \A q \in Ranges : range[r].begin < q /\ q <= end => q \in C
  /\ Ranges' = (Ranges \ C) \cup {e, end}
  /\ range'[e].begin = range[r].begin /\ range'[e].nuploading = range[r].nuploading + 1
  /\ e # end => range'[end].begin = e /\ range'[end].nuploading = 0
  /\ \A q \in Ranges \ C : q # e /\ q # end /\ range'[q] = range[q]
  /\ range' \in [(Ranges \ C) \cup {e, end} -> [begin : 0 .. s_size, nuploading : Nat]]
  /\ \A v \in Uploaders : up_ranges'[v] =
       IF v = u \/ r \in up_ranges[v] THEN (up_ranges[v] \ {r}) \cup {e} ELSE up_ranges[v]

LEMMA TakeEffect ==
  ASSUME RangesInv, NEW u \in Uploaders, NEW r \in Ranges, up_blocks[u] # <<>>, Takes(u, r)
  PROVE  TakeEffects(u, r, CutEnd(r, u), EndOf(r, u), Cluster(r, u) \cup {r})
<1> DEFINE e == CutEnd(r, u)
           end == EndOf(r, u)
           C == Cluster(r, u) \cup {r}
<1>1. /\ e \in 1 .. s_size /\ range[r].begin < e /\ e <= end /\ Block(e) = Block(r)
  BY CutFacts
<1>2. end \in Ranges /\ end \in C /\ r <= end /\ r \in C
  BY ClusterFacts DEF RangesOf
<1>3. \A q \in C : q \in Ranges /\ Block(q) = Block(r) /\ r <= q /\ q <= end /\ (q # r => Free(q))
  BY ClusterFacts, RangeFacts DEF RangesOf, RangesInv
<1>4. /\ \A q \in Ranges : range[r].begin < q /\ q <= end => q \in C
      /\ \A q \in C : q # r => range[q].begin \in Ranges
  BY ClusterFacts
<1>5. \A q \in Ranges \ C : q # e /\ q # end
  BY <1>1, <1>2, <1>4
<1> HIDE DEF e, end, C
<1>6. range' = [q \in (Ranges \ C) \cup {e, end} |->
         IF q = e THEN [range[r] EXCEPT !.nuploading = @ + 1]
         ELSE IF q = end THEN [begin |-> e, nuploading |-> 0]
         ELSE range[q]]
  BY DEF Takes, e, end, C
<1>7. Ranges' = (Ranges \ C) \cup {e, end}
  BY <1>6 DEF Ranges
<1>8. \A v \in Uploaders : up_ranges'[v] =
        IF v = u \/ r \in up_ranges[v] THEN (up_ranges[v] \ {r}) \cup {e} ELSE up_ranges[v]
  BY DEF Takes, e
<1>9. range[r] \in [begin : 0 .. s_size, nuploading : Nat]
  BY DEF RangesInv, ListsOK
<1>10. range'[e] = [range[r] EXCEPT !.nuploading = @ + 1]
  BY <1>6
<1>11. range'[e].begin = range[r].begin /\ range'[e].nuploading = range[r].nuploading + 1
  BY <1>9, <1>10
<1>12. e # end => range'[end].begin = e /\ range'[end].nuploading = 0
  BY <1>6
<1>13. \A q \in Ranges \ C : range'[q] = range[q]
  BY <1>5, <1>6
<1>14. range' \in [(Ranges \ C) \cup {e, end} -> [begin : 0 .. s_size, nuploading : Nat]]
  <2>1. \A q \in Ranges : range[q] \in [begin : 0 .. s_size, nuploading : Nat]
    BY DEF RangesInv, ListsOK
  <2>2. [range[r] EXCEPT !.nuploading = @ + 1] \in [begin : 0 .. s_size, nuploading : Nat]
    BY <1>9
  <2>3. [begin |-> e, nuploading |-> 0] \in [begin : 0 .. s_size, nuploading : Nat]
    BY <1>1, SizesAssumption DEF e
  <2> QED BY <1>6, <2>1, <2>2, <2>3
<1>15. TakeEffects(u, r, e, end, C)
  BY <1>1, <1>2, <1>3, <1>4, <1>5, <1>7, <1>8, <1>11, <1>12, <1>13, <1>14 DEF TakeEffects
<1> QED BY <1>15 DEF e, end, C

LEMMA TakeRanges ==
  ASSUME RangesInv, NEW u \in Uploaders, NEW r \in Ranges, r \notin up_ranges[u],
         up_blocks[u] # <<>>, Takes(u, r), UNCHANGED s_blocks
  PROVE  RangesInvariant' /\ HoldersCounted'
<1>1. PICK e, end, C : TakeEffects(u, r, e, end, C)
  BY TakeEffect
<1> USE <1>1 DEF TakeEffects
<1>4. \A q \in Ranges : q \in 1 .. s_size /\ q \in Int /\ range[q].begin \in Int
  BY RangeFacts DEF RangesInv
<1>5. /\ \A q \in Ranges : Begin(Block(q)) <= range[q].begin /\ range[q].begin < q
      /\ \A q, p \in Ranges : p < q => p <= range[q].begin
      /\ \A i \in Blocks : s_blocks[i] = "Partial" <=> RangesOf(i) # {}
      /\ \A v \in Uploaders : up_ranges[v] \subseteq Ranges
  BY SplitInvariant DEF RangesInv, Ordered
<1>6. \A q \in Ranges : Begin(Block(q)) \in Int
  BY <1>4, BlockBounds
<1>7. ASSUME NEW z \in Ranges'
      PROVE  /\ Begin(Block(z)) <= range'[z].begin /\ range'[z].begin < z
             /\ \A q \in Ranges' : q < z => q <= range'[z].begin
  <2>1. CASE z = e
    <3>1. Begin(Block(z)) <= range'[z].begin /\ range'[z].begin < z
      BY <1>4, <1>5, <2>1
    <3>2. ASSUME NEW q \in Ranges', q < z PROVE q <= range'[z].begin
      <4>1. q \in Ranges \ C
        BY <1>4, <2>1, <3>2
      <4> QED BY <1>4, <2>1, <3>2, <4>1
    <3> QED BY <3>1, <3>2
  <2>2. CASE z = end /\ e # end
    <3>1. Begin(Block(z)) <= range'[z].begin /\ range'[z].begin < z
      BY <1>4, <1>5, <1>6, <2>2
    <3>2. ASSUME NEW q \in Ranges', q < z PROVE q <= range'[z].begin
      <4>1. CASE q = e
        BY <1>4, <2>2, <4>1
      <4>2. CASE q \in Ranges \ C
        BY <1>4, <2>2, <3>2, <4>2
      <4> QED BY <1>4, <2>2, <3>2, <4>1, <4>2
    <3> QED BY <3>1, <3>2
  <2>3. CASE z \in Ranges \ C
    <3>1. Begin(Block(z)) <= range'[z].begin /\ range'[z].begin < z
      BY <1>5, <2>3
    <3>2. ASSUME NEW q \in Ranges', q < z PROVE q <= range'[z].begin
      <4>1. CASE q \in Ranges
        BY <1>5, <2>3, <3>2, <4>1
      <4>2. CASE q = e
        <5>1. end < z
          BY <1>4, <2>3, <3>2, <4>2
        <5>2. end <= range[z].begin
          BY <1>5, <2>3, <5>1
        <5> QED BY <1>4, <2>3, <4>2, <5>2
      <4> QED BY <3>2, <4>1, <4>2
    <3> QED BY <3>1, <3>2
  <2> QED BY <2>1, <2>2, <2>3
<1>8. ASSUME NEW i \in Blocks
      PROVE  s_blocks'[i] = "Partial" <=> \E z \in Ranges' : Block(z) = i
  <2>1. s_blocks[i] = "Partial" <=> \E z \in Ranges : Block(z) = i
    BY <1>5 DEF RangesOf
  <2>2. CASE i = Block(r)
    BY <2>1, <2>2
  <2>3. CASE i # Block(r)
    BY <2>1, <2>3
  <2> QED BY <2>2, <2>3
<1>9. \A v \in Uploaders : \A q \in up_ranges[v] : q \in C => q = r
  BY <1>5, HeldIsNotFree DEF RangesInv
<1>10. ASSUME NEW v \in Uploaders PROVE up_ranges'[v] \subseteq Ranges'
  <2>1. up_ranges[v] \ {r} \subseteq Ranges'
    BY <1>5, <1>9
  <2>2. CASE v = u \/ r \in up_ranges[v]
    <3>1. up_ranges'[v] = (up_ranges[v] \ {r}) \cup {e} /\ e \in Ranges'
      BY <2>2
    <3> QED BY ONLY <2>1, <3>1
  <2>3. CASE ~(v = u \/ r \in up_ranges[v])
    BY <2>1, <2>3
  <2> QED BY <2>2, <2>3
<1>11. RangesInvariant'
  BY <1>7, <1>8, <1>10, NextInvariant
<1>12. \A z : Holders(z)' = {v \in Uploaders : z \in up_ranges'[v]}
  BY DEF Holders
<1>13. ASSUME NEW z \in Ranges' PROVE range'[z].nuploading = Cardinality(Holders(z)')
  <2>1. CASE z = e
    <3>1. Holders(z)' = Holders(r) \cup {u} /\ u \notin Holders(r)
      <4>1. \A v \in Uploaders : e \in up_ranges[v] => e = r
        BY <1>5, <1>9
      <4>2. \A v \in Uploaders : up_ranges'[v] =
              IF v = u \/ r \in up_ranges[v] THEN (up_ranges[v] \ {r}) \cup {e} ELSE up_ranges[v]
        OBVIOUS
      <4>3. \A v \in Uploaders : e \in up_ranges'[v] <=> v = u \/ r \in up_ranges[v]
        BY ONLY <4>1, <4>2
      <4>4. Holders(z)' = Holders(r) \cup {u}
        BY <1>12, <2>1, <4>3 DEF Holders
      <4> QED BY <4>4 DEF Holders
    <3>2. Cardinality(Holders(r) \cup {u}) = Cardinality(Holders(r)) + 1
      BY <3>1, HoldersFinite, FS_AddElement
    <3>3. range[r].nuploading = Cardinality(Holders(r))
      BY DEF RangesInv, HoldersCounted
    <3> QED BY <2>1, <3>1, <3>2, <3>3
  <2>2. CASE z = end /\ e # end
    <3>1. ASSUME NEW v \in Uploaders, end \in up_ranges'[v] PROVE FALSE
      <4>1. end \in up_ranges[v] /\ end = r
        <5>1. up_ranges'[v] =
                IF v = u \/ r \in up_ranges[v] THEN (up_ranges[v] \ {r}) \cup {e} ELSE up_ranges[v]
          OBVIOUS
        <5>2. end \in up_ranges[v]
          BY ONLY <2>2, <3>1, <5>1
        <5> QED BY <1>9, <5>2
      <4>2. up_ranges'[v] = (up_ranges[v] \ {r}) \cup {e}
        BY <4>1
      <4> QED BY ONLY <2>2, <3>1, <4>1, <4>2
    <3>2. Holders(z)' = {}
      BY ONLY <1>12, <2>2, <3>1
    <3> QED BY <2>2, <3>2, FS_EmptySet
  <2>3. CASE z \in Ranges \ C
    <3>1. Holders(z)' = Holders(z)
      <4>1. z # r /\ z # e
        BY <2>3
      <4>2. \A v \in Uploaders : up_ranges'[v] =
              IF v = u \/ r \in up_ranges[v] THEN (up_ranges[v] \ {r}) \cup {e} ELSE up_ranges[v]
        OBVIOUS
      <4>3. \A v \in Uploaders : z \in up_ranges'[v] <=> z \in up_ranges[v]
        BY ONLY <4>1, <4>2
      <4> QED BY <1>12, <4>3 DEF Holders
    <3>2. range[z].nuploading = Cardinality(Holders(z))
      BY <2>3 DEF RangesInv, HoldersCounted
    <3> QED BY <2>3, <3>1, <3>2
  <2> QED BY <2>1, <2>2, <2>3
<1> QED BY <1>11, <1>13 DEF HoldersCounted

-----------------------------------------------------------------------------
(* Data that is received, blocks that are complete *)

\* Ranges get shorter at their beginning, or are closed.
LEMMA ShrinkRanges ==
  ASSUME RangesInv, NEW R \in SUBSET Ranges, Ranges' = Ranges \ R,
         \A r \in Ranges \ R : /\ range'[r].begin \in Int /\ range[r].begin <= range'[r].begin
                               /\ range'[r].begin < r
                               /\ range'[r].nuploading = range[r].nuploading,
         \A u \in Uploaders : up_ranges'[u] = up_ranges[u] \ R,
         \A i \in Blocks : s_blocks'[i] = "Partial" <=>
                             s_blocks[i] = "Partial" /\ ~(RangesOf(i) \subseteq R)
  PROVE  RangesInvariant' /\ HoldersCounted'
<1>1. \A q \in Ranges : q \in 1 .. s_size /\ q \in Int /\ range[q].begin \in Int
  BY RangeFacts DEF RangesInv
<1>2. /\ \A q \in Ranges : Begin(Block(q)) <= range[q].begin /\ range[q].begin < q
      /\ \A q, p \in Ranges : p < q => p <= range[q].begin
      /\ \A i \in Blocks : s_blocks[i] = "Partial" <=> RangesOf(i) # {}
      /\ \A v \in Uploaders : up_ranges[v] \subseteq Ranges
  BY SplitInvariant DEF RangesInv, Ordered
<1>3. \A q \in Ranges : Begin(Block(q)) \in Int
  BY <1>1, BlockBounds
<1>4. ASSUME NEW r \in Ranges'
      PROVE  /\ Begin(Block(r)) <= range'[r].begin /\ range'[r].begin < r
             /\ \A q \in Ranges' : q < r => q <= range'[r].begin
  <2>1. r \in Ranges /\ r \notin R
    BY <1>4
  <2>2. /\ range'[r].begin \in Int /\ range[r].begin <= range'[r].begin
        /\ range'[r].begin < r
    BY <2>1
  <2>3. Begin(Block(r)) <= range'[r].begin
    BY <1>1, <1>2, <1>3, <2>1, <2>2
  <2>4. ASSUME NEW q \in Ranges', q < r PROVE q <= range'[r].begin
    <3>1. q <= range[r].begin
      BY <1>2, <2>1, <2>4
    <3> QED BY <1>1, <2>1, <2>2, <3>1
  <2> QED BY <2>2, <2>3, <2>4
<1>5. \A i \in Blocks : s_blocks'[i] = "Partial" <=> \E r \in Ranges' : Block(r) = i
  BY <1>2 DEF RangesOf
<1>6. \A v \in Uploaders : up_ranges'[v] \subseteq Ranges'
  BY <1>2
<1>7. RangesInvariant'
  BY <1>4, <1>5, <1>6, NextInvariant
<1>8. ASSUME NEW r \in Ranges' PROVE range'[r].nuploading = Cardinality(Holders(r)')
  <2>1. Holders(r)' = {v \in Uploaders : r \in up_ranges'[v]}
    BY DEF Holders
  <2>2. Holders(r)' = Holders(r)
    BY <2>1 DEF Holders
  <2> QED BY <2>2 DEF RangesInv, HoldersCounted
<1> QED BY <1>7, <1>8 DEF HoldersCounted

\* What receiving does: the ranges in hit begin at to now, or are closed.
GainEffects(u, hit, to, gained, closed) ==
  /\ hit \subseteq up_ranges[u] /\ hit \subseteq Ranges /\ closed = {r \in hit : to[r] = r}
  /\ \A r \in hit : /\ to[r] \in Int /\ range[r].begin < to[r] /\ to[r] <= r
                    /\ gained[r] = to[r] - range[r].begin
  /\ Ranges' = Ranges \ closed
  /\ \A r \in Ranges \ closed :
       /\ range'[r].begin = IF r \in hit THEN to[r] ELSE range[r].begin
       /\ range'[r].nuploading = range[r].nuploading
  /\ range' \in [Ranges \ closed -> [begin : 0 .. s_size, nuploading : Nat]]
  /\ \A v \in Uploaders : up_ranges'[v] = up_ranges[v] \ closed
  /\ \A i \in Blocks : s_blocks'[i] =
       IF s_blocks[i] = "Partial" /\ RangesOf(i) \subseteq closed THEN "Complete" ELSE s_blocks[i]
  /\ block_remaining' = [i \in Blocks |->
       block_remaining[i] - SumFunctionOnSet(gained, hit \cap RangesOf(i))]
  /\ block_unselected_remaining' = [i \in Blocks |->
       block_unselected_remaining[i] - SumFunctionOnSet(gained, {r \in hit \cap RangesOf(i) : Free(r)})]

LEMMA ReceivedEffect ==
  ASSUME RangesInv, NEW u \in Uploaders, NEW hi \in 1 .. s_size, NEW lo \in 0 .. hi - 1,
         Received(u, lo, hi)
  PROVE  \E hit, to, gained, closed : GainEffects(u, hit, to, gained, closed)
<1> DEFINE hit == {r \in up_ranges[u] : Begins(r, lo, hi)}
           new(r) == IF r \in hit THEN Min({hi, r}) ELSE range[r].begin
           to == [r \in hit |-> new(r)]
           gained == [r \in hit |-> new(r) - range[r].begin]
           closed == {r \in hit : new(r) = r}
           done == {i \in Blocks : s_blocks[i] = "Partial" /\ AllClosed(i, closed)}
<1>1. /\ range' = [r \in Ranges \ closed |-> [range[r] EXCEPT !.begin = new(r)]]
      /\ block_remaining' = [i \in Blocks |->
           block_remaining[i] - SumFunctionOnSet(gained, hit \cap RangesOf(i))]
      /\ block_unselected_remaining' = [i \in Blocks |->
           block_unselected_remaining[i] - SumFunctionOnSet(gained, {r \in hit \cap RangesOf(i) : Free(r)})]
      /\ Close(closed, done)
  BY Zenon DEF Received
<1>2. hit \subseteq up_ranges[u] /\ hit \subseteq Ranges
  BY SplitInvariant DEF RangesInv
<1>3. \A r \in Ranges : /\ r \in 1 .. s_size /\ r \in Int /\ range[r].begin \in Int
                        /\ range[r].begin < r
                        /\ range[r] \in [begin : 0 .. s_size, nuploading : Nat]
  BY RangeFacts, SplitInvariant DEF RangesInv, Ordered, ListsOK
<1>4. hi \in Int
  OBVIOUS
<1>5. \A r \in hit : Min({hi, r}) = IF hi <= r THEN hi ELSE r
  BY <1>2, <1>3, <1>4, MinOf
<1>6. \A r \in hit : range[r].begin < hi
  BY DEF Begins
<1>7. \A r \in hit : new(r) \in Int /\ range[r].begin < new(r) /\ new(r) <= r
  BY <1>2, <1>3, <1>4, <1>5, <1>6
<1> HIDE DEF new
<1>8. \A r \in hit : /\ to[r] \in Int /\ range[r].begin < to[r] /\ to[r] <= r
                     /\ gained[r] = to[r] - range[r].begin
  BY <1>7
<1>9. closed = {r \in hit : to[r] = r}
  OBVIOUS
<1>10. Ranges' = Ranges \ closed
  BY <1>1 DEF Ranges
<1>11. ASSUME NEW r \in Ranges \ closed
       PROVE  /\ range'[r].begin = IF r \in hit THEN to[r] ELSE range[r].begin
              /\ range'[r].nuploading = range[r].nuploading
  <2>1. range'[r] = [range[r] EXCEPT !.begin = new(r)]
    BY <1>1
  <2>2. range'[r].begin = new(r) /\ range'[r].nuploading = range[r].nuploading
    BY <1>3, <2>1
  <2>3. new(r) = IF r \in hit THEN to[r] ELSE range[r].begin
    BY DEF new
  <2> QED BY <2>2, <2>3
<1>12. \A v \in Uploaders : up_ranges'[v] = up_ranges[v] \ closed
  BY <1>1 DEF Close
<1>13. \A i \in Blocks : s_blocks'[i] =
         IF s_blocks[i] = "Partial" /\ RangesOf(i) \subseteq closed THEN "Complete" ELSE s_blocks[i]
  BY <1>1 DEF Close, AllClosed
<1> HIDE DEF hit, to, gained, closed, done
<1>14. range' \in [Ranges \ closed -> [begin : 0 .. s_size, nuploading : Nat]]
  <2>1. ASSUME NEW r \in Ranges \ closed
        PROVE  [range[r] EXCEPT !.begin = new(r)] \in [begin : 0 .. s_size, nuploading : Nat]
    <3>1. range[r] \in [begin : 0 .. s_size, nuploading : Nat] /\ r \in 1 .. s_size
      BY <1>3
    <3>2. new(r) \in 0 .. s_size
      BY <1>7, <3>1, SizesAssumption DEF new
    <3> QED BY <3>1, <3>2
  <2> QED BY <1>1, <2>1
<1>15. GainEffects(u, hit, to, gained, closed)
  BY <1>1, <1>2, <1>8, <1>9, <1>10, <1>11, <1>12, <1>13, <1>14 DEF GainEffects
<1> QED BY <1>15

LEMMA ReceivedRanges ==
  ASSUME RangesInv, NEW u \in Uploaders, NEW hi \in 1 .. s_size, NEW lo \in 0 .. hi - 1,
         Received(u, lo, hi)
  PROVE  RangesInvariant' /\ HoldersCounted'
<1>1. PICK hit, to, gained, closed : GainEffects(u, hit, to, gained, closed)
  BY ReceivedEffect
<1>2. \A r \in Ranges : range[r].begin \in Int /\ r \in Int /\ range[r].begin < r
  BY RangeFacts, SplitInvariant DEF RangesInv, Ordered
<1>3. closed \in SUBSET Ranges /\ Ranges' = Ranges \ closed
  BY <1>1 DEF GainEffects
<1>4. ASSUME NEW r \in Ranges \ closed
      PROVE  /\ range'[r].begin \in Int /\ range[r].begin <= range'[r].begin
             /\ range'[r].begin < r /\ range'[r].nuploading = range[r].nuploading
  <2>1. /\ range'[r].begin = IF r \in hit THEN to[r] ELSE range[r].begin
        /\ range'[r].nuploading = range[r].nuploading
    BY <1>1 DEF GainEffects
  <2>2. r \in hit => to[r] \in Int /\ range[r].begin < to[r] /\ to[r] <= r /\ to[r] # r
    BY <1>1 DEF GainEffects
  <2> QED BY <1>2, <2>1, <2>2
<1>5. \A v \in Uploaders : up_ranges'[v] = up_ranges[v] \ closed
  BY <1>1 DEF GainEffects
<1>6. \A i \in Blocks : s_blocks'[i] = "Partial" <=>
                          s_blocks[i] = "Partial" /\ ~(RangesOf(i) \subseteq closed)
  BY <1>1 DEF GainEffects
<1> QED BY <1>3, <1>4, <1>5, <1>6, ShrinkRanges

LEMMA CompleteRanges ==
  ASSUME RangesInv, NEW i \in Blocks, CompleteBlock(i)
  PROVE  RangesInvariant' /\ HoldersCounted'
<1>1. RangesOf(i) \in SUBSET Ranges
  BY DEF RangesOf
<1>2. range' = [r \in Ranges \ RangesOf(i) |-> range[r]]
  BY DEF CompleteBlock
<1>3. Ranges' = Ranges \ RangesOf(i)
  BY <1>2 DEF Ranges
<1>4. \A r \in Ranges \ RangesOf(i) :
        /\ range'[r].begin \in Int /\ range[r].begin <= range'[r].begin
        /\ range'[r].begin < r /\ range'[r].nuploading = range[r].nuploading
  BY <1>2, RangeFacts, SplitInvariant DEF RangesInv, Ordered
<1>5. \A v \in Uploaders : up_ranges'[v] = up_ranges[v] \ RangesOf(i)
  BY DEF CompleteBlock, Close
<1>6. \A j \in Blocks : s_blocks'[j] = "Partial" <=>
                          s_blocks[j] = "Partial" /\ ~(RangesOf(j) \subseteq RangesOf(i))
  <2>1. \A j \in Blocks : s_blocks[j] = "Partial" <=> RangesOf(j) # {}
    BY SplitInvariant DEF RangesInv
  <2>2. \A j \in Blocks : s_blocks'[j] = IF j = i THEN "Complete" ELSE s_blocks[j]
    BY DEF CompleteBlock, Close
  <2>3. \A j \in Blocks : j # i => RangesOf(j) \cap RangesOf(i) = {}
    BY DEF RangesOf
  <2> QED BY <2>1, <2>2, <2>3
<1> QED BY <1>1, <1>3, <1>4, <1>5, <1>6, ShrinkRanges

-----------------------------------------------------------------------------
(* The blocks the uploaders have chosen *)

\* Selected and its pairs, for the lists in f: those of one state or of the next.
SelectedIn(f, u, i) == {k \in DOMAIN f[u] : f[u][k].num = i}
ChosenBy(f, S, i) == UNION {{v} \X SelectedIn(f, v, i) : v \in S}

ChosenCounted ==
  \A i \in Blocks : s_nuploading[i] = Cardinality(ChosenBy(up_blocks, Uploaders, i))

LEMMA FiniteImage ==
  ASSUME NEW S, IsFiniteSet(S), NEW f
  PROVE  IsFiniteSet({f[x] : x \in S})
<1> DEFINE g == [x \in S |-> f[x]]
           T == {f[x] : x \in S}
<1>1. g \in [S -> T] /\ \A t \in T : \E x \in S : g[x] = t
  OBVIOUS
<1>2. g \in Surjection(S, T)
  BY <1>1 DEF Surjection
<1> HIDE DEF g, T
<1>3. IsFiniteSet(T)
  BY <1>2, FS_Surjection
<1> QED BY <1>3 DEF T

LEMMA ChosenFinite ==
  ASSUME NEW f, \A v \in Uploaders : IsFiniteSet(DOMAIN f[v]), NEW S \in SUBSET Uploaders, NEW i
  PROVE  /\ IsFiniteSet(ChosenBy(f, S, i)) /\ Cardinality(ChosenBy(f, S, i)) \in Nat
         /\ \A v \in S : /\ IsFiniteSet(SelectedIn(f, v, i)) /\ Cardinality(SelectedIn(f, v, i)) \in Nat
                         /\ IsFiniteSet({v} \X SelectedIn(f, v, i))
                         /\ Cardinality({v} \X SelectedIn(f, v, i)) = Cardinality(SelectedIn(f, v, i))
<1> DEFINE g == [v \in S |-> {v} \X SelectedIn(f, v, i)]
           T == {g[v] : v \in S}
<1>1. ASSUME NEW v \in S
      PROVE  /\ IsFiniteSet(SelectedIn(f, v, i)) /\ Cardinality(SelectedIn(f, v, i)) \in Nat
             /\ IsFiniteSet({v} \X SelectedIn(f, v, i))
             /\ Cardinality({v} \X SelectedIn(f, v, i)) = Cardinality(SelectedIn(f, v, i))
  <2>1. IsFiniteSet(SelectedIn(f, v, i)) /\ Cardinality(SelectedIn(f, v, i)) \in Nat
    <3>1. SelectedIn(f, v, i) \in SUBSET DOMAIN f[v] /\ IsFiniteSet(DOMAIN f[v])
      BY DEF SelectedIn
    <3> QED BY <3>1, FS_Subset, FS_CardinalityType
  <2>2. IsFiniteSet({v}) /\ Cardinality({v}) = 1
    BY FS_Singleton
  <2>3. /\ IsFiniteSet({v} \X SelectedIn(f, v, i))
        /\ Cardinality({v} \X SelectedIn(f, v, i)) = Cardinality({v}) * Cardinality(SelectedIn(f, v, i))
    BY <2>1, <2>2, FS_Product
  <2> QED BY <2>1, <2>2, <2>3
<1>2. IsFiniteSet(S)
  BY SizesAssumption, FS_Subset
<1>3. ChosenBy(f, S, i) = UNION T
  BY DEF ChosenBy
<1>4. \A t \in T : IsFiniteSet(t)
  BY <1>1
<1>5. IsFiniteSet(T)
  <2> HIDE DEF g
  <2> QED BY <1>2, FiniteImage
<1> HIDE DEF T
<1>6. IsFiniteSet(UNION T)
  BY <1>4, <1>5, FS_UNION
<1> QED BY <1>1, <1>3, <1>6, FS_CardinalityType

\* The pairs of one uploader are apart from those of the others.
LEMMA ChosenSplit ==
  ASSUME NEW f, \A v \in Uploaders : IsFiniteSet(DOMAIN f[v]), NEW u \in Uploaders, NEW i
  PROVE  /\ Cardinality(ChosenBy(f, Uploaders, i)) =
              Cardinality(ChosenBy(f, Uploaders \ {u}, i)) + Cardinality(SelectedIn(f, u, i))
         /\ Cardinality(ChosenBy(f, Uploaders \ {u}, i)) \in Nat
         /\ Cardinality(SelectedIn(f, u, i)) \in Nat
<1> DEFINE A == ChosenBy(f, Uploaders \ {u}, i)
           B == {u} \X SelectedIn(f, u, i)
<1>1. ChosenBy(f, Uploaders, i) = A \cup B /\ A \cap B = {}
  BY DEF ChosenBy
<1>2. IsFiniteSet(A) /\ Cardinality(A) \in Nat
  BY ChosenFinite
<1>3. /\ IsFiniteSet(B) /\ Cardinality(B) = Cardinality(SelectedIn(f, u, i))
      /\ Cardinality(SelectedIn(f, u, i)) \in Nat
  BY ChosenFinite
<1> HIDE DEF A, B
<1>4. Cardinality(A \cup B) = Cardinality(A) + Cardinality(B)
  BY <1>1, <1>2, <1>3, DisjointUnion
<1> QED BY <1>1, <1>2, <1>3, <1>4 DEF A

LEMMA SequenceOf ==
  ASSUME NEW S, NEW s \in Seq(S)
  PROVE  Len(s) \in Nat /\ DOMAIN s = 1 .. Len(s) /\ \A k \in DOMAIN s : s[k] \in S
OBVIOUS

LEMMA ListsFinite ==
  ASSUME ListsOK
  PROVE  \A v \in Uploaders : IsFiniteSet(DOMAIN up_blocks[v])
<1> SUFFICES ASSUME NEW v \in Uploaders PROVE IsFiniteSet(DOMAIN up_blocks[v])
  OBVIOUS
<1>1. up_blocks[v] \in Seq([num : Blocks, live : BOOLEAN])
  BY DEF ListsOK
<1>2. DOMAIN up_blocks[v] = 1 .. Len(up_blocks[v]) /\ Len(up_blocks[v]) \in Nat
  BY <1>1, SequenceOf
<1>3. IsFiniteSet(1 .. Len(up_blocks[v]))
  BY <1>2, FS_Interval
<1> QED BY <1>2, <1>3

\* Without the uploader, the counters count the others.
LEMMA OthersCounted ==
  ASSUME ListsOK, ChosenCounted, NEW u \in Uploaders, NEW i \in Blocks
  PROVE  /\ NUploadingWithout(u)[i] = Cardinality(ChosenBy(up_blocks, Uploaders \ {u}, i))
         /\ NUploadingWithout(u)[i] \in Nat
<1>1. /\ Cardinality(ChosenBy(up_blocks, Uploaders, i)) =
           Cardinality(ChosenBy(up_blocks, Uploaders \ {u}, i)) + Cardinality(SelectedIn(up_blocks, u, i))
      /\ Cardinality(ChosenBy(up_blocks, Uploaders \ {u}, i)) \in Nat
      /\ Cardinality(SelectedIn(up_blocks, u, i)) \in Nat
  BY ListsFinite, ChosenSplit
<1>2. Selected(u, i) = SelectedIn(up_blocks, u, i)
  BY DEF Selected, SelectedIn
<1>3. s_nuploading[i] = Cardinality(ChosenBy(up_blocks, Uploaders, i))
  BY DEF ChosenCounted
<1>4. NUploadingWithout(u)[i] =
        IF s_nuploading[i] > 0 THEN s_nuploading[i] - Cardinality(Selected(u, i)) ELSE 0
  BY DEF NUploadingWithout
<1> QED BY <1>1, <1>2, <1>3, <1>4

\* The list of an uploader is replaced.
LEMMA ListReplaced ==
  ASSUME ListsOK, ChosenCounted, NEW u \in Uploaders,
         \A v \in Uploaders \ {u} : up_blocks'[v] = up_blocks[v],
         IsFiniteSet(DOMAIN up_blocks'[u]),
         \A i \in Blocks : s_nuploading'[i] =
           NUploadingWithout(u)[i] + Cardinality(SelectedIn(up_blocks', u, i))
  PROVE  ChosenCounted'
<1>1. \A v \in Uploaders : IsFiniteSet(DOMAIN up_blocks'[v])
  BY ListsFinite
<1>2. ASSUME NEW i \in Blocks
      PROVE  s_nuploading'[i] = Cardinality(ChosenBy(up_blocks', Uploaders, i))
  <2>1. ChosenBy(up_blocks', Uploaders \ {u}, i) = ChosenBy(up_blocks, Uploaders \ {u}, i)
    BY DEF ChosenBy, SelectedIn
  <2>2. Cardinality(ChosenBy(up_blocks', Uploaders, i)) =
          Cardinality(ChosenBy(up_blocks', Uploaders \ {u}, i)) + Cardinality(SelectedIn(up_blocks', u, i))
    BY <1>1, ChosenSplit
  <2>3. NUploadingWithout(u)[i] = Cardinality(ChosenBy(up_blocks, Uploaders \ {u}, i))
    BY OthersCounted
  <2> QED BY <2>1, <2>2, <2>3
<1> QED BY <1>2 DEF ChosenCounted, Blocks, ChosenBy, SelectedIn

LEMMA ListEmptied ==
  ASSUME ListsOK, ChosenCounted, NEW u \in Uploaders, s_nuploading' = NUploadingWithout(u),
         up_blocks' = [up_blocks EXCEPT ![u] = <<>>]
  PROVE  ChosenCounted'
<1>1. /\ \A v \in Uploaders \ {u} : up_blocks'[v] = up_blocks[v]
      /\ up_blocks'[u] = <<>>
  BY DEF ListsOK
<1>2. DOMAIN up_blocks'[u] = {}
  BY <1>1
<1>3. IsFiniteSet(DOMAIN up_blocks'[u])
  BY <1>2, FS_EmptySet
<1>4. \A i \in Blocks : SelectedIn(up_blocks', u, i) = {}
  BY <1>2 DEF SelectedIn
<1>5. ASSUME NEW i \in Blocks
      PROVE  s_nuploading'[i] =
               NUploadingWithout(u)[i] + Cardinality(SelectedIn(up_blocks', u, i))
  <2>1. NUploadingWithout(u)[i] \in Nat
    BY OthersCounted
  <2>2. Cardinality(SelectedIn(up_blocks', u, i)) = 0
    BY <1>4, FS_EmptySet
  <2> QED BY <2>1, <2>2
<1> QED BY <1>1, <1>3, <1>5, ListReplaced

\* Closing leaves the numbers of the blocks in the lists.
LEMMA ListsClosed ==
  ASSUME ListsOK, ChosenCounted, NEW R, NEW D, Close(R, D), UNCHANGED s_nuploading
  PROVE  /\ ChosenCounted' /\ up_blocks' \in [Uploaders -> Seq([num : Blocks, live : BOOLEAN])]
<1>1. up_blocks' = [u \in Uploaders |-> [k \in DOMAIN up_blocks[u] |->
        IF up_blocks[u][k].num \in D THEN [up_blocks[u][k] EXCEPT !.live = FALSE]
        ELSE up_blocks[u][k]]]
  BY DEF Close
<1>2. ASSUME NEW u \in Uploaders
      PROVE  /\ DOMAIN up_blocks'[u] = DOMAIN up_blocks[u]
             /\ \A k \in DOMAIN up_blocks[u] : up_blocks'[u][k].num = up_blocks[u][k].num
             /\ up_blocks'[u] \in Seq([num : Blocks, live : BOOLEAN])
  <2>1. up_blocks[u] \in Seq([num : Blocks, live : BOOLEAN])
    BY DEF ListsOK
  <2>2. /\ DOMAIN up_blocks[u] = 1 .. Len(up_blocks[u]) /\ Len(up_blocks[u]) \in Nat
        /\ \A k \in DOMAIN up_blocks[u] : up_blocks[u][k] \in [num : Blocks, live : BOOLEAN]
    BY <2>1, SequenceOf
  <2>3. DOMAIN up_blocks'[u] = DOMAIN up_blocks[u]
    BY <1>1
  <2>4. ASSUME NEW k \in DOMAIN up_blocks[u]
        PROVE  /\ up_blocks'[u][k].num = up_blocks[u][k].num
               /\ up_blocks'[u][k] \in [num : Blocks, live : BOOLEAN]
    <3>1. \/ up_blocks'[u][k] = [up_blocks[u][k] EXCEPT !.live = FALSE]
          \/ up_blocks'[u][k] = up_blocks[u][k]
      BY <1>1
    <3> QED BY <2>2, <3>1
  <2>5. up_blocks'[u] = [k \in 1 .. Len(up_blocks[u]) |-> up_blocks'[u][k]]
    BY <1>1, <2>2
  <2>6. up_blocks'[u] \in Seq([num : Blocks, live : BOOLEAN])
    <3> DEFINE f == up_blocks'[u]
               m == Len(up_blocks[u])
               E == [num : Blocks, live : BOOLEAN]
    <3>1. m \in Nat /\ f = [k \in 1 .. m |-> f[k]] /\ \A k \in 1 .. m : f[k] \in E
      BY <2>2, <2>4, <2>5
    <3> HIDE DEF f, m, E
    <3>2. f \in Seq(E)
      BY ONLY <3>1
    <3> QED BY <3>2 DEF f, E
  <2> QED BY <2>3, <2>4, <2>6
<1>3. up_blocks' \in [Uploaders -> Seq([num : Blocks, live : BOOLEAN])]
  <2>1. up_blocks' = [u \in Uploaders |-> up_blocks'[u]]
    BY <1>1
  <2> QED BY <1>2, <2>1
<1>4. \A u \in Uploaders : \A i \in Blocks : SelectedIn(up_blocks', u, i) = SelectedIn(up_blocks, u, i)
  BY <1>2 DEF SelectedIn
<1>5. \A i \in Blocks : ChosenBy(up_blocks', Uploaders, i) = ChosenBy(up_blocks, Uploaders, i)
  BY <1>4 DEF ChosenBy
<1>6. ChosenCounted'
  BY <1>5 DEF ChosenCounted, Blocks, ChosenBy, SelectedIn
<1> QED BY <1>3, <1>6

\* What select_blocks takes: wanted blocks, none of them twice.
LEMMA ChoiceFacts ==
  ASSUME ListsOK, NEW u \in Uploaders, NEW choice \in SelectBlocks(u)
  PROVE  /\ choice.left \subseteq Blocks
         /\ \E n \in Nat : DOMAIN choice.blocks = 1 .. n
         /\ \A k \in DOMAIN choice.blocks : choice.blocks[k] \in Wanted(u)
         /\ \A j, k \in DOMAIN choice.blocks : j # k => choice.blocks[j] # choice.blocks[k]
<1> DEFINE all == up_complete_blocks[u]
           Sets == UNION {(SUBSET (Wanted(u) \cap Chunk(i))) \ {{}} : i \in Wanted(u)}
<1>1. all \subseteq Blocks
  BY DEF ListsOK
<1>2. \/ \E S \in Sets : choice \in [blocks : SetToSeqs(S), left : {all \ S}]
      \/ \E i \in Wanted(u) : \E passed \in SUBSET (all \ Wanted(u)) :
           choice = [blocks |-> <<i>>, left |-> all \ (passed \cup {i})]
  BY DEF SelectBlocks
<1>3. \A S \in Sets : S \subseteq Wanted(u)
  OBVIOUS
<1> HIDE DEF Sets, all
<1>4. CASE \E S \in Sets : choice \in [blocks : SetToSeqs(S), left : {all \ S}]
  <2>1. PICK S \in Sets : choice \in [blocks : SetToSeqs(S), left : {all \ S}]
    BY <1>4
  <2>2. choice.blocks \in SetToSeqs(S) /\ choice.left = all \ S
    BY <2>1
  <2>3. S \subseteq Blocks
    BY <1>1, <1>3 DEF Wanted, all
  <2>4. Cardinality(S) \in Nat
    <3>1. IsFiniteSet(Blocks)
      <4>1. (s_size - 1) \div block_size \in Int
        BY SizesAssumption
      <4> QED BY <4>1, FS_Interval DEF Blocks
    <3> QED BY <2>3, <3>1, FS_Subset, FS_CardinalityType
  <2>5. /\ DOMAIN choice.blocks = 1 .. Cardinality(S)
        /\ \A k \in DOMAIN choice.blocks : choice.blocks[k] \in S
        /\ \A j, k \in DOMAIN choice.blocks : j # k => choice.blocks[j] # choice.blocks[k]
    BY <2>2 DEF SetToSeqs
  <2> QED BY <1>1, <1>3, <2>2, <2>4, <2>5
<1>5. CASE \E i \in Wanted(u) : \E passed \in SUBSET (all \ Wanted(u)) :
             choice = [blocks |-> <<i>>, left |-> all \ (passed \cup {i})]
  <2>1. PICK i \in Wanted(u), passed \in SUBSET (all \ Wanted(u)) :
          choice = [blocks |-> <<i>>, left |-> all \ (passed \cup {i})]
    BY <1>5
  <2>2. choice.blocks = <<i>> /\ choice.left \subseteq Blocks
    BY <1>1, <2>1
  <2>3. DOMAIN choice.blocks = 1 .. 1 /\ choice.blocks[1] = i
    BY <2>2
  <2> QED BY <2>2, <2>3
<1> QED BY <1>2, <1>4, <1>5

LEMMA FindBlocksCounted ==
  ASSUME RangesInv, ChosenCounted, NEW u \in Uploaders, FindBlocks(u)
  PROVE  RangesInvariant' /\ HoldersCounted' /\ ChosenCounted' /\ ListsOK'
<1>1. PICK choice \in SelectBlocks(u) :
        /\ NewBlocks({i \in {choice.blocks[k] : k \in DOMAIN choice.blocks} : s_blocks[i] = "Empty"})
        /\ s_nuploading' = [i \in Blocks |-> Unselect(u)[i] +
             IF i \in {choice.blocks[k] : k \in DOMAIN choice.blocks} THEN 1 ELSE 0]
        /\ up_blocks' = [up_blocks EXCEPT ![u] =
             [k \in DOMAIN choice.blocks |-> [num |-> choice.blocks[k], live |-> TRUE]]]
        /\ up_complete_blocks' = [up_complete_blocks EXCEPT ![u] = choice.left]
        /\ UNCHANGED up_ranges
  BY Zenon DEF FindBlocks
<1> DEFINE S == {choice.blocks[k] : k \in DOMAIN choice.blocks}
           E == {i \in S : s_blocks[i] = "Empty"}
<1>2. ListsOK
  BY DEF RangesInv
<1>3. /\ choice.left \subseteq Blocks
      /\ \A k \in DOMAIN choice.blocks : choice.blocks[k] \in Wanted(u)
      /\ \A j, k \in DOMAIN choice.blocks : j # k => choice.blocks[j] # choice.blocks[k]
  BY <1>2, ChoiceFacts
<1>4. PICK n \in Nat : DOMAIN choice.blocks = 1 .. n
  BY <1>2, ChoiceFacts
<1>5. S \subseteq Blocks
  BY <1>2, <1>3 DEF Wanted, ListsOK
<1>6. NewBlocks(E) /\ E \in SUBSET Blocks /\ \A i \in E : s_blocks[i] = "Empty"
  BY <1>1, <1>5
<1>7. RangesInvariant' /\ HoldersCounted'
  <2> HIDE DEF E
  <2> QED BY <1>1, <1>6, NewBlocksRanges
<1>8. /\ \A v \in Uploaders \ {u} : up_blocks'[v] = up_blocks[v]
      /\ up_blocks'[u] = [k \in 1 .. n |-> [num |-> choice.blocks[k], live |-> TRUE]]
  BY <1>1, <1>2, <1>4 DEF ListsOK
<1>9. DOMAIN up_blocks'[u] = 1 .. n
  BY <1>8
<1>10. \A k \in 1 .. n : up_blocks'[u][k].num = choice.blocks[k]
  BY <1>8
<1>11. ASSUME NEW i \in Blocks
       PROVE  Cardinality(SelectedIn(up_blocks', u, i)) = IF i \in S THEN 1 ELSE 0
  <2>1. SelectedIn(up_blocks', u, i) = {k \in 1 .. n : choice.blocks[k] = i}
    BY <1>9, <1>10 DEF SelectedIn
  <2>2. CASE i \in S
    <3>1. PICK k \in 1 .. n : choice.blocks[k] = i
      BY <1>4, <2>2
    <3>2. {j \in 1 .. n : choice.blocks[j] = i} = {k}
      BY <1>3, <1>4, <3>1
    <3> QED BY <2>1, <2>2, <3>2, FS_Singleton
  <2>3. CASE i \notin S
    <3>1. {k \in 1 .. n : choice.blocks[k] = i} = {}
      BY <1>4, <2>3
    <3> QED BY <2>1, <2>3, <3>1, FS_EmptySet
  <2> QED BY <2>2, <2>3
<1> HIDE DEF S
<1>12. \A i \in Blocks : s_nuploading'[i] = NUploadingWithout(u)[i] + IF i \in S THEN 1 ELSE 0
  BY <1>1 DEF Unselect, S
<1>13. ChosenCounted'
  <2>1. IsFiniteSet(DOMAIN up_blocks'[u])
    <3>1. IsFiniteSet(1 .. n)
      BY FS_Interval
    <3> QED BY <1>9, <3>1
  <2>2. \A i \in Blocks : s_nuploading'[i] =
          NUploadingWithout(u)[i] + Cardinality(SelectedIn(up_blocks', u, i))
    BY <1>11, <1>12
  <2> QED BY <1>2, <1>8, <2>1, <2>2, ListReplaced
<1>14. ListsOK'
  <2>1. s_blocks' \in [Blocks -> {"Empty", "Partial", "Complete", "Verified"}]
    BY <1>2, <1>6 DEF NewBlocks, ListsOK
  <2>2. /\ range' = [r \in Ranges \cup {End(i) : i \in E} |->
             IF r \in Ranges THEN range[r] ELSE [begin |-> Begin(Block(r)), nuploading |-> 0]]
        /\ Ranges' = Ranges \cup {End(i) : i \in E}
    BY <1>6 DEF NewBlocks, Ranges
  <2>3. \A i \in E : End(i) \in 1 .. s_size /\ Block(End(i)) = i /\ Begin(i) \in 0 .. s_size
    BY <1>6, BlockOfBlock, SizesAssumption
  <2>4. Ranges' \subseteq 1 .. s_size
    <3>1. Ranges \subseteq 1 .. s_size
      BY <1>2 DEF ListsOK
    <3> HIDE DEF E
    <3> QED BY ONLY <2>2, <2>3, <3>1
  <2>5. range' \in [Ranges' -> [begin : 0 .. s_size, nuploading : Nat]]
    <3>1. \A r \in Ranges : range[r] \in [begin : 0 .. s_size, nuploading : Nat]
      BY <1>2 DEF ListsOK
    <3> HIDE DEF E
    <3>2. \A r \in Ranges' : r \notin Ranges =>
            [begin |-> Begin(Block(r)), nuploading |-> 0] \in [begin : 0 .. s_size, nuploading : Nat]
      BY <2>2, <2>3
    <3> QED BY <2>2, <3>1, <3>2
  <2>6. block_remaining' \in [Blocks -> Int] /\ block_unselected_remaining' \in [Blocks -> Int]
    <3>1. \A i \in Blocks : BlockSize[i] \in Int
      BY BlockOfBlock DEF BlockSize
    <3> QED BY <1>2, <1>6, <3>1 DEF NewBlocks, ListsOK
  <2>7. s_nuploading' \in [Blocks -> Nat]
    <3>1. \A i \in Blocks : NUploadingWithout(u)[i] \in Nat
      BY <1>2, OthersCounted
    <3>2. s_nuploading' = [i \in Blocks |-> NUploadingWithout(u)[i] + IF i \in S THEN 1 ELSE 0]
      BY <1>1 DEF Unselect, S
    <3> QED BY <3>1, <3>2
  <2>8. up_complete_blocks' \in [Uploaders -> SUBSET Blocks]
    BY <1>1, <1>2, <1>3 DEF ListsOK
  <2>9. up_blocks' \in [Uploaders -> Seq([num : Blocks, live : BOOLEAN])]
    <3>1. \A k \in 1 .. n : choice.blocks[k] \in Blocks
      BY <1>4, <1>5 DEF S
    <3>2. \A k \in 1 .. n : [num |-> choice.blocks[k], live |-> TRUE] \in [num : Blocks, live : BOOLEAN]
      BY <3>1
    <3>3. up_blocks'[u] \in Seq([num : Blocks, live : BOOLEAN])
      BY <1>8, <3>2
    <3> QED BY <1>1, <1>2, <3>3 DEF ListsOK
  <2>10. up_ranges' \in [Uploaders -> SUBSET (1 .. s_size)]
    BY <1>1, <1>2 DEF ListsOK
  <2> QED BY <2>1, <2>4, <2>5, <2>6, <2>7, <2>8, <2>9, <2>10 DEF ListsOK, Blocks
<1> QED BY <1>7, <1>13, <1>14

-----------------------------------------------------------------------------
(* Bytes of ranges *)

\* The bytes from[r] .. to[r] - 1 of the ranges r in S.
Pieces(from, to, S) == UNION {from[r] .. to[r] - 1 : r \in S}

\* A sum over ranges counts bytes.
LEMMA PieceSum ==
  ASSUME NEW S \in SUBSET (1 .. s_size), NEW from, NEW to, NEW g,
         \A r \in S : /\ from[r] \in Nat /\ to[r] \in Int /\ from[r] <= to[r] /\ to[r] <= r
                      /\ g[r] = to[r] - from[r],
         \A q, r \in S : q < r => q <= from[r]
  PROVE  /\ SumFunctionOnSet(g, S) = Cardinality(Pieces(from, to, S))
         /\ IsFiniteSet(Pieces(from, to, S)) /\ SumFunctionOnSet(g, S) \in Nat
<1> DEFINE A == [r \in S |-> from[r] .. to[r] - 1]
           U == 0 .. s_size
<1>1. s_size \in Nat /\ \A r \in S : r \in Int /\ r \in 1 .. s_size
  BY SizesAssumption
<1>2. IsFiniteSet(1 .. s_size) /\ IsFiniteSet(U)
  BY <1>1, FS_Interval
<1>3. IsFiniteSet(S)
  BY <1>2, FS_Subset
<1>4. ASSUME NEW r \in S PROVE A[r] \subseteq U /\ Cardinality(A[r]) = g[r]
  <2>1. /\ from[r] \in Nat /\ to[r] \in Int /\ from[r] <= to[r] /\ to[r] <= r
        /\ g[r] = to[r] - from[r] /\ r \in 1 .. s_size /\ r \in Int
    BY <1>1
  <2>2. A[r] = from[r] .. to[r] - 1
    OBVIOUS
  <2>3. A[r] \subseteq U
    BY <1>1, <2>1, <2>2
  <2>4. to[r] - 1 \in Int /\ from[r] \in Int
    BY <2>1
  <2>5. Cardinality(from[r] .. to[r] - 1) = IF from[r] > to[r] - 1 THEN 0 ELSE to[r] - 1 - from[r] + 1
    BY <2>4, FS_Interval
  <2> QED BY <2>1, <2>2, <2>3, <2>5
<1>5. ASSUME NEW x \in S, NEW y \in S, x # y PROVE A[x] \cap A[y] = {}
  <2>1. /\ from[x] \in Int /\ to[x] \in Int /\ to[x] <= x /\ from[y] \in Int /\ to[y] \in Int
        /\ to[y] <= y /\ x \in Int /\ y \in Int
    BY <1>1
  <2>2. x <= from[y] \/ y <= from[x]
    BY <1>5, <2>1
  <2>3. A[x] = from[x] .. to[x] - 1 /\ A[y] = from[y] .. to[y] - 1
    OBVIOUS
  <2> QED BY <2>1, <2>2, <2>3
<1>6. Pieces(from, to, S) = AllOf(A, S)
  BY DEF Pieces, AllOf
<1>7. Pieces(from, to, S) \subseteq U
  BY <1>4, <1>6 DEF AllOf
<1> HIDE DEF A, U
<1>8. SumFunctionOnSet(g, S) = Cardinality(AllOf(A, S))
  <2>1. SizesOf(A, g, U, S)
    BY <1>4, <1>5 DEF SizesOf
  <2> QED BY <1>2, <1>3, <2>1, SumIsCount
<1>9. IsFiniteSet(Pieces(from, to, S))
  BY <1>2, <1>7, FS_Subset
<1> QED BY <1>6, <1>8, <1>9, FS_CardinalityType

\* The lengths of some ranges.
Span(f, S) == UNION {f[r].begin .. r - 1 : r \in S}

LEMMA SpanSum ==
  ASSUME NEW f, NEW S \in SUBSET (1 .. s_size), NEW g,
         \A r \in S : /\ f[r].begin \in Nat /\ f[r].begin < r /\ g[r] = r - f[r].begin
                      /\ \A q \in S : q < r => q <= f[r].begin
  PROVE  /\ SumFunctionOnSet(g, S) = Cardinality(Span(f, S))
         /\ IsFiniteSet(Span(f, S)) /\ SumFunctionOnSet(g, S) \in Nat
<1> DEFINE from == [r \in S |-> f[r].begin]
           to == [r \in S |-> r]
<1>1. \A r \in S : r \in Int
  BY SizesAssumption
<1>2. \A r \in S : /\ from[r] \in Nat /\ to[r] \in Int /\ from[r] <= to[r] /\ to[r] <= r
                   /\ g[r] = to[r] - from[r]
  BY <1>1
<1>3. \A q, r \in S : q < r => q <= from[r]
  OBVIOUS
<1>4. Span(f, S) = Pieces(from, to, S)
  BY DEF Span, Pieces
<1> HIDE DEF from, to
<1> QED BY <1>2, <1>3, <1>4, PieceSum

LEMMA LengthSum ==
  ASSUME RangesInv, NEW S \in SUBSET Ranges
  PROVE  /\ SumFunctionOnSet(Length, S) = Cardinality(Span(range, S))
         /\ IsFiniteSet(Span(range, S)) /\ SumFunctionOnSet(Length, S) \in Nat
<1>1. \A r \in S : /\ r \in 1 .. s_size /\ range[r].begin \in 0 .. s_size
                   /\ range[r].begin < r /\ \A q \in S : q < r => q <= range[r].begin
  BY RangeFacts, SplitInvariant DEF RangesInv, Ordered
<1>2. \A r \in S : range[r].begin \in Nat
  BY <1>1, SizesAssumption
<1>3. \A r \in S : Length[r] = r - range[r].begin
  BY DEF Length
<1> QED BY <1>1, <1>2, <1>3, SpanSum

\* What is received of some ranges.
Gains(to, S) == UNION {range[r].begin .. to[r] - 1 : r \in S}

LEMMA GainedSum ==
  ASSUME RangesInv, NEW u \in Uploaders, NEW hit, NEW to, NEW gained, NEW closed,
         GainEffects(u, hit, to, gained, closed), NEW S \in SUBSET hit
  PROVE  /\ SumFunctionOnSet(gained, S) = Cardinality(Gains(to, S)) /\ IsFiniteSet(Gains(to, S))
         /\ SumFunctionOnSet(gained, S) \in Nat
<1> DEFINE from == [r \in S |-> range[r].begin]
<1>1. S \subseteq Ranges
  BY DEF GainEffects
<1>2. \A r \in S : /\ r \in 1 .. s_size /\ range[r].begin \in 0 .. s_size
                   /\ \A q \in S : q < r => q <= range[r].begin
  BY <1>1, RangeFacts, SplitInvariant DEF RangesInv, Ordered
<1>3. \A r \in S : /\ to[r] \in Int /\ range[r].begin < to[r] /\ to[r] <= r
                   /\ gained[r] = to[r] - range[r].begin
  BY DEF GainEffects
<1>4. \A r \in S : from[r] \in Nat
  BY <1>2, SizesAssumption
<1>5. \A r \in S : /\ from[r] <= to[r] /\ to[r] <= r /\ gained[r] = to[r] - from[r] /\ to[r] \in Int
  BY <1>2, <1>3, <1>4
<1>6. \A q, r \in S : q < r => q <= from[r]
  BY <1>2
<1>7. Pieces(from, to, S) = Gains(to, S)
  BY DEF Pieces, Gains
<1>8. S \in SUBSET (1 .. s_size)
  BY <1>2
<1> HIDE DEF from
<1>9. /\ SumFunctionOnSet(gained, S) = Cardinality(Pieces(from, to, S))
      /\ IsFiniteSet(Pieces(from, to, S)) /\ SumFunctionOnSet(gained, S) \in Nat
  BY <1>4, <1>5, <1>6, <1>8, PieceSum
<1> QED BY <1>7, <1>9

-----------------------------------------------------------------------------
(* The invariant of the counters of uploaders *)

ChoiceInv == RangesInv /\ ChosenCounted

LEMMA ChoiceInit ==
  ASSUME Init
  PROVE  ChoiceInv
<1>1. Ranges = {}
  BY DEF Init, Ranges
<1>2. ListsOK
  <2>1. range \in [Ranges -> [begin : 0 .. s_size, nuploading : Nat]]
    BY <1>1 DEF Init
  <2>2. up_blocks \in [Uploaders -> Seq([num : Blocks, live : BOOLEAN])]
    BY DEF Init
  <2> QED BY <1>1, <2>1, <2>2 DEF Init, ListsOK
<1>3. RangesInvariant
  BY <1>1 DEF RangesInvariant, Init, RangesOf
<1>4. ChosenCounted
  <2>1. \A i \in Blocks : ChosenBy(up_blocks, Uploaders, i) = {}
    BY DEF Init, ChosenBy, SelectedIn
  <2> QED BY <2>1, FS_EmptySet DEF Init, ChosenCounted
<1> QED BY <1>1, <1>2, <1>3, <1>4 DEF ChoiceInv, RangesInv, HoldersCounted

\* The counters of the blocks, and what keeps them.
LEMMA SameLists ==
  ASSUME ChosenCounted, UNCHANGED <<s_nuploading, up_blocks>>
  PROVE  ChosenCounted'
BY DEF ChosenCounted, ChosenBy, SelectedIn, Blocks

LEMMA ClearTypes ==
  ASSUME RangesInv, HoldersCounted', NEW u \in Uploaders, clear_uploader_ranges(u)
  PROVE  /\ Ranges' \subseteq 1 .. s_size
         /\ range' \in [Ranges' -> [begin : 0 .. s_size, nuploading : Nat]]
         /\ block_unselected_remaining' \in [Blocks -> Int]
         /\ up_ranges' \in [Uploaders -> SUBSET (1 .. s_size)]
<1>1. ListsOK /\ Ranges' = Ranges
  BY ClearEffect DEF RangesInv
<1>2. range' = [r \in Ranges |-> IF r \in up_ranges[u] /\ ~Free(r)
                  THEN [range[r] EXCEPT !.nuploading = @ - 1] ELSE range[r]]
  BY DEF clear_uploader_ranges
<1>3. \A r \in Ranges : range[r] \in [begin : 0 .. s_size, nuploading : Nat]
  BY <1>1 DEF ListsOK
<1>4. \A r \in Ranges : ~Free(r) =>
        [range[r] EXCEPT !.nuploading = @ - 1] \in [begin : 0 .. s_size, nuploading : Nat]
  BY <1>3 DEF Free
<1>5. range' \in [Ranges -> [begin : 0 .. s_size, nuploading : Nat]]
  BY <1>2, <1>3, <1>4
<1>6. block_unselected_remaining' \in [Blocks -> Int]
  <2>1. ASSUME NEW i \in Blocks
        PROVE  SumFunctionOnSet(Length,
                 {r \in up_ranges[u] \cap RangesOf(i) : range[r].nuploading <= 1}) \in Nat
    <3>1. {r \in up_ranges[u] \cap RangesOf(i) : range[r].nuploading <= 1} \in SUBSET Ranges
      BY DEF RangesOf
    <3> QED BY <3>1, LengthSum
  <2> DEFINE sum == [i \in Blocks |-> SumFunctionOnSet(Length,
               {r \in up_ranges[u] \cap RangesOf(i) : range[r].nuploading <= 1})]
  <2>2. sum \in [Blocks -> Nat]
    BY <2>1
  <2>3. block_unselected_remaining' = [i \in Blocks |-> block_unselected_remaining[i] + sum[i]]
    BY DEF clear_uploader_ranges
  <2> HIDE DEF sum
  <2> QED BY <1>1, <2>2, <2>3 DEF ListsOK
<1>7. up_ranges' \in [Uploaders -> SUBSET (1 .. s_size)]
  BY <1>1 DEF clear_uploader_ranges, ListsOK
<1> QED BY <1>1, <1>5, <1>6, <1>7 DEF ListsOK

LEMMA TakeTypes ==
  ASSUME RangesInv, NEW u \in Uploaders, NEW r \in Ranges, up_blocks[u] # <<>>, Takes(u, r)
  PROVE  /\ Ranges' \subseteq 1 .. s_size
         /\ range' \in [Ranges' -> [begin : 0 .. s_size, nuploading : Nat]]
         /\ block_unselected_remaining' \in [Blocks -> Int]
         /\ up_ranges' \in [Uploaders -> SUBSET (1 .. s_size)]
<1> DEFINE e == CutEnd(r, u)
           end == EndOf(r, u)
           C == Cluster(r, u) \cup {r}
<1>1. TakeEffects(u, r, e, end, C)
  BY TakeEffect
<1>2. /\ up_ranges' = [v \in Uploaders |->
           IF v = u \/ r \in up_ranges[v] THEN (up_ranges[v] \ {r}) \cup {e} ELSE up_ranges[v]]
      /\ block_unselected_remaining' = [block_unselected_remaining EXCEPT ![Block(r)] =
           IF Free(r) THEN @ - (e - range[r].begin) ELSE @]
  BY DEF Takes
<1> HIDE DEF e, end, C
<1>3. ListsOK /\ r \in 1 .. s_size /\ range[r].begin \in Int
  BY RangeFacts DEF RangesInv
<1>4. e \in 1 .. s_size /\ e \in Int
  BY <1>1, SizesAssumption DEF TakeEffects
<1>5. Ranges' \subseteq 1 .. s_size
  <2>1. Ranges' = (Ranges \ C) \cup {e, end} /\ end \in Ranges
    BY <1>1 DEF TakeEffects
  <2>2. Ranges \subseteq 1 .. s_size
    BY <1>3 DEF ListsOK
  <2> QED BY ONLY <1>4, <2>1, <2>2
<1>6. range' \in [Ranges' -> [begin : 0 .. s_size, nuploading : Nat]]
  BY <1>1 DEF TakeEffects
<1>7. up_ranges' \in [Uploaders -> SUBSET (1 .. s_size)]
  BY <1>2, <1>3, <1>4 DEF ListsOK
<1>8. block_unselected_remaining' \in [Blocks -> Int]
  <2>1. Block(r) \in Blocks /\ block_unselected_remaining \in [Blocks -> Int]
    BY <1>3, BlockInBlocks DEF ListsOK
  <2>2. e - range[r].begin \in Int
    BY <1>3, <1>4
  <2>3. block_unselected_remaining[Block(r)] - (e - range[r].begin) \in Int
    BY <2>1, <2>2
  <2> QED BY <1>2, <2>1, <2>3
<1> QED BY <1>5, <1>6, <1>7, <1>8

LEMMA CloseTypes ==
  ASSUME ListsOK, NEW R, NEW D, Close(R, D)
  PROVE  /\ up_ranges' \in [Uploaders -> SUBSET (1 .. s_size)]
         /\ s_blocks' \in [Blocks -> {"Empty", "Partial", "Complete", "Verified"}]
BY DEF ListsOK, Close

LEMMA ReceivedTypes ==
  ASSUME ChoiceInv, NEW u \in Uploaders, NEW hi \in 1 .. s_size, NEW lo \in 0 .. hi - 1,
         Received(u, lo, hi)
  PROVE  ListsOK' /\ ChosenCounted'
<1>1. PICK hit, to, gained, closed : GainEffects(u, hit, to, gained, closed)
  BY ReceivedEffect DEF ChoiceInv
<1>2. PICK R, D : Close(R, D)
  BY DEF Received
<1>3. ListsOK /\ ChosenCounted /\ UNCHANGED <<s_nuploading, up_complete_blocks>>
  BY DEF ChoiceInv, RangesInv, Received
<1>4. /\ ChosenCounted' /\ up_blocks' \in [Uploaders -> Seq([num : Blocks, live : BOOLEAN])]
      /\ up_ranges' \in [Uploaders -> SUBSET (1 .. s_size)]
      /\ s_blocks' \in [Blocks -> {"Empty", "Partial", "Complete", "Verified"}]
  BY <1>2, <1>3, ListsClosed, CloseTypes
<1>5. Ranges' \subseteq 1 .. s_size /\ range' \in [Ranges' -> [begin : 0 .. s_size, nuploading : Nat]]
  BY <1>1, <1>3 DEF GainEffects, ListsOK
<1> DEFINE all == [i \in Blocks |-> SumFunctionOnSet(gained, hit \cap RangesOf(i))]
           free == [i \in Blocks |-> SumFunctionOnSet(gained, {r \in hit \cap RangesOf(i) : Free(r)})]
<1>6. ASSUME NEW i \in Blocks PROVE all[i] \in Nat /\ free[i] \in Nat
  <2>1. hit \cap RangesOf(i) \in SUBSET hit /\ {r \in hit \cap RangesOf(i) : Free(r)} \in SUBSET hit
    OBVIOUS
  <2> QED BY <1>1, <2>1, GainedSum DEF ChoiceInv
<1>7. /\ block_remaining' = [i \in Blocks |-> block_remaining[i] - all[i]]
      /\ block_unselected_remaining' = [i \in Blocks |-> block_unselected_remaining[i] - free[i]]
  BY <1>1 DEF GainEffects
<1> HIDE DEF all, free
<1>8. block_remaining' \in [Blocks -> Int] /\ block_unselected_remaining' \in [Blocks -> Int]
  BY <1>3, <1>6, <1>7 DEF ListsOK
<1> QED BY <1>3, <1>4, <1>5, <1>8 DEF ListsOK, Blocks

LEMMA CompleteTypes ==
  ASSUME ChoiceInv, NEW i \in Blocks, CompleteBlock(i)
  PROVE  ListsOK' /\ ChosenCounted'
<1>1. ListsOK /\ ChosenCounted /\ UNCHANGED <<s_nuploading, up_complete_blocks>>
  BY DEF ChoiceInv, RangesInv, CompleteBlock
<1>2. /\ ChosenCounted' /\ up_blocks' \in [Uploaders -> Seq([num : Blocks, live : BOOLEAN])]
      /\ up_ranges' \in [Uploaders -> SUBSET (1 .. s_size)]
      /\ s_blocks' \in [Blocks -> {"Empty", "Partial", "Complete", "Verified"}]
  BY <1>1, ListsClosed, CloseTypes DEF CompleteBlock
<1>3. range' = [r \in Ranges \ RangesOf(i) |-> range[r]] /\ Ranges' = Ranges \ RangesOf(i)
  BY DEF CompleteBlock, Ranges
<1>4. Ranges' \subseteq 1 .. s_size /\ range' \in [Ranges' -> [begin : 0 .. s_size, nuploading : Nat]]
  BY <1>1, <1>3 DEF ListsOK
<1>5. SumFunctionOnSet(Length, RangesOf(i)) \in Nat
  <2>1. RangesOf(i) \in SUBSET Ranges
    BY DEF RangesOf
  <2> QED BY <2>1, LengthSum DEF ChoiceInv
<1>6. SumFunctionOnSet(Length, {r \in RangesOf(i) : Free(r)}) \in Nat
  <2>1. {r \in RangesOf(i) : Free(r)} \in SUBSET Ranges
    BY DEF RangesOf
  <2> QED BY <2>1, LengthSum DEF ChoiceInv
<1>7. block_remaining' \in [Blocks -> Int] /\ block_unselected_remaining' \in [Blocks -> Int]
  BY <1>1, <1>5, <1>6 DEF ListsOK, CompleteBlock
<1> QED BY <1>1, <1>2, <1>4, <1>7 DEF ListsOK, Blocks

LEMMA EmptyListType ==
  ASSUME ListsOK, NEW u \in Uploaders, up_blocks' = [up_blocks EXCEPT ![u] = <<>>]
  PROVE  up_blocks' \in [Uploaders -> Seq([num : Blocks, live : BOOLEAN])]
<1>1. <<>> \in Seq([num : Blocks, live : BOOLEAN])
  OBVIOUS
<1> QED BY <1>1 DEF ListsOK

LEMMA WithoutType ==
  ASSUME ListsOK, ChosenCounted, NEW u \in Uploaders
  PROVE  NUploadingWithout(u) \in [Blocks -> Nat]
<1>1. \A i \in Blocks : NUploadingWithout(u)[i] \in Nat
  BY OthersCounted
<1>2. NUploadingWithout(u) = [i \in Blocks |-> NUploadingWithout(u)[i]]
  BY DEF NUploadingWithout
<1> QED BY <1>1, <1>2

\* Steps that forget the list of an uploader and leave the ranges.
LEMMA ForgetStep ==
  ASSUME ChoiceInv, NEW u \in Uploaders, NEW B \in SUBSET Blocks,
         s_nuploading' = NUploadingWithout(u), up_blocks' = [up_blocks EXCEPT ![u] = <<>>],
         up_complete_blocks' = [up_complete_blocks EXCEPT ![u] = B],
         UNCHANGED <<blockVars, up_ranges>>
  PROVE  ChoiceInv'
<1> USE DEF ChoiceInv, RangesInv, blockVars
<1>1. ChosenCounted'
  BY ListEmptied
<1>2. s_nuploading' \in [Blocks -> Nat]
        /\ up_blocks' \in [Uploaders -> Seq([num : Blocks, live : BOOLEAN])]
  BY EmptyListType, WithoutType
<1>3. ListsOK'
  BY <1>2 DEF ListsOK, Ranges, Blocks
<1>4. Ranges' = Ranges
  BY DEF Ranges
<1>5. RangesInvariant'
  BY <1>4, SamePlaces
<1>6. HoldersCounted'
  BY <1>4 DEF HoldersCounted, Holders
<1> QED BY <1>1, <1>3, <1>5, <1>6

LEMMA ClearStep ==
  ASSUME ChoiceInv, NEW u \in Uploaders, ClearUploaderRanges(u)
  PROVE  ChoiceInv'
<1>1. /\ RangesInv /\ ListsOK /\ ChosenCounted /\ clear_uploader_ranges(u)
      /\ UNCHANGED <<s_blocks, block_remaining, s_nuploading, up_complete_blocks, up_blocks>>
  BY DEF ChoiceInv, RangesInv, ClearUploaderRanges
<1>2. RangesInvariant' /\ HoldersCounted'
  BY <1>1, ClearRanges
<1>3. /\ Ranges' \subseteq 1 .. s_size
      /\ range' \in [Ranges' -> [begin : 0 .. s_size, nuploading : Nat]]
      /\ block_unselected_remaining' \in [Blocks -> Int]
      /\ up_ranges' \in [Uploaders -> SUBSET (1 .. s_size)]
  BY <1>1, <1>2, ClearTypes
<1>4. ListsOK'
  BY <1>1, <1>3 DEF ListsOK, Blocks
<1>5. ChosenCounted'
  BY <1>1, SameLists
<1> QED BY <1>2, <1>4, <1>5 DEF ChoiceInv, RangesInv

LEMMA UnregisterStep ==
  ASSUME ChoiceInv, NEW u \in Uploaders, UnregisterUploader(u)
  PROVE  ChoiceInv'
<1>1. /\ RangesInv /\ ListsOK /\ ChosenCounted /\ clear_uploader_ranges(u)
      /\ s_nuploading' = NUploadingWithout(u) /\ up_blocks' = [up_blocks EXCEPT ![u] = <<>>]
      /\ up_complete_blocks' = [up_complete_blocks EXCEPT ![u] = {}]
      /\ UNCHANGED s_blocks /\ UNCHANGED block_remaining
  BY DEF ChoiceInv, RangesInv, UnregisterUploader
<1>2. RangesInvariant' /\ HoldersCounted'
  BY <1>1, ClearRanges
<1>3. /\ Ranges' \subseteq 1 .. s_size
      /\ range' \in [Ranges' -> [begin : 0 .. s_size, nuploading : Nat]]
      /\ block_unselected_remaining' \in [Blocks -> Int]
      /\ up_ranges' \in [Uploaders -> SUBSET (1 .. s_size)]
  BY <1>1, <1>2, ClearTypes
<1>4. s_nuploading' \in [Blocks -> Nat]
        /\ up_blocks' \in [Uploaders -> Seq([num : Blocks, live : BOOLEAN])]
  BY <1>1, EmptyListType, WithoutType
<1>5. ListsOK'
  BY <1>1, <1>3, <1>4 DEF ListsOK, Blocks
<1>6. ChosenCounted'
  BY <1>1, ListEmptied
<1> QED BY <1>2, <1>5, <1>6 DEF ChoiceInv, RangesInv

LEMMA FindRangeStep ==
  ASSUME ChoiceInv, NEW u \in Uploaders, FindRange(u)
  PROVE  ChoiceInv'
<1>1. /\ RangesInv /\ ListsOK /\ ChosenCounted
      /\ UNCHANGED <<s_blocks, block_remaining, s_nuploading, up_complete_blocks, up_blocks>>
  BY DEF ChoiceInv, RangesInv, FindRange
<1>2. PICK best \in Correct(u) :
        /\ best.range \in Ranges /\ best.range \notin up_ranges[u]
        /\ up_blocks[u] # <<>> /\ Takes(u, best.range)
  BY FindRangeTakes
<1>3. RangesInvariant' /\ HoldersCounted'
  BY <1>1, <1>2, TakeRanges
<1>4. /\ Ranges' \subseteq 1 .. s_size
      /\ range' \in [Ranges' -> [begin : 0 .. s_size, nuploading : Nat]]
      /\ block_unselected_remaining' \in [Blocks -> Int]
      /\ up_ranges' \in [Uploaders -> SUBSET (1 .. s_size)]
  BY <1>1, <1>2, TakeTypes
<1>5. ListsOK'
  BY <1>1, <1>4 DEF ListsOK, Blocks
<1>6. ChosenCounted'
  BY <1>1, SameLists
<1> QED BY <1>3, <1>5, <1>6 DEF ChoiceInv, RangesInv

LEMMA VerifyStep ==
  ASSUME ChoiceInv, NEW i \in Blocks, VerifyChunk(i)
  PROVE  ChoiceInv'
<1>1. /\ ListsOK /\ RangesInvariant /\ HoldersCounted /\ ChosenCounted
      /\ UNCHANGED <<range, block_remaining, block_unselected_remaining, s_nuploading, uploaderVars>>
  BY DEF ChoiceInv, RangesInv, VerifyChunk
<1>2. PICK state \in {"Verified", "Empty"} :
        s_blocks' = [j \in Blocks |-> IF j \in Chunk(i) THEN state ELSE s_blocks[j]]
  BY DEF VerifyChunk
<1>3. \A j \in Blocks : s_blocks'[j] = "Partial" <=> s_blocks[j] = "Partial"
  BY <1>2 DEF VerifyChunk
<1>4. Ranges' = Ranges
  BY <1>1 DEF Ranges
<1>5. RangesInvariant'
  BY <1>1, <1>3, <1>4, SamePlaces DEF uploaderVars
<1>6. ListsOK'
  <2>1. s_blocks' \in [Blocks -> {"Empty", "Partial", "Complete", "Verified"}]
    BY <1>1, <1>2 DEF ListsOK
  <2> QED BY <1>1, <2>1 DEF ListsOK, uploaderVars, Ranges, Blocks
<1>7. HoldersCounted'
  BY <1>1, <1>4 DEF HoldersCounted, Holders, uploaderVars
<1>8. ChosenCounted'
  BY <1>1, SameLists DEF uploaderVars
<1> QED BY <1>5, <1>6, <1>7, <1>8 DEF ChoiceInv, RangesInv

LEMMA ChoiceStep ==
  ASSUME ChoiceInv, [Next]_vars
  PROVE  ChoiceInv'
<1>1. CASE \E u \in Uploaders : Uploader(u)
  <2>1. PICK u \in Uploaders : Uploader(u)
    BY <1>1
  <2>2. CASE \E B \in Bitmaps : SetIntervals(u, B)
    <3>1. PICK B \in Bitmaps : SetIntervals(u, B)
      BY <2>2
    <3>2. B \in SUBSET Blocks
      BY SizesAssumption DEF Blocks
    <3> QED BY <3>1, <3>2, ForgetStep DEF SetIntervals
  <2>3. CASE ClearUploaderRanges(u)
    BY <2>3, ClearStep
  <2>4. CASE UnregisterUploader(u)
    BY <2>4, UnregisterStep
  <2>5. CASE FindBlocks(u)
    BY <2>5, FindBlocksCounted DEF ChoiceInv, RangesInv
  <2>6. CASE FindNoBlock(u)
    <3>1. {} \in SUBSET Blocks
      OBVIOUS
    <3> QED BY <2>6, <3>1, ForgetStep DEF FindNoBlock
  <2>7. CASE FindRange(u)
    BY <2>7, FindRangeStep
  <2>8. CASE \E hi \in 1 .. s_size : \E lo \in 0 .. hi - 1 : Received(u, lo, hi)
    <3>1. PICK hi \in 1 .. s_size : \E lo \in 0 .. hi - 1 : Received(u, lo, hi)
      BY <2>8
    <3>2. PICK lo \in 0 .. hi - 1 : Received(u, lo, hi)
      BY <3>1
    <3>3. RangesInvariant' /\ HoldersCounted'
      BY <3>2, ReceivedRanges DEF ChoiceInv
    <3>4. ListsOK' /\ ChosenCounted'
      BY <3>2, ReceivedTypes
    <3> QED BY <3>3, <3>4 DEF ChoiceInv, RangesInv
  <2> QED BY <2>1, <2>2, <2>3, <2>4, <2>5, <2>6, <2>7, <2>8 DEF Uploader
<1>2. CASE \E i \in Blocks : CompleteBlock(i) \/ VerifyChunk(i)
  <2>1. PICK i \in Blocks : CompleteBlock(i) \/ VerifyChunk(i)
    BY <1>2
  <2>2. CASE CompleteBlock(i)
    <3>1. RangesInvariant' /\ HoldersCounted'
      BY <2>2, CompleteRanges DEF ChoiceInv
    <3>2. ListsOK' /\ ChosenCounted'
      BY <2>2, CompleteTypes
    <3> QED BY <3>1, <3>2 DEF ChoiceInv, RangesInv
  <2>3. CASE VerifyChunk(i)
    BY <2>3, VerifyStep
  <2> QED BY <2>1, <2>2, <2>3
<1>3. CASE UNCHANGED <<blockVars, s_nuploading, uploaderVars>>
  <2> USE <1>3 DEF blockVars, uploaderVars, ChoiceInv, RangesInv
  <2>1. ListsOK'
    BY DEF ListsOK, Ranges, Blocks
  <2>2. Ranges' = Ranges
    BY DEF Ranges
  <2>3. RangesInvariant'
    BY <2>2, SamePlaces
  <2>4. HoldersCounted'
    BY <2>2 DEF HoldersCounted, Holders
  <2>5. ChosenCounted'
    BY SameLists
  <2> QED BY <2>1, <2>3, <2>4, <2>5
<1>4. ASSUME (\E a, b \in Blocks : SetPriority(a, b)) \/ UNCHANGED vars
      PROVE  UNCHANGED <<blockVars, s_nuploading, uploaderVars>>
  BY <1>4 DEF SetPriority, vars
<1> QED BY <1>1, <1>2, <1>3, <1>4 DEF Next, Download

LEMMA ChoiceInvariant == Spec => []ChoiceInv
<1>1. Init => ChoiceInv
  BY ChoiceInit
<1>2. ChoiceInv /\ [Next]_vars => ChoiceInv'
  BY ChoiceStep
<1> QED BY <1>1, <1>2, PTL DEF Spec

\* Every variable keeps its type: no counter of uploaders goes below zero, no
\* range leaves the file, whatever the networks ask for and receive.
THEOREM ChoiceTypeCorrect == Spec => []TypeOK
<1>1. ChoiceInv => ListsOK
  BY DEF ChoiceInv, RangesInv
<1>2. Init => unwanted \subseteq Blocks
  BY DEF Init
<1>3. unwanted \subseteq Blocks /\ [Next]_vars => (unwanted \subseteq Blocks)'
  <2> SUFFICES ASSUME unwanted \subseteq Blocks, [Next]_vars
               PROVE  unwanted' \subseteq Blocks
    BY DEF Blocks
  <2>1. CASE UNCHANGED unwanted
    BY <2>1
  <2>2. ASSUME NEW a \in Blocks, NEW b \in Blocks, SetPriority(a, b)
        PROVE  unwanted' \subseteq Blocks
    <3>1. a .. b \subseteq Blocks
      BY SizesAssumption DEF Blocks
    <3> QED BY <2>2, <3>1 DEF SetPriority
  <2> QED BY <2>1, <2>2 DEF Next, vars
<1>4. ListsOK /\ unwanted \subseteq Blocks => TypeOK
  BY DEF TypeOK
<1> QED BY <1>1, <1>2, <1>3, <1>4, ChoiceInvariant, PTL DEF Spec

\* The range invariants at the head of commonSwarming.ml: the ranges of a block
\* are holes in it, in order and apart, after any merging, splitting, receiving
\* and closing, and an uploader never holds anything else.
THEOREM RangesStayApart == Spec => []RangesInvariant
<1>1. ChoiceInv => RangesInvariant
  BY DEF ChoiceInv, RangesInv
<1> QED BY <1>1, ChoiceInvariant, PTL

\* range_nuploading and s_nuploading count what the uploaders' lists hold.
THEOREM UploadersAreCounted == Spec => []UploadersCounted
<1>1. ChoiceInv => UploadersCounted
  <2> SUFFICES ASSUME ChoiceInv PROVE UploadersCounted
    OBVIOUS
  <2>1. \A r \in Ranges : range[r].nuploading = Cardinality({u \in Uploaders : r \in up_ranges[u]})
    BY DEF ChoiceInv, RangesInv, HoldersCounted, Holders
  <2>2. \A i \in Blocks : ChosenBy(up_blocks, Uploaders, i) = UNION {{u} \X Selected(u, i) : u \in Uploaders}
    BY DEF ChosenBy, SelectedIn, Selected
  <2>3. \A i \in Blocks :
          s_nuploading[i] = Cardinality(UNION {{u} \X Selected(u, i) : u \in Uploaders})
    BY <2>2 DEF ChoiceInv, ChosenCounted
  <2> QED BY <2>1, <2>3 DEF UploadersCounted
<1> QED BY <1>1, ChoiceInvariant, PTL

-----------------------------------------------------------------------------
(* What is left of a block *)

SameSize == \A u, v \in Uploaders : range_size[u] = range_size[v]

FreeOf(i) == {r \in RangesOf(i) : Free(r)}

\* The counters of a block count the bytes of its ranges.
Remains ==
  \A i \in Blocks : /\ block_remaining[i] = Cardinality(Span(range, RangesOf(i)))
                    /\ block_unselected_remaining[i] = Cardinality(Span(range, FreeOf(i)))

\* A range that was given to somebody is not longer than what is asked for.
SmallSelected ==
  \A r \in Ranges : ~Free(r) => \A u \in Uploaders : r - range[r].begin <= range_size[u]

RemainInv == ChoiceInv /\ Remains /\ SmallSelected

\* The bytes of different ranges.
LEMMA SpanApart ==
  ASSUME RangesInv, NEW S \in SUBSET Ranges, NEW T \in SUBSET Ranges, S \cap T = {}
  PROVE  /\ Span(range, S \cup T) = Span(range, S) \cup Span(range, T)
         /\ Span(range, S) \cap Span(range, T) = {}
         /\ Cardinality(Span(range, S \cup T)) = Cardinality(Span(range, S)) + Cardinality(Span(range, T))
<1>1. Span(range, S \cup T) = Span(range, S) \cup Span(range, T)
  BY DEF Span
<1>2. \A q, r \in Ranges : q # r =>
        (range[q].begin .. q - 1) \cap (range[r].begin .. r - 1) = {}
  <2> SUFFICES ASSUME NEW q \in Ranges, NEW r \in Ranges, q # r
               PROVE  (range[q].begin .. q - 1) \cap (range[r].begin .. r - 1) = {}
    OBVIOUS
  <2>1. q \in Int /\ r \in Int /\ range[q].begin \in Int /\ range[r].begin \in Int
    BY RangeFacts DEF RangesInv
  <2>2. q <= range[r].begin \/ r <= range[q].begin
    BY <2>1, SplitInvariant DEF RangesInv, Ordered
  <2> QED BY <2>1, <2>2
<1>3. Span(range, S) \cap Span(range, T) = {}
  <2> SUFFICES ASSUME NEW x \in Span(range, S), x \in Span(range, T) PROVE FALSE
    OBVIOUS
  <2>1. PICK q \in S : x \in range[q].begin .. q - 1
    BY DEF Span
  <2>2. PICK r \in T : x \in range[r].begin .. r - 1
    BY DEF Span
  <2>3. q # r /\ q \in Ranges /\ r \in Ranges
    OBVIOUS
  <2> QED BY <1>2, <2>1, <2>2, <2>3
<1>4. IsFiniteSet(Span(range, S)) /\ IsFiniteSet(Span(range, T))
  BY LengthSum
<1> QED BY <1>1, <1>3, <1>4, DisjointUnion

LEMMA RemainsIsRight ==
  ASSUME RangesInv
  PROVE  Remains <=> RemainingIsRight
<1>1. ASSUME NEW i \in Blocks
      PROVE  /\ SumFunctionOnSet(Length, RangesOf(i)) = Cardinality(Span(range, RangesOf(i)))
             /\ SumFunctionOnSet(Length, FreeOf(i)) = Cardinality(Span(range, FreeOf(i)))
  <2>1. RangesOf(i) \in SUBSET Ranges /\ FreeOf(i) \in SUBSET Ranges
    BY DEF RangesOf, FreeOf
  <2> QED BY <2>1, LengthSum
<1> QED BY <1>1 DEF Remains, RemainingIsRight, FreeOf

\* The ranges and the free ranges of a block in the next state.
NextOf(i) == {r \in Ranges' : Block(r) = i}
NextFree(i) == {r \in Ranges' : Block(r) = i /\ range'[r].nuploading = 0}

LEMMA NextRemains ==
  ASSUME \A i \in Blocks :
           /\ block_remaining'[i] = Cardinality(Span(range', NextOf(i)))
           /\ block_unselected_remaining'[i] = Cardinality(Span(range', NextFree(i)))
  PROVE  Remains'
<1>1. \A i \in Blocks : RangesOf(i)' = NextOf(i) /\ FreeOf(i)' = NextFree(i)
  BY DEF RangesOf, FreeOf, Free, NextOf, NextFree, Block
<1>2. \A i \in Blocks : /\ Span(range, RangesOf(i))' = Span(range', NextOf(i))
                        /\ Span(range, FreeOf(i))' = Span(range', NextFree(i))
  BY <1>1 DEF Span
<1> QED BY <1>2 DEF Remains, Blocks

LEMMA SameSpan ==
  ASSUME NEW f, NEW g, NEW S, \A r \in S : f[r].begin = g[r].begin
  PROVE  Span(f, S) = Span(g, S)
BY DEF Span

\* A block whose ranges stay where they are, free or not as before.
LEMMA SameBlock ==
  ASSUME NEW i \in Blocks, NextOf(i) = RangesOf(i),
         \A r \in RangesOf(i) : /\ range'[r].begin = range[r].begin
                                /\ range'[r].nuploading = 0 <=> Free(r)
  PROVE  /\ Span(range', NextOf(i)) = Span(range, RangesOf(i))
         /\ Span(range', NextFree(i)) = Span(range, FreeOf(i))
<1>1. NextFree(i) = FreeOf(i)
  BY DEF NextFree, NextOf, FreeOf
<1>2. \A r \in FreeOf(i) : range'[r].begin = range[r].begin
  BY DEF FreeOf
<1> QED BY <1>1, <1>2, SameSpan

LEMMA SameRemains ==
  ASSUME Remains, SmallSelected,
         UNCHANGED <<range, block_remaining, block_unselected_remaining>>
  PROVE  Remains' /\ SmallSelected'
<1>1. Ranges' = Ranges
  BY DEF Ranges
<1>2. SmallSelected'
  BY <1>1 DEF SmallSelected, Free
<1>3. \A i \in Blocks : NextOf(i) = RangesOf(i) /\ NextFree(i) = FreeOf(i)
  BY <1>1 DEF NextOf, NextFree, RangesOf, FreeOf, Free
<1>4. Remains'
  BY <1>3, NextRemains DEF Remains
<1> QED BY <1>2, <1>4

LEMMA ClearRemains ==
  ASSUME RemainInv, NEW u \in Uploaders, clear_uploader_ranges(u), UNCHANGED block_remaining
  PROVE  Remains' /\ SmallSelected'
<1>1. RangesInv /\ HoldersCounted /\ ListsOK
  BY DEF RemainInv, ChoiceInv, RangesInv
<1>2. /\ Ranges' = Ranges
      /\ \A r \in Ranges :
           /\ range'[r].begin = range[r].begin
           /\ range'[r].nuploading =
                IF r \in up_ranges[u] THEN range[r].nuploading - 1 ELSE range[r].nuploading
  BY <1>1, ClearEffect
<1>3. \A r \in Ranges : range[r].nuploading \in Nat /\ (r \in up_ranges[u] => ~Free(r))
  BY <1>1, RangeFacts, HeldIsNotFree
<1>4. SmallSelected'
  <2>1. \A r \in Ranges : range'[r].nuploading # 0 => ~Free(r)
    BY <1>2, <1>3 DEF Free
  <2> QED BY <1>2, <2>1 DEF RemainInv, SmallSelected, Free
<1>5. ASSUME NEW i \in Blocks
      PROVE  /\ block_remaining'[i] = Cardinality(Span(range', NextOf(i)))
             /\ block_unselected_remaining'[i] = Cardinality(Span(range', NextFree(i)))
  <2> DEFINE L == {r \in up_ranges[u] \cap RangesOf(i) : range[r].nuploading <= 1}
  <2>1. NextOf(i) = RangesOf(i) /\ \A r \in RangesOf(i) : r \in Ranges
    BY <1>2 DEF NextOf, RangesOf
  <2>2. NextFree(i) = FreeOf(i) \cup L /\ FreeOf(i) \cap L = {}
    <3>1. \A r \in Ranges : range'[r].nuploading = 0 <=>
            Free(r) \/ (r \in up_ranges[u] /\ range[r].nuploading <= 1)
      BY <1>2, <1>3 DEF Free
    <3>2. NextFree(i) = {r \in Ranges : Block(r) = i /\ range'[r].nuploading = 0}
      BY <1>2 DEF NextFree
    <3> QED BY <1>3, <3>1, <3>2 DEF FreeOf, RangesOf
  <2>3. L \in SUBSET Ranges /\ FreeOf(i) \in SUBSET Ranges
    BY DEF FreeOf, RangesOf
  <2>4. block_unselected_remaining'[i] = block_unselected_remaining[i] + SumFunctionOnSet(Length, L)
    BY DEF clear_uploader_ranges
  <2> HIDE DEF L
  <2>5. Span(range', NextOf(i)) = Span(range, RangesOf(i))
    BY <1>2, <2>1, SameSpan
  <2>6. Span(range', NextFree(i)) = Span(range, FreeOf(i) \cup L)
    BY <1>2, <2>2, <2>3, SameSpan
  <2>7. Cardinality(Span(range, FreeOf(i) \cup L)) =
          Cardinality(Span(range, FreeOf(i))) + Cardinality(Span(range, L))
    BY <1>1, <2>2, <2>3, SpanApart
  <2>8. SumFunctionOnSet(Length, L) = Cardinality(Span(range, L))
    BY <1>1, <2>3, LengthSum
  <2> QED BY <2>4, <2>5, <2>6, <2>7, <2>8 DEF RemainInv, Remains
<1>6. Remains'
  BY <1>5, NextRemains
<1> QED BY <1>4, <1>6

LEMMA NewBlocksRemain ==
  ASSUME RemainInv, NEW E \in SUBSET Blocks, \A i \in E : s_blocks[i] = "Empty", NewBlocks(E)
  PROVE  Remains' /\ SmallSelected'
<1>1. RangesInv
  BY DEF RemainInv, ChoiceInv
<1>2. /\ Ranges' = Ranges \cup {End(i) : i \in E}
      /\ \A r \in Ranges : range'[r] = range[r]
      /\ \A i \in E : /\ End(i) \notin Ranges
                      /\ range'[End(i)].begin = Begin(i) /\ range'[End(i)].nuploading = 0
      /\ \A i \in E : RangesOf(i) = {}
  BY <1>1, NewBlocksEffect
<1>3. \A i \in Blocks : Block(End(i)) = i /\ Begin(i) \in Nat /\ End(i) \in Int /\ Begin(i) < End(i)
  BY BlockOfBlock, SizesAssumption
<1>4. SmallSelected'
  <2>1. \A r \in Ranges' : range'[r].nuploading # 0 => r \in Ranges
    BY <1>2
  <2> QED BY <1>2, <2>1 DEF RemainInv, SmallSelected, Free
<1>5. ASSUME NEW i \in E
      PROVE  /\ block_remaining'[i] = Cardinality(Span(range', NextOf(i)))
             /\ block_unselected_remaining'[i] = Cardinality(Span(range', NextFree(i)))
  <2>1. NextOf(i) = {End(i)} /\ NextFree(i) = {End(i)}
    BY <1>2, <1>3 DEF NextOf, NextFree, RangesOf
  <2>2. Span(range', {End(i)}) = Begin(i) .. End(i) - 1
    BY <1>2 DEF Span
  <2>3. Cardinality(Begin(i) .. End(i) - 1) = End(i) - Begin(i)
    <3>1. Begin(i) \in Int /\ End(i) - 1 \in Int /\ Begin(i) < End(i)
      BY <1>3
    <3>2. Cardinality(Begin(i) .. End(i) - 1) =
            IF Begin(i) > End(i) - 1 THEN 0 ELSE End(i) - 1 - Begin(i) + 1
      BY <3>1, FS_Interval
    <3> QED BY <1>3, <3>1, <3>2
  <2>4. block_remaining'[i] = BlockSize[i] /\ block_unselected_remaining'[i] = BlockSize[i]
    BY DEF NewBlocks
  <2> QED BY <2>1, <2>2, <2>3, <2>4 DEF BlockSize
<1>6. ASSUME NEW i \in Blocks, i \notin E
      PROVE  /\ block_remaining'[i] = Cardinality(Span(range', NextOf(i)))
             /\ block_unselected_remaining'[i] = Cardinality(Span(range', NextFree(i)))
  <2>1. NextOf(i) = RangesOf(i)
    BY <1>2, <1>3, <1>6 DEF NextOf, RangesOf
  <2>2. \A r \in RangesOf(i) : /\ range'[r].begin = range[r].begin
                               /\ range'[r].nuploading = 0 <=> Free(r)
    BY <1>2 DEF RangesOf, Free
  <2>3. /\ Span(range', NextOf(i)) = Span(range, RangesOf(i))
        /\ Span(range', NextFree(i)) = Span(range, FreeOf(i))
    BY <2>1, <2>2, SameBlock
  <2>4. /\ block_remaining'[i] = block_remaining[i]
        /\ block_unselected_remaining'[i] = block_unselected_remaining[i]
    BY <1>6 DEF NewBlocks
  <2> QED BY <2>3, <2>4 DEF RemainInv, Remains
<1>7. Remains'
  BY <1>5, <1>6, NextRemains
<1> QED BY <1>4, <1>7

LEMMA CompleteRemains ==
  ASSUME RemainInv, NEW i \in Blocks, CompleteBlock(i)
  PROVE  Remains' /\ SmallSelected'
<1>1. RangesInv /\ ListsOK
  BY DEF RemainInv, ChoiceInv, RangesInv
<1>2. range' = [r \in Ranges \ RangesOf(i) |-> range[r]] /\ Ranges' = Ranges \ RangesOf(i)
  BY DEF CompleteBlock, Ranges
<1>3. SmallSelected'
  BY <1>2 DEF RemainInv, SmallSelected, Free
<1>4. ASSUME NEW j \in Blocks, j # i
      PROVE  /\ block_remaining'[j] = Cardinality(Span(range', NextOf(j)))
             /\ block_unselected_remaining'[j] = Cardinality(Span(range', NextFree(j)))
  <2>1. NextOf(j) = RangesOf(j)
    BY <1>2, <1>4 DEF NextOf, RangesOf
  <2>2. \A r \in RangesOf(j) : /\ range'[r].begin = range[r].begin
                               /\ range'[r].nuploading = 0 <=> Free(r)
    BY <1>2, <1>4 DEF RangesOf, Free
  <2>3. /\ Span(range', NextOf(j)) = Span(range, RangesOf(j))
        /\ Span(range', NextFree(j)) = Span(range, FreeOf(j))
    BY <2>1, <2>2, SameBlock
  <2>4. /\ block_remaining'[j] = block_remaining[j]
        /\ block_unselected_remaining'[j] = block_unselected_remaining[j]
    BY <1>1, <1>4 DEF CompleteBlock, ListsOK
  <2> QED BY <2>3, <2>4 DEF RemainInv, Remains
<1>5. /\ block_remaining'[i] = Cardinality(Span(range', NextOf(i)))
      /\ block_unselected_remaining'[i] = Cardinality(Span(range', NextFree(i)))
  <2>1. NextOf(i) = {} /\ NextFree(i) = {}
    BY <1>2 DEF NextOf, NextFree, RangesOf
  <2>2. Cardinality(Span(range', {})) = 0
    <3>1. Span(range', {}) = {}
      BY DEF Span
    <3> QED BY <3>1, FS_EmptySet
  <2>3. RangesOf(i) \in SUBSET Ranges /\ FreeOf(i) \in SUBSET Ranges
    BY DEF RangesOf, FreeOf
  <2>4. /\ SumFunctionOnSet(Length, RangesOf(i)) = block_remaining[i]
        /\ SumFunctionOnSet(Length, FreeOf(i)) = block_unselected_remaining[i]
    BY <1>1, <2>3, LengthSum DEF RemainInv, Remains
  <2>5. /\ block_remaining'[i] = block_remaining[i] - SumFunctionOnSet(Length, RangesOf(i))
        /\ block_unselected_remaining'[i] =
             block_unselected_remaining[i] - SumFunctionOnSet(Length, FreeOf(i))
    BY <1>1 DEF CompleteBlock, ListsOK, FreeOf
  <2>6. block_remaining[i] \in Int /\ block_unselected_remaining[i] \in Int
    BY <1>1 DEF ListsOK
  <2> QED BY <2>1, <2>2, <2>4, <2>5, <2>6
<1>6. Remains'
  BY <1>4, <1>5, NextRemains
<1> QED BY <1>3, <1>6

LEMMA ReceivedRemains ==
  ASSUME RemainInv, NEW u \in Uploaders, NEW hi \in 1 .. s_size, NEW lo \in 0 .. hi - 1,
         Received(u, lo, hi)
  PROVE  Remains' /\ SmallSelected'
<1>1. PICK hit, to, gained, closed : GainEffects(u, hit, to, gained, closed)
  BY ReceivedEffect DEF RemainInv, ChoiceInv
<1>2. RangesInv /\ ListsOK /\ HoldersCounted
  BY DEF RemainInv, ChoiceInv, RangesInv
<1>3. /\ hit \subseteq up_ranges[u] /\ hit \subseteq Ranges /\ closed = {r \in hit : to[r] = r}
      /\ \A r \in hit : to[r] \in Int /\ range[r].begin < to[r] /\ to[r] <= r
      /\ Ranges' = Ranges \ closed
      /\ \A r \in Ranges \ closed :
           /\ range'[r].begin = IF r \in hit THEN to[r] ELSE range[r].begin
           /\ range'[r].nuploading = range[r].nuploading
  BY <1>1 DEF GainEffects
<1>4. \A r \in Ranges : /\ r \in Int /\ range[r].begin \in Int /\ range[r].begin < r
                        /\ \A q \in Ranges : q < r => q <= range[r].begin
  BY <1>2, RangeFacts, SplitInvariant DEF RangesInv, Ordered
<1>5. \A r \in hit : ~Free(r)
  BY <1>2, <1>3, HeldIsNotFree
<1>6. SmallSelected'
  <2> SUFFICES ASSUME NEW r \in Ranges', range'[r].nuploading # 0, NEW v \in Uploaders
               PROVE  r - range'[r].begin <= range_size[v]
    BY DEF SmallSelected, Free
  <2>1. r - range[r].begin <= range_size[v] /\ r \in Ranges
    BY <1>3 DEF RemainInv, SmallSelected, Free
  <2>2. range[r].begin <= range'[r].begin /\ range'[r].begin \in Int
    BY <1>3, <1>4
  <2>3. range_size[v] \in Int /\ r \in Int /\ range[r].begin \in Int
    BY <1>4, <2>1, SizesAssumption
  <2> QED BY <2>1, <2>2, <2>3
<1>7. ASSUME NEW i \in Blocks
      PROVE  /\ block_remaining'[i] = Cardinality(Span(range', NextOf(i)))
             /\ block_unselected_remaining'[i] = Cardinality(Span(range', NextFree(i)))
  <2> DEFINE H == hit \cap RangesOf(i)
             G == Gains(to, H)
             N == Span(range', NextOf(i))
             O == Span(range, RangesOf(i))
  <2>1. RangesOf(i) \subseteq Ranges /\ NextOf(i) = RangesOf(i) \ closed
    BY <1>3 DEF NextOf, RangesOf
  <2>2. O = N \cup G
    <3>1. ASSUME NEW x \in O PROVE x \in N \cup G
      <4>1. PICK r \in RangesOf(i) : x \in range[r].begin .. r - 1
        BY DEF Span
      <4>2. CASE r \in hit /\ x < to[r]
        <5>1. x \in range[r].begin .. to[r] - 1 /\ r \in H
          BY <1>3, <1>4, <2>1, <4>1, <4>2
        <5> QED BY <5>1 DEF Gains
      <4>3. CASE ~(r \in hit /\ x < to[r])
        <5>1. r \in NextOf(i) /\ x \in range'[r].begin .. r - 1
          BY <1>3, <1>4, <2>1, <4>1, <4>3
        <5> QED BY <5>1 DEF Span
      <4> QED BY <4>2, <4>3
    <3>2. ASSUME NEW x \in N PROVE x \in O
      <4>1. PICK r \in NextOf(i) : x \in range'[r].begin .. r - 1
        BY DEF Span
      <4>2. r \in RangesOf(i) /\ x \in range[r].begin .. r - 1
        BY <1>3, <1>4, <2>1, <4>1
      <4> QED BY <4>2 DEF Span
    <3>3. ASSUME NEW x \in G PROVE x \in O
      <4>1. PICK r \in H : x \in range[r].begin .. to[r] - 1
        BY DEF Gains
      <4>2. r \in RangesOf(i) /\ x \in range[r].begin .. r - 1
        BY <1>3, <1>4, <2>1, <4>1
      <4> QED BY <4>2 DEF Span
    <3> HIDE DEF O, N, G
    <3> QED BY <3>1, <3>2, <3>3
  <2>3. N \cap G = {}
    <3> SUFFICES ASSUME NEW x \in N, x \in G PROVE FALSE
      OBVIOUS
    <3>1. PICK q \in NextOf(i) : x \in range'[q].begin .. q - 1
      BY DEF Span
    <3>2. PICK r \in H : x \in range[r].begin .. to[r] - 1
      BY DEF Gains
    <3>3. q \in Ranges /\ q \notin closed /\ r \in Ranges /\ r \in hit
      BY <1>3, <2>1
    <3>4. x \in Int /\ range[q].begin <= x /\ x < q /\ range[r].begin <= x /\ x < r /\ x < to[r]
      BY <1>3, <1>4, <3>1, <3>2, <3>3
    <3>5. q = r
      BY <1>4, <3>3, <3>4
    <3> QED BY <1>3, <3>1, <3>3, <3>4, <3>5
  <2>4. /\ SumFunctionOnSet(gained, H) = Cardinality(G) /\ IsFiniteSet(G)
    <3>1. H \in SUBSET hit
      OBVIOUS
    <3> HIDE DEF H
    <3> QED BY <1>1, <1>2, <3>1, GainedSum
  <2>5. IsFiniteSet(O)
    BY <1>2, <2>1, LengthSum
  <2>6. block_remaining'[i] = block_remaining[i] - SumFunctionOnSet(gained, H)
    BY <1>1 DEF GainEffects
  <2>7. block_remaining'[i] = Cardinality(N)
    <3>1. block_remaining[i] = Cardinality(O)
      BY DEF RemainInv, Remains
    <3> HIDE DEF N, O, G, H
    <3>2. IsFiniteSet(N)
      BY <2>2, <2>5, FS_Subset
    <3>3. Cardinality(O) = Cardinality(N) + Cardinality(G) /\ Cardinality(N) \in Nat
            /\ Cardinality(G) \in Nat
      BY <2>2, <2>3, <2>4, <3>2, DisjointUnion, FS_CardinalityType
    <3> QED BY <2>4, <2>6, <3>1, <3>3
  <2>8. block_unselected_remaining'[i] = block_unselected_remaining[i]
    <3> DEFINE F == {r \in hit \cap RangesOf(i) : Free(r)}
    <3>1. F = {}
      BY <1>5
    <3>2. SumFunctionOnSet(gained, {}) = Cardinality(Gains(to, {}))
      <4>1. {} \in SUBSET hit
        OBVIOUS
      <4> QED BY <1>1, <1>2, <4>1, GainedSum
    <3>3. Gains(to, {}) = {}
      BY DEF Gains
    <3>4. SumFunctionOnSet(gained, {}) = 0
      BY <3>2, <3>3, FS_EmptySet
    <3>5. block_unselected_remaining'[i] =
            block_unselected_remaining[i] - SumFunctionOnSet(gained, F)
      BY <1>1 DEF GainEffects
    <3> HIDE DEF F
    <3> QED BY <1>2, <3>1, <3>4, <3>5 DEF ListsOK
  <2>9. Span(range', NextFree(i)) = Span(range, FreeOf(i))
    <3>1. NextFree(i) = FreeOf(i)
      BY <1>3, <1>5 DEF NextFree, FreeOf, RangesOf, Free
    <3>2. \A r \in FreeOf(i) : range'[r].begin = range[r].begin
      BY <1>3, <1>5 DEF FreeOf, RangesOf
    <3> QED BY <3>1, <3>2, SameSpan
  <2> QED BY <2>7, <2>8, <2>9 DEF RemainInv, Remains
<1>8. Remains'
  BY <1>7, NextRemains
<1> QED BY <1>6, <1>8

\* What is merged has no gaps.
LEMMA ClusterSpan ==
  ASSUME RangesInv, NEW u \in Uploaders, NEW r \in Ranges, NEW e, NEW end, NEW C,
         TakeEffects(u, r, e, end, C)
  PROVE  Span(range, C) = range[r].begin .. end - 1
<1>1. /\ end \in Ranges /\ end \in C /\ r <= end /\ r \in C
      /\ \A q \in C : q \in Ranges /\ r <= q /\ q <= end
      /\ \A q \in C : q # r => range[q].begin \in Ranges
      /\ \A q \in Ranges : range[r].begin < q /\ q <= end => q \in C
  BY DEF TakeEffects
<1>2. \A q \in Ranges : /\ q \in Nat /\ range[q].begin \in Int /\ range[q].begin < q
                        /\ \A p \in Ranges : p < q => p <= range[q].begin
  BY RangeFacts, SplitInvariant, SizesAssumption DEF RangesInv, Ordered
<1>3. ASSUME NEW x \in Span(range, C) PROVE x \in range[r].begin .. end - 1
  <2>1. PICK q \in C : x \in range[q].begin .. q - 1
    BY DEF Span
  <2>2. range[r].begin <= range[q].begin
    <3>1. q = r \/ r < q
      BY <1>1, <1>2
    <3> QED BY <1>1, <1>2, <3>1
  <2> QED BY <1>1, <1>2, <2>1, <2>2
<1>4. ASSUME NEW x \in range[r].begin .. end - 1 PROVE x \in Span(range, C)
  <2> DEFINE T == {q \in C : x < q}
  <2>1. T \subseteq Nat /\ T # {}
    BY <1>1, <1>2, <1>4
  <2> HIDE DEF T
  <2>2. PICK q \in T : \A p \in T : q <= p
    BY <2>1, LeastOf
  <2>3. q \in C /\ x < q /\ q \in Ranges /\ \A p \in C : x < p => q <= p
    BY <1>1, <2>2 DEF T
  <2>4. range[q].begin <= x
    <3>1. CASE q = r
      BY <1>2, <1>4, <3>1
    <3>2. CASE q # r
      <4> DEFINE b == range[q].begin
      <4>1. b \in Ranges /\ r < q /\ q <= end
        BY <1>1, <1>2, <2>3, <3>2
      <4>2. r <= b /\ b < q
        BY <1>2, <2>3, <4>1
      <4>3. range[r].begin < b /\ b <= end
        <5>1. r \in Int /\ range[r].begin \in Int /\ range[r].begin < r /\ end \in Int
          BY <1>1, <1>2
        <5>2. q \in Int /\ b \in Int
          BY <1>2, <2>3
        <5> HIDE DEF b
        <5> QED BY <4>1, <4>2, <5>1, <5>2
      <4>4. b \in C
        BY <1>1, <4>1, <4>3
      <4> QED BY <1>2, <1>4, <2>3, <4>1, <4>2, <4>4
    <3> QED BY <3>1, <3>2
  <2>5. x \in range[q].begin .. q - 1
    BY <1>2, <1>4, <2>3, <2>4
  <2> QED BY <2>3, <2>5 DEF Span
<1> DEFINE A == Span(range, C)
           B == range[r].begin .. end - 1
<1>5. (\A x \in A : x \in B) /\ (\A x \in B : x \in A)
  BY <1>3, <1>4
<1> HIDE DEF A, B
<1>6. A = B
  BY <1>5
<1> QED BY <1>6 DEF A, B

\* A range that is shared is neither merged nor split: nothing better was found,
\* and it is short enough.
LEMMA SharedIsWhole ==
  ASSUME RangesInv, SmallSelected, NEW u \in Uploaders, NEW best \in Correct(u), Best(u, best),
         NEW r \in Ranges, r = best.range, ~Free(r), up_blocks[u] # <<>>
  PROVE  Cluster(r, u) = {} /\ EndOf(r, u) = r /\ CutEnd(r, u) = r
<1>1. /\ best.place \in DOMAIN up_blocks[u] /\ up_blocks[u][best.place] = [num |-> Block(r), live |-> TRUE]
  BY DEF Correct
<1>2. \A q \in Ranges : range[q].nuploading \in Nat /\ q \in 1 .. s_size /\ q \in Int
  BY RangeFacts DEF RangesInv
<1>3. ASSUME NEW q \in Cluster(r, u) PROVE FALSE
  <2>1. q \in Ranges /\ Block(q) = Block(r) /\ q \notin up_ranges[u] /\ Free(q)
    BY <1>2, <1>3 DEF Cluster, RangesOf, Mergeable
  <2> DEFINE d == [place |-> best.place, range |-> q]
  <2>2. d \in Correct(u)
    BY <1>1, <2>1 DEF Correct
  <2>3. range[best.range].nuploading <= range[d.range].nuploading
    BY <2>2 DEF Best
  <2> QED BY <1>2, <2>1, <2>3 DEF Free
<1>4. Cluster(r, u) = {}
  BY <1>3
<1>5. EndOf(r, u) = r
  <2>1. EndOf(r, u) \in Cluster(r, u) \cup {r}
    BY ClusterFacts
  <2> QED BY <1>4, <2>1
<1>6. CutEnd(r, u) = r
  <2> DEFINE L == Last(up_blocks[u]).num
             b == range[r].begin
  <2>1. L \in Blocks
    <3>1. Last(up_blocks[u]) \in [num : Blocks, live : BOOLEAN]
      BY LastOf DEF RangesInv, ListsOK
    <3> QED BY <3>1
  <2>2. b \in Int /\ r \in Int /\ range_size[u] \in Int /\ b + range_size[u] \in Int /\ b < r
    BY RangeFacts, SplitInvariant, SizesAssumption DEF RangesInv, Ordered
  <2>3. /\ L \in Nat /\ End(L) \in 1 .. s_size /\ Block(End(L)) = L /\ End(L) \in Int
    BY <2>1, BlockOfBlock
  <2>4. CutAt(r, u) = IF b + range_size[u] <= End(L) THEN b + range_size[u] ELSE End(L)
    BY <2>2, <2>3, MinOf DEF CutAt
  <2>5. r <= b + range_size[u]
    BY <2>2 DEF SmallSelected
  <2>6. End(L) <= b \/ r <= End(L)
    <3>1. r \in 1 .. s_size /\ Begin(Block(r)) <= b /\ Begin(Block(r)) \in Int
      BY <1>2, BlockBounds, SplitInvariant DEF RangesInv, Ordered
    <3>2. CASE L # Block(r)
      <4>1. End(L) < r => End(L) <= Begin(Block(r))
        BY <2>3, <3>1, <3>2, Apart
      <4> QED BY <2>2, <2>3, <3>1, <4>1
    <3>3. CASE L = Block(r)
      BY <3>1, <3>3, BlockInBlocks
    <3> QED BY <3>2, <3>3
  <2> HIDE DEF L, b
  <2>7. ~(b < CutAt(r, u) /\ CutAt(r, u) < r)
    BY <2>2, <2>3, <2>4, <2>5, <2>6
  <2> QED BY <1>5, <2>7 DEF CutEnd, b
<1> QED BY <1>4, <1>5, <1>6

\* A range that is taken first is cut to what is asked for.
LEMMA FirstIsSmall ==
  ASSUME RangesInv, NEW u \in Uploaders, NEW r \in Ranges, Free(r), up_blocks[u] # <<>>
  PROVE  CutEnd(r, u) - range[r].begin <= range_size[u]
<1> DEFINE b == range[r].begin
           end == EndOf(r, u)
           i == Block(r)
<1>1. b \in Int /\ range_size[u] \in Int /\ range_size[u] > 0 /\ b + range_size[u] \in Int
        /\ b < r /\ r \in 1 .. s_size
  BY RangeFacts, SplitInvariant, SizesAssumption DEF RangesInv, Ordered
<1>2. end \in 1 .. s_size /\ Block(end) = i /\ end \in Int /\ r <= end
  BY ClusterFacts, RangeFacts DEF RangesInv, RangesOf
<1>3. i \in Nat /\ End(i) \in Int /\ end <= End(i)
  BY <1>1, <1>2, BlockBounds, BeginType, BlockInBlocks
<1>4. CutAt(r, u) = IF b + range_size[u] <= End(i) THEN b + range_size[u] ELSE End(i)
  BY <1>1, <1>3, MinOf DEF CutAt
<1>5. CutEnd(r, u) = IF b < CutAt(r, u) /\ CutAt(r, u) < end THEN CutAt(r, u) ELSE end
  BY DEF CutEnd
<1> HIDE DEF b, end, i
<1>6. r \in Int
  BY <1>1, SizesAssumption
<1>7. CutEnd(r, u) - b <= range_size[u]
  BY <1>1, <1>2, <1>3, <1>4, <1>5, <1>6
<1> QED BY <1>7 DEF b

LEMMA FindRangeRemains ==
  ASSUME SameSize, RemainInv, NEW u \in Uploaders, FindRange(u)
  PROVE  Remains' /\ SmallSelected'
<1>1. /\ RangesInv /\ ListsOK /\ Remains /\ SmallSelected
      /\ UNCHANGED block_remaining
  BY DEF RemainInv, ChoiceInv, RangesInv, FindRange
<1>2. PICK best \in Correct(u) :
        /\ Best(u, best) /\ best.range \in Ranges /\ best.range \notin up_ranges[u]
        /\ up_blocks[u] # <<>> /\ Takes(u, best.range)
  BY FindRangeTakes
<1> DEFINE r == best.range
           e == CutEnd(r, u)
           end == EndOf(r, u)
           C == Cluster(r, u) \cup {r}
           b == range[r].begin
           i == Block(r)
<1>3. TakeEffects(u, r, e, end, C)
  BY <1>1, <1>2, TakeEffect
<1>4. block_unselected_remaining' = [block_unselected_remaining EXCEPT ![i] =
        IF Free(r) THEN @ - (e - b) ELSE @]
  BY <1>2 DEF Takes
<1>5. ~Free(r) => e = r /\ end = r /\ C = {r}
  BY <1>1, <1>2, SharedIsWhole
<1>6. Free(r) => e - b <= range_size[u]
  BY <1>1, <1>2, FirstIsSmall
<1>7. r \in Ranges
  BY <1>2
<1> HIDE DEF r, e, end, C
<1>8. Span(range, C) = b .. end - 1
  BY <1>1, <1>3, <1>7, ClusterSpan
<1>9. /\ e \in 1 .. s_size /\ b < e /\ e <= end /\ Block(e) = i
      /\ end \in Ranges /\ end \in C /\ r \in C
      /\ \A q \in C : q \in Ranges /\ Block(q) = i /\ (q # r => Free(q))
      /\ Ranges' = (Ranges \ C) \cup {e, end}
      /\ range'[e].begin = b /\ range'[e].nuploading = range[r].nuploading + 1
      /\ e # end => range'[end].begin = e /\ range'[end].nuploading = 0
      /\ \A q \in Ranges \ C : q # e /\ q # end /\ range'[q] = range[q]
  BY <1>3 DEF TakeEffects
<1>10. \A q \in Ranges : /\ q \in Int /\ range[q].begin \in Int /\ range[q].nuploading \in Nat
                         /\ q \in 1 .. s_size
  BY <1>1, RangeFacts
<1>11. e \in Int /\ end \in Int /\ b \in Int /\ i \in Blocks /\ range[r].nuploading \in Nat
  BY <1>7, <1>9, <1>10, BlockInBlocks
<1> HIDE DEF b, i
<1>12. SmallSelected'
  <2> SUFFICES ASSUME NEW q \in Ranges', range'[q].nuploading # 0, NEW v \in Uploaders
               PROVE  q - range'[q].begin <= range_size[v]
    BY DEF SmallSelected, Free
  <2>1. CASE q = e
    <3>1. CASE Free(r)
      BY <1>6, <1>9, <2>1, <3>1 DEF SameSize
    <3>2. CASE ~Free(r)
      <4>1. r - range[r].begin <= range_size[v]
        BY <1>1, <1>7, <3>2 DEF SmallSelected
      <4> QED BY <1>5, <1>9, <2>1, <3>2, <4>1 DEF b
    <3> QED BY <3>1, <3>2
  <2>2. CASE q \in Ranges \ C
    BY <1>1, <1>9, <2>2 DEF SmallSelected, Free
  <2> QED BY <1>9, <2>1, <2>2
<1>13. \A j \in Blocks : j # i =>
         /\ block_remaining'[j] = Cardinality(Span(range', NextOf(j)))
         /\ block_unselected_remaining'[j] = Cardinality(Span(range', NextFree(j)))
  <2> SUFFICES ASSUME NEW j \in Blocks, j # i
               PROVE  /\ block_remaining'[j] = Cardinality(Span(range', NextOf(j)))
                      /\ block_unselected_remaining'[j] = Cardinality(Span(range', NextFree(j)))
    OBVIOUS
  <2>1. NextOf(j) = RangesOf(j)
    BY <1>9 DEF NextOf, RangesOf
  <2>2. \A q \in RangesOf(j) : /\ range'[q].begin = range[q].begin
                               /\ range'[q].nuploading = 0 <=> Free(q)
    BY <1>9 DEF RangesOf, Free
  <2>3. /\ Span(range', NextOf(j)) = Span(range, RangesOf(j))
        /\ Span(range', NextFree(j)) = Span(range, FreeOf(j))
    BY <2>1, <2>2, SameBlock
  <2>4. /\ block_remaining'[j] = block_remaining[j]
        /\ block_unselected_remaining'[j] = block_unselected_remaining[j]
    BY <1>1, <1>4 DEF ListsOK
  <2> QED BY <1>1, <2>3, <2>4 DEF Remains
<1> DEFINE Rest == RangesOf(i) \ C
<1>14. Rest \in SUBSET Ranges /\ C \in SUBSET Ranges /\ C \in SUBSET RangesOf(i)
  BY <1>9 DEF RangesOf
<1>15. Span(range', Rest) = Span(range, Rest)
  <2>1. \A q \in Rest : range'[q].begin = range[q].begin
    BY <1>9, <1>14
  <2> HIDE DEF Rest
  <2> QED BY <2>1, SameSpan
<1>16. Span(range', {e, end}) = b .. end - 1
  <2>1. Span(range', {e, end}) = (range'[e].begin .. e - 1) \cup (range'[end].begin .. end - 1)
    BY DEF Span
  <2>2. CASE e = end
    BY <1>9, <2>1, <2>2
  <2>3. CASE e # end
    <3>1. Span(range', {e, end}) = (b .. e - 1) \cup (e .. end - 1)
      BY <1>9, <2>1, <2>3
    <3>2. (b .. e - 1) \cup (e .. end - 1) = b .. end - 1
      BY <1>9, <1>11
    <3> QED BY <3>1, <3>2
  <2> QED BY <2>2, <2>3
<1>17. block_remaining'[i] = Cardinality(Span(range', NextOf(i)))
  <2>1. NextOf(i) = Rest \cup {e, end}
    BY <1>9 DEF NextOf, RangesOf
  <2>2. RangesOf(i) = Rest \cup C
    BY <1>14
  <2> HIDE DEF Rest
  <2>3. Span(range', Rest \cup {e, end}) = Span(range', Rest) \cup Span(range', {e, end})
    BY DEF Span
  <2>4. Span(range, Rest \cup C) = Span(range, Rest) \cup Span(range, C)
    BY DEF Span
  <2>5. Span(range', NextOf(i)) = Span(range, RangesOf(i))
    BY <1>8, <1>15, <1>16, <2>1, <2>2, <2>3, <2>4
  <2> QED BY <1>1, <1>11, <2>5 DEF Remains
<1>18. block_unselected_remaining'[i] = Cardinality(Span(range', NextFree(i)))
  <2>1. CASE ~Free(r)
    <3>1. e = r /\ end = r /\ C = {r} /\ Ranges' = Ranges
      BY <1>5, <1>7, <1>9, <2>1
    <3>2. NextOf(i) = RangesOf(i)
      BY <3>1 DEF NextOf, RangesOf
    <3>3. ASSUME NEW q \in RangesOf(i)
          PROVE  range'[q].begin = range[q].begin /\ (range'[q].nuploading = 0 <=> Free(q))
      <4>1. q \in Ranges
        BY DEF RangesOf
      <4>2. CASE q = r
        BY <1>9, <1>11, <2>1, <3>1, <4>2 DEF Free, b
      <4>3. CASE q # r
        BY <1>9, <3>1, <4>1, <4>3 DEF Free
      <4> QED BY <4>2, <4>3
    <3>4. Span(range', NextFree(i)) = Span(range, FreeOf(i))
      BY <1>11, <3>2, <3>3, SameBlock
    <3>5. block_unselected_remaining'[i] = block_unselected_remaining[i]
      BY <1>1, <1>4, <1>11, <2>1 DEF ListsOK
    <3> QED BY <1>1, <1>11, <3>4, <3>5 DEF Remains
  <2>2. CASE Free(r)
    <3> DEFINE F == FreeOf(i) \ C
               A == Span(range', NextFree(i))
               O == Span(range, FreeOf(i))
               T == b .. e - 1
    <3>1. FreeOf(i) = F \cup C /\ F \cap C = {} /\ F \in SUBSET Ranges /\ FreeOf(i) \in SUBSET Ranges
      BY <1>9, <1>14, <2>2 DEF FreeOf, RangesOf
    <3>2. NextFree(i) = F \cup (IF e = end THEN {} ELSE {end})
      <4>1. range'[e].nuploading # 0
        BY <1>9, <1>11
      <4>2. \A q \in Ranges' : q = e \/ (q = end /\ e # end) \/ q \in Ranges \ C
        BY <1>9
      <4>3. \A q \in Ranges \ C : range'[q].nuploading = 0 <=> Free(q)
        BY <1>9 DEF Free
      <4>4. F = {q \in Ranges \ C : Block(q) = i /\ Free(q)}
        BY DEF FreeOf, RangesOf
      <4> HIDE DEF F
      <4>5. \A q : q \in NextFree(i) <=> q \in Ranges' /\ Block(q) = i /\ range'[q].nuploading = 0
        BY DEF NextFree
      <4>6. \A q : q \in NextFree(i) <=> q \in F \/ (q = end /\ e # end)
        BY <1>9, <4>1, <4>2, <4>3, <4>4, <4>5
      <4> QED BY <4>6
    <3>3. O = Span(range, F) \cup (b .. end - 1) /\ Span(range, F) \cap (b .. end - 1) = {}
      <4> HIDE DEF F
      <4> QED BY <1>1, <1>8, <1>14, <3>1, SpanApart
    <3>4. Span(range', F) = Span(range, F)
      <4>1. \A q \in F : range'[q].begin = range[q].begin
        BY <1>9, <3>1
      <4> HIDE DEF F
      <4> QED BY <4>1, SameSpan
    <3>5. A = Span(range, F) \cup (e .. end - 1)
      <4> HIDE DEF F
      <4>1. CASE e = end
        <5>1. NextFree(i) = F /\ e .. end - 1 = {}
          BY <1>11, <3>2, <4>1
        <5> QED BY <3>4, <5>1
      <4>2. CASE e # end
        <5>1. NextFree(i) = F \cup {end}
          BY <3>2, <4>2
        <5>2. Span(range', F \cup {end}) = Span(range', F) \cup (range'[end].begin .. end - 1)
          BY DEF Span
        <5>3. range'[end].begin = e
          BY <1>9, <4>2
        <5> QED BY <3>4, <5>1, <5>2, <5>3
      <4> QED BY <4>1, <4>2
    <3>6. b .. end - 1 = T \cup (e .. end - 1) /\ T \cap (e .. end - 1) = {} /\ T \subseteq b .. end - 1
      BY <1>9, <1>11
    <3>7. O = A \cup T /\ A \cap T = {}
      <4> HIDE DEF O, A, T, F
      <4> QED BY <3>3, <3>5, <3>6
    <3>8. IsFiniteSet(O)
      BY <1>1, <3>1, LengthSum
    <3>9. IsFiniteSet(T) /\ Cardinality(T) = e - b
      <4>1. b \in Int /\ e - 1 \in Int
        BY <1>11
      <4>2. IsFiniteSet(b .. e - 1) /\ Cardinality(b .. e - 1) = IF b > e - 1 THEN 0 ELSE e - 1 - b + 1
        BY <4>1, FS_Interval
      <4> QED BY <1>9, <1>11, <4>2
    <3>10. block_unselected_remaining'[i] = block_unselected_remaining[i] - (e - b)
      BY <1>1, <1>4, <1>11, <2>2 DEF ListsOK
    <3>11. block_unselected_remaining[i] = Cardinality(O)
      BY <1>1, <1>11 DEF Remains
    <3> HIDE DEF A, O, T
    <3>12. IsFiniteSet(A)
      BY <3>7, <3>8, FS_Subset
    <3>13. Cardinality(O) = Cardinality(A) + Cardinality(T) /\ Cardinality(A) \in Nat
      BY <3>7, <3>9, <3>12, DisjointUnion, FS_CardinalityType
    <3>14. block_unselected_remaining'[i] = Cardinality(A)
      BY <1>11, <3>9, <3>10, <3>11, <3>13
    <3> QED BY <3>14 DEF A
  <2> QED BY <2>1, <2>2
<1>19. Remains'
  BY <1>13, <1>17, <1>18, NextRemains
<1> QED BY <1>12, <1>19

LEMMA RemainInit ==
  ASSUME Init
  PROVE  RemainInv
<1>1. Ranges = {}
  BY DEF Init, Ranges
<1>2. \A i \in Blocks : Span(range, RangesOf(i)) = {} /\ Span(range, FreeOf(i)) = {}
  BY <1>1 DEF Span, RangesOf, FreeOf
<1>3. Remains
  BY <1>2, FS_EmptySet DEF Remains, Init
<1> QED BY <1>1, <1>3, ChoiceInit DEF RemainInv, SmallSelected

LEMMA RemainStep ==
  ASSUME SameSize, RemainInv, [Next]_vars
  PROVE  RemainInv'
<1>1. Remains /\ SmallSelected /\ ChoiceInv
  BY DEF RemainInv
<1>2. ChoiceInv'
  BY <1>1, ChoiceStep
<1> SUFFICES Remains' /\ SmallSelected'
  BY <1>2 DEF RemainInv
<1>3. CASE \E u \in Uploaders : Uploader(u)
  <2>1. PICK u \in Uploaders : Uploader(u)
    BY <1>3
  <2>2. CASE \E B \in Bitmaps : SetIntervals(u, B)
    BY <1>1, <2>2, SameRemains DEF SetIntervals, blockVars
  <2>3. CASE ClearUploaderRanges(u)
    BY <2>3, ClearRemains DEF ClearUploaderRanges
  <2>4. CASE UnregisterUploader(u)
    BY <2>4, ClearRemains DEF UnregisterUploader
  <2>5. CASE FindBlocks(u)
    <3>1. PICK choice \in SelectBlocks(u) :
            NewBlocks({i \in {choice.blocks[k] : k \in DOMAIN choice.blocks} : s_blocks[i] = "Empty"})
      BY <2>5, Zenon DEF FindBlocks
    <3> DEFINE E == {i \in {choice.blocks[k] : k \in DOMAIN choice.blocks} : s_blocks[i] = "Empty"}
    <3>2. ListsOK /\ \A k \in DOMAIN choice.blocks : choice.blocks[k] \in Wanted(u)
      BY <1>1, ChoiceFacts DEF ChoiceInv, RangesInv
    <3>3. NewBlocks(E) /\ E \in SUBSET Blocks /\ \A i \in E : s_blocks[i] = "Empty"
      BY <3>1, <3>2 DEF Wanted, ListsOK
    <3> HIDE DEF E
    <3> QED BY <3>3, NewBlocksRemain
  <2>6. CASE FindNoBlock(u)
    BY <1>1, <2>6, SameRemains DEF FindNoBlock, blockVars
  <2>7. CASE FindRange(u)
    BY <2>7, FindRangeRemains
  <2>8. CASE \E hi \in 1 .. s_size : \E lo \in 0 .. hi - 1 : Received(u, lo, hi)
    BY <2>8, ReceivedRemains
  <2> QED BY <2>1, <2>2, <2>3, <2>4, <2>5, <2>6, <2>7, <2>8 DEF Uploader
<1>4. CASE \E i \in Blocks : CompleteBlock(i) \/ VerifyChunk(i)
  <2>1. PICK i \in Blocks : CompleteBlock(i) \/ VerifyChunk(i)
    BY <1>4
  <2>2. CASE CompleteBlock(i)
    BY <2>2, CompleteRemains
  <2>3. CASE VerifyChunk(i)
    BY <1>1, <2>3, SameRemains DEF VerifyChunk
  <2> QED BY <2>1, <2>2, <2>3
<1>5. CASE (\E a, b \in Blocks : SetPriority(a, b)) \/ UNCHANGED vars
  BY <1>1, <1>5, SameRemains DEF SetPriority, vars, blockVars
<1> QED BY <1>3, <1>4, <1>5 DEF Next, Download

\* "amount of bytes missing" and "same, less ranges selected for uploaders": the
\* two counters of a block agree with its ranges as long as all networks ask for
\* ranges of one size. (With two sizes they do not: MCBlockChoice_sizes.cfg.)
THEOREM RemainingIsKept == Spec => [](SameSize => RemainingIsRight)
<1> DEFINE Inv == SameSize => RemainInv
<1>1. Init => Inv
  BY RemainInit
<1>2. Inv /\ [Next]_vars => Inv'
  BY RemainStep DEF SameSize
<1>3. Inv => (SameSize => RemainingIsRight)
  BY RemainsIsRight DEF RemainInv, ChoiceInv
<1> QED BY <1>1, <1>2, <1>3, PTL DEF Spec

=============================================================================
