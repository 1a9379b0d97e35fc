------------------------ MODULE AccountTree_proofs ------------------------
(***************************************************************************)
(* Theorems about AccountTree, for any depth, any accounts that fit, any   *)
(* even word size, any number of goroutines and of rounds.                 *)
(***************************************************************************)
EXTENDS AccountTree, NumberFacts, FiniteSetTheorems, SequenceTheorems

----------------------------------------------------------------------------
(* The recursive functions satisfy their recursions.                       *)

PowersTo(f, n) == f = [l \in 0 .. n |-> IF l = 0 THEN 1 ELSE 2 * f[l-1]]

LEMMA Pow2Is ==
    /\ Pow2[0] = 1
    /\ \A l \in 1 .. Depth : Pow2[l] = 2 * Pow2[l-1]
    /\ \A l \in 0 .. Depth : Pow2[l] \in Nat \ {0}
<1> DEFINE S == {m \in Nat : ~ \E f : PowersTo(f, m)}
<1>1. S = {}
  <2> SUFFICES ASSUME S # {}  PROVE FALSE
    OBVIOUS
  <2>1. PICK m \in S : \A k \in S : m <= k
    BY LeastNat
  <2>2. m # 0
    <3> DEFINE g == [l \in 0 .. 0 |-> 1]
    <3>1. PowersTo(g, 0)
      BY DEF PowersTo
    <3> QED
      BY <2>1, <3>1
  <2>3. m - 1 \in Nat /\ m - 1 \notin S
    BY <2>1, <2>2
  <2>4. PICK f : PowersTo(f, m - 1)
    BY <2>3
  <2> DEFINE g == [l \in 0 .. m |-> IF l = m THEN 2 * f[m-1] ELSE f[l]]
  <2>5. PowersTo(g, m)
    BY <2>2, <2>3, <2>4 DEF PowersTo
  <2> QED
    BY <2>1, <2>5
<1>2. Depth \in Nat
  BY SizeAssumption
<1>3. \E f : f = [l \in 0 .. Depth |-> IF l = 0 THEN 1 ELSE 2 * f[l-1]]
  BY <1>1, <1>2 DEF PowersTo
<1>4. Pow2 = [l \in 0 .. Depth |-> IF l = 0 THEN 1 ELSE 2 * Pow2[l-1]]
  BY <1>3, Zenon DEF Pow2
<1>5. Pow2[0] = 1 /\ \A l \in 1 .. Depth : Pow2[l] = 2 * Pow2[l-1]
  BY <1>2, <1>4
<1> DEFINE R == {l \in Nat : l <= Depth /\ Pow2[l] \notin Nat \ {0}}
<1>6. R = {}
  <2> SUFFICES ASSUME R # {}  PROVE FALSE
    OBVIOUS
  <2>1. PICK m \in R : \A k \in R : m <= k
    BY LeastNat
  <2>2. m # 0 /\ m - 1 \in Nat /\ m - 1 \notin R /\ m \in 1 .. Depth
    BY <1>2, <1>5, <2>1
  <2>3. Pow2[m-1] \in Nat \ {0} /\ Pow2[m] = 2 * Pow2[m-1]
    BY <1>2, <1>5, <2>2
  <2> QED
    BY <2>1, <2>3
<1> QED
  BY <1>2, <1>5, <1>6

NilsTo(f, n) == f = [l \in 0 .. n |-> IF l = 0 THEN NilLeaf ELSE Hash(f[l-1], f[l-1])]

LEMMA NilHashesIs ==
    /\ NilHashes[0] = NilLeaf
    /\ \A l \in 1 .. Depth : NilHashes[l] = Hash(NilHashes[l-1], NilHashes[l-1])
<1> DEFINE S == {m \in Nat : ~ \E f : NilsTo(f, m)}
<1>1. S = {}
  <2> SUFFICES ASSUME S # {}  PROVE FALSE
    OBVIOUS
  <2>1. PICK m \in S : \A k \in S : m <= k
    BY LeastNat
  <2>2. m # 0
    <3> DEFINE g == [l \in 0 .. 0 |-> NilLeaf]
    <3>1. NilsTo(g, 0)
      BY DEF NilsTo
    <3> QED
      BY <2>1, <3>1
  <2>3. m - 1 \in Nat /\ m - 1 \notin S
    BY <2>1, <2>2
  <2>4. PICK f : NilsTo(f, m - 1)
    BY <2>3
  <2> DEFINE g == [l \in 0 .. m |-> IF l = m THEN Hash(f[m-1], f[m-1]) ELSE f[l]]
  <2>5. NilsTo(g, m)
    BY <2>2, <2>3, <2>4 DEF NilsTo
  <2> QED
    BY <2>1, <2>5
<1>2. Depth \in Nat
  BY SizeAssumption
<1>3. \E f : f = [l \in 0 .. Depth |-> IF l = 0 THEN NilLeaf ELSE Hash(f[l-1], f[l-1])]
  BY <1>1, <1>2 DEF NilsTo
<1>4. NilHashes = [l \in 0 .. Depth |->
                     IF l = 0 THEN NilLeaf ELSE Hash(NilHashes[l-1], NilHashes[l-1])]
  BY <1>3, Zenon DEF NilHashes
<1> QED
  BY <1>2, <1>4

\* The accounts before a tier.
LEMMA BeforeIs ==
    /\ Len(Accounts) \in Nat \ {0} /\ AccountsBefore[1] = 0
    /\ \A t \in 1 .. Len(Accounts) :
         Accounts[t] \in Nat /\ AccountsBefore[t+1] = AccountsBefore[t] + Accounts[t]
    /\ \A t \in 1 .. Len(Accounts) + 1 :
         AccountsBefore[t] \in Nat /\ AccountsBefore[t] <= Capacity
    /\ Capacity \in Nat \ {0} /\ Capacity <= Pow2[Depth]
<1>1. Len(Accounts) \in Nat /\ \A t \in 1 .. Len(Accounts) : Accounts[t] \in Nat
  BY SizeAssumption, LenProperties, ElementOfSeq
<1>2. \E f : f = [t \in 1 .. Len(Accounts) + 1 |-> IF t = 1 THEN 0 ELSE f[t-1] + Accounts[t-1]]
  BY <1>1, RunningSumsExist DEF SumsBefore
<1>3. SumsBefore(AccountsBefore, Accounts, Len(Accounts))
  BY <1>2, Zenon DEF AccountsBefore, SumsBefore
<1>4. /\ AccountsBefore[1] = 0
      /\ \A t \in 1 .. Len(Accounts) : AccountsBefore[t+1] = AccountsBefore[t] + Accounts[t]
      /\ \A t \in 1 .. Len(Accounts) + 1 : AccountsBefore[t] \in Nat
      /\ \A t, u \in 1 .. Len(Accounts) + 1 : t <= u => AccountsBefore[t] <= AccountsBefore[u]
  BY <1>1, <1>3, RunningSums
<1>5. \A t \in 1 .. Len(Accounts) + 1 : AccountsBefore[t] <= Capacity
  BY <1>1, <1>4 DEF Capacity
<1>6. Capacity \in Nat \ {0} /\ Capacity <= Pow2[Depth]
  BY CapacityAssumption, Pow2Is, SizeAssumption
<1>7. Len(Accounts) # 0
  BY <1>1, <1>4, <1>6 DEF Capacity
<1> QED
  BY <1>1, <1>4, <1>5, <1>6, <1>7

\* The tree over the accounts of a round.
LeafOf(p, r) == IF p < Capacity THEN [account |-> p, round |-> r] ELSE NilLeaf
RowOf(l, r, below) ==
    [p \in 0 .. Pow2[Depth - l] - 1 |->
        IF l = 0 THEN LeafOf(p, r) ELSE Hash(below[2 * p], below[2 * p + 1])]
TreeIs(f, r, n) == f = [l \in 0 .. n |-> RowOf(l, r, f[l-1])]

LEMMA TreeExists ==
    ASSUME NEW r, NEW n \in Nat
    PROVE  \E f : TreeIs(f, r, n)
<1> DEFINE S == {m \in Nat : ~ \E f : TreeIs(f, r, m)}
<1> SUFFICES ASSUME S # {}  PROVE FALSE
  OBVIOUS
<1>1. PICK m \in S : \A k \in S : m <= k
  BY LeastNat
<1>2. m # 0
  <2> DEFINE g == [l \in 0 .. 0 |-> RowOf(0, r, l)]
  <2>1. \A x, y : RowOf(0, r, x) = RowOf(0, r, y)
    BY DEF RowOf
  <2>2. TreeIs(g, r, 0)
    BY <2>1 DEF TreeIs
  <2> QED
    BY <1>1, <2>2
<1>3. m - 1 \in Nat /\ m - 1 \notin S
  BY <1>1, <1>2
<1>4. PICK f : TreeIs(f, r, m - 1)
  BY <1>3
<1> DEFINE g == [l \in 0 .. m |-> IF l = m THEN RowOf(m, r, f[m-1]) ELSE f[l]]
<1>5. TreeIs(g, r, m)
  <2>1. \A x, y : RowOf(0, r, x) = RowOf(0, r, y)
    BY DEF RowOf
  <2>2. \A l \in 0 .. m - 1 : f[l] = RowOf(l, r, f[l-1])
    BY <1>4 DEF TreeIs
  <2>3. ASSUME NEW l \in 0 .. m  PROVE g[l] = RowOf(l, r, g[l-1])
    <3>1. CASE l = m
      BY <1>2, <1>3, <3>1
    <3>2. CASE l # m /\ l # 0
      BY <1>3, <2>2, <3>2
    <3>3. CASE l # m /\ l = 0
      BY <1>3, <2>1, <2>2, <3>3
    <3> QED
      BY <3>1, <3>2, <3>3
  <2>4. g = [l \in 0 .. m |-> g[l]]
    OBVIOUS
  <2> HIDE DEF g
  <2> QED
    BY <2>3, <2>4 DEF TreeIs
<1> QED
  BY <1>1, <1>5

\* Merkle satisfies its recursion.
LEMMA MerkleIs ==
    /\ \A p \in 0 .. Pow2[Depth] - 1 :
         Merkle[0][p] = IF p < Capacity THEN [account |-> p, round |-> round] ELSE NilLeaf
    /\ \A l \in 1 .. Depth : \A p \in 0 .. Pow2[Depth - l] - 1 :
         Merkle[l][p] = Hash(Merkle[l-1][2 * p], Merkle[l-1][2 * p + 1])
<1>1. Depth \in Nat
  BY SizeAssumption
<1>2. \E f : f = [l \in 0 .. Depth |->
                    [p \in 0 .. Pow2[Depth - l] - 1 |->
                        IF l = 0 THEN IF p < Capacity THEN [account |-> p, round |-> round] ELSE NilLeaf
                        ELSE Hash(f[l-1][2 * p], f[l-1][2 * p + 1])]]
  <2>1. PICK f : TreeIs(f, round, Depth)
    BY <1>1, TreeExists
  <2> QED
    BY <2>1, Zenon DEF TreeIs, RowOf, LeafOf
<1>3. Merkle = [l \in 0 .. Depth |->
                  [p \in 0 .. Pow2[Depth - l] - 1 |->
                      IF l = 0 THEN IF p < Capacity THEN [account |-> p, round |-> round] ELSE NilLeaf
                      ELSE Hash(Merkle[l-1][2 * p], Merkle[l-1][2 * p + 1])]]
  BY <1>2, Zenon DEF Merkle
<1>4. \A l \in 0 .. Depth : Merkle[l] = RowOf(l, round, Merkle[l-1])
  <2> DEFINE f == Merkle
  <2>1. f = [l \in 0 .. Depth |-> RowOf(l, round, f[l-1])]
    BY <1>3, Zenon DEF RowOf, LeafOf
  <2> HIDE DEF f
  <2>2. \A l \in 0 .. Depth : f[l] = RowOf(l, round, f[l-1])
    BY <2>1
  <2> QED
    BY <2>2 DEF f
<1>5. ASSUME NEW p \in 0 .. Pow2[Depth] - 1
      PROVE  Merkle[0][p] = IF p < Capacity THEN [account |-> p, round |-> round] ELSE NilLeaf
  <2>1. Merkle[0] = RowOf(0, round, Merkle[0-1]) /\ Depth - 0 = Depth
    BY <1>1, <1>4
  <2>2. RowOf(0, round, Merkle[0-1])[p] = LeafOf(p, round)
    BY <2>1 DEF RowOf
  <2> QED
    BY <2>1, <2>2 DEF LeafOf
<1>6. ASSUME NEW l \in 1 .. Depth, NEW p \in 0 .. Pow2[Depth - l] - 1
      PROVE  Merkle[l][p] = Hash(Merkle[l-1][2 * p], Merkle[l-1][2 * p + 1])
  <2>1. Merkle[l] = RowOf(l, round, Merkle[l-1]) /\ l # 0
    BY <1>1, <1>4
  <2>2. RowOf(l, round, Merkle[l-1])[p] = Hash(Merkle[l-1][2 * p], Merkle[l-1][2 * p + 1])
    BY <2>1 DEF RowOf
  <2> QED
    BY <2>1, <2>2
<1> QED
  BY <1>5, <1>6

----------------------------------------------------------------------------
(* Chunks and words.                                                       *)

\* Division that rounds up.
LEMMA CeilDivIs ==
    ASSUME NEW n \in Nat, NEW d \in Nat \ {0}
    PROVE  CeilDiv(n, d) \in Nat /\ n <= CeilDiv(n, d) * d
  BY DEF CeilDiv

\* Whatever the rounding, the chunks of the goroutines cover what is split.
LEMMA ChunksCover ==
    ASSUME NEW n \in Nat, NEW i \in 0 .. n - 1, NEW c, c = CeilDiv(n, WorkersNum)
    PROVE  \E w \in Workers : w * c <= i /\ i < (w + 1) * c
<1>1. WorkersNum \in Nat \ {0} /\ i \in Nat /\ i < n
  BY SizeAssumption
<1>2. c = (n + WorkersNum - 1) \div WorkersNum
  BY DEF CeilDiv
<1>3. c \in Nat /\ n <= WorkersNum * c
  BY <1>1, <1>2
<1>4. c # 0
  BY <1>1, <1>3
<1> DEFINE w == i \div c
<1>5. w \in Nat /\ w * c <= i /\ i < w * c + c
  BY <1>1, <1>3, <1>4
<1> HIDE DEF w
<1>6. (w + 1) * c = w * c + c
  BY <1>3, <1>5
<1>7. w < WorkersNum
  <2> SUFFICES ASSUME WorkersNum <= w  PROVE FALSE
    BY <1>1, <1>5
  <2>1. WorkersNum * c <= w * c
    BY <1>1, <1>3, <1>5
  <2>2. WorkersNum * c \in Nat /\ w * c \in Nat
    BY <1>1, <1>3, <1>5
  <2> QED
    BY <1>1, <1>3, <1>5, <2>1, <2>2
<1>8. w \in Workers
  BY <1>1, <1>5, <1>7 DEF Workers
<1> QED
  BY <1>5, <1>6, <1>8

\* The accounts of a tier.
LEMMA TierCovered ==
    ASSUME NEW t \in 1 .. Len(Accounts)
    PROVE  /\ \A w \in Workers : ChunkStart(t, w) \in Nat /\ AccountsBefore[t] <= ChunkStart(t, w)
                                 /\ ChunkEnd(t, w) \in Nat /\ ChunkEnd(t, w) <= AccountsBefore[t+1]
           /\ \A k \in Nat : AccountsBefore[t] <= k /\ k < AccountsBefore[t+1] =>
                \E w \in Workers : ChunkStart(t, w) <= k /\ k < ChunkEnd(t, w)
<1> DEFINE c == CeilDiv(Accounts[t], WorkersNum)
<1>1. /\ Accounts[t] \in Nat /\ AccountsBefore[t+1] = AccountsBefore[t] + Accounts[t]
      /\ AccountsBefore[t] \in Nat /\ AccountsBefore[t+1] \in Nat
  BY BeforeIs
<1>2. c \in Nat
  BY <1>1, SizeAssumption, CeilDivIs
<1>3. \A w \in Nat : ChunkStart(t, w) = AccountsBefore[t] + w * c /\ w * c \in Nat
  BY <1>2 DEF ChunkStart
<1> HIDE DEF c
<1>4. \A w \in Workers : w \in Nat /\ w + 1 \in Nat
  BY SizeAssumption DEF Workers
<1>5. ASSUME NEW w \in Workers
      PROVE  /\ ChunkStart(t, w) \in Nat /\ AccountsBefore[t] <= ChunkStart(t, w)
             /\ ChunkEnd(t, w) \in Nat /\ ChunkEnd(t, w) <= AccountsBefore[t+1]
  <2>1. w \in Nat /\ w + 1 \in Nat
    BY <1>4
  <2>2. ChunkStart(t, w) = AccountsBefore[t] + w * c /\ w * c \in Nat
    BY <1>3, <2>1
  <2>3. ChunkStart(t, w + 1) = AccountsBefore[t] + (w + 1) * c /\ (w + 1) * c \in Nat
    BY <1>3, <2>1
  <2>4. ChunkStart(t, w) \in Nat /\ AccountsBefore[t] <= ChunkStart(t, w)
    BY <1>1, <2>2
  <2>5. ChunkStart(t, w + 1) \in Nat
    BY <1>1, <2>3
  <2> QED
    BY <1>1, <2>4, <2>5 DEF ChunkEnd
<1>6. ASSUME NEW k \in Nat, AccountsBefore[t] <= k, k < AccountsBefore[t+1]
      PROVE  \E w \in Workers : ChunkStart(t, w) <= k /\ k < ChunkEnd(t, w)
  <2>1. k - AccountsBefore[t] \in 0 .. Accounts[t] - 1
    BY <1>1, <1>6
  <2>2. PICK w \in Workers : w * c <= k - AccountsBefore[t] /\ k - AccountsBefore[t] < (w + 1) * c
    BY <1>1, <2>1, ChunksCover DEF c
  <2>3. ChunkStart(t, w) <= k /\ k < ChunkStart(t, w + 1)
    <3>1. w \in Nat /\ w + 1 \in Nat
      BY <1>4
    <3>2. ChunkStart(t, w) = AccountsBefore[t] + w * c /\ w * c \in Nat
      BY <1>3, <3>1
    <3>3. ChunkStart(t, w + 1) = AccountsBefore[t] + (w + 1) * c /\ (w + 1) * c \in Nat
      BY <1>3, <3>1
    <3> QED
      BY <1>1, <2>2, <3>2, <3>3
  <2>4. k < ChunkEnd(t, w)
    BY <1>6, <2>3 DEF ChunkEnd
  <2> QED
    BY <2>3, <2>4
<1> QED
  BY <1>5, <1>6

\* The words of a level.
LEMMA WordsCovered ==
    ASSUME NEW n \in Nat
    PROVE  /\ \A w \in Workers : WordStart(n, w) \in Nat /\ WordEnd(n, w) \in Nat /\ WordEnd(n, w) <= n
           /\ \A i \in 0 .. n - 1 :
                \E w \in Workers : WordStart(n, w) <= i /\ i < WordEnd(n, w)
<1> DEFINE c == CeilDiv(n, WorkersNum)
<1>1. c \in Nat
  BY SizeAssumption DEF CeilDiv
<1>2. \A w \in Nat : WordStart(n, w) = w * c /\ w * c \in Nat
  BY <1>1 DEF WordStart
<1> HIDE DEF c
<1>3. \A w \in Workers : w \in Nat /\ w + 1 \in Nat
  BY SizeAssumption DEF Workers
<1>4. ASSUME NEW w \in Workers
      PROVE  WordStart(n, w) \in Nat /\ WordEnd(n, w) \in Nat /\ WordEnd(n, w) <= n
  BY <1>2, <1>3 DEF WordEnd
<1>5. ASSUME NEW i \in 0 .. n - 1
      PROVE  \E w \in Workers : WordStart(n, w) <= i /\ i < WordEnd(n, w)
  <2>1. PICK w \in Workers : w * c <= i /\ i < (w + 1) * c
    BY ChunksCover DEF c
  <2>2. WordStart(n, w) <= i /\ i < WordStart(n, w + 1)
    BY <1>2, <1>3, <2>1
  <2>3. i < WordEnd(n, w)
    BY <2>2 DEF WordEnd
  <2> QED
    BY <2>2, <2>3
<1> QED
  BY <1>4, <1>5

----------------------------------------------------------------------------
(* Bitsets.                                                                *)

Bitset(bs, n) == bs \in [0 .. n - 1 -> SUBSET (0 .. WordBits - 1)]

\* Is bit p there, and set?
BitAt(bs, p) == p \div WordBits \in Words(bs) /\ BitGet(bs, p)

LEMMA BitsetLen ==
    ASSUME NEW n \in Nat, NEW bs, Bitset(bs, n)
    PROVE  Words(bs) = 0 .. n - 1 /\ Cardinality(Words(bs)) = n
<1>1. Words(bs) = 0 .. n - 1
  BY DEF Bitset, Words
<1>2. Cardinality(0 .. n - 1) = n
  BY FS_Interval
<1> QED
  BY <1>1, <1>2

\* A parent has enough words for its children.
LEMMA ParentLenIs ==
    ASSUME NEW n \in Nat, NEW h, h = WordBits \div 2
    PROVE  /\ h \in Nat \ {0} /\ WordBits = 2 * h
           /\ ParentLen(n) \in Nat /\ n <= 2 * ParentLen(n)
           /\ n # 0 => ParentLen(n) # 0
           /\ n * h <= ParentLen(n) * WordBits
<1>1. h \in Nat \ {0} /\ WordBits = 2 * h /\ WordBits \in Nat \ {0}
  BY SizeAssumption
<1> DEFINE m == ParentLen(n)
<1>2. n * h \in Nat /\ m = (n * h + WordBits - 1) \div WordBits
  BY <1>1 DEF ParentLen, CeilDiv
<1>3. m \in Nat
  BY <1>1, <1>2
<1>4. n * h <= m * WordBits
  BY <1>1, <1>2
<1> HIDE DEF m
<1>5. m * WordBits = 2 * m * h
  BY <1>1, <1>3
<1>6. n <= 2 * m
  <2> SUFFICES ASSUME 2 * m + 1 <= n  PROVE FALSE
    BY <1>3
  <2>1. (2 * m + 1) * h <= n * h
    BY <1>1, <1>3
  <2>2. (2 * m + 1) * h = 2 * m * h + h /\ 2 * m * h \in Nat
    BY <1>1, <1>3
  <2> QED
    BY <1>1, <1>2, <1>4, <1>5, <2>1, <2>2
<1>7. n # 0 => m # 0
  BY <1>3, <1>6
<1> QED
  BY <1>1, <1>3, <1>4, <1>6, <1>7 DEF m

\* propagateDirty: a bit of the parent is set if a bit of the two below it is.
LEMMA PropagateIs ==
    ASSUME NEW n \in Nat, NEW bs, Bitset(bs, n)
    PROVE  /\ Bitset(PropagateDirty(bs), ParentLen(n))
           /\ \A p \in Nat : BitAt(PropagateDirty(bs), p) <=> BitAt(bs, 2 * p) \/ BitAt(bs, 2 * p + 1)
<1> PICK h : h = WordBits \div 2
  OBVIOUS
<1> DEFINE m == ParentLen(n)
           parent == PropagateDirty(bs)
<1>1. /\ h \in Nat \ {0} /\ WordBits = 2 * h /\ WordBits \in Nat \ {0}
      /\ m \in Nat /\ n * h <= m * WordBits
  BY ParentLenIs, SizeAssumption
<1>2. Words(bs) = 0 .. n - 1 /\ Cardinality(Words(bs)) = n
  BY BitsetLen
<1>3. parent = [j \in 0 .. m - 1 |->
                  {q \in 0 .. WordBits - 1 : \E i \in Words(bs) : \E b \in Compressed(bs[i]) :
                     i * h + b = j * WordBits + q}]
  BY <1>2, Zenon DEF PropagateDirty
<1> HIDE DEF m, parent
<1>4. Bitset(parent, m) /\ Words(parent) = 0 .. m - 1
  BY <1>3 DEF Bitset, Words
<1>5. \A p \in Nat : p \div WordBits \in Nat /\ p % WordBits \in 0 .. WordBits - 1
                     /\ p = (p \div WordBits) * WordBits + (p % WordBits)
  BY <1>1
<1>6. \A i \in Words(bs) : \A d \in bs[i] : i \in Nat /\ d \in 0 .. WordBits - 1
  BY <1>2 DEF Bitset
<1>7. ASSUME NEW p \in Nat, BitAt(parent, p)
      PROVE  BitAt(bs, 2 * p) \/ BitAt(bs, 2 * p + 1)
  <2> DEFINE j == p \div WordBits
             q == p % WordBits
  <2>1. j \in 0 .. m - 1 /\ q \in parent[j] /\ p = j * WordBits + q
    BY <1>4, <1>7, <1>5 DEF BitAt, BitGet
  <2> HIDE DEF j, q
  <2>2. PICK i \in Words(bs) : \E b \in Compressed(bs[i]) : i * h + b = p
    BY <1>3, <2>1
  <2>3. PICK d \in bs[i] : i * h + (d \div 2) = p
    BY <2>2 DEF Compressed
  <2>4. i \in Nat /\ d \in 0 .. WordBits - 1 /\ d \in Nat
    BY <1>1, <1>6
  <2>5. ASSUME NEW c \in Nat, c = i * WordBits + d  PROVE BitAt(bs, c)
    <3>1. c \div WordBits = i /\ c % WordBits = d
      BY <1>1, <2>4, <2>5
    <3> QED
      BY <3>1 DEF BitAt, BitGet
  <2>6. i * WordBits = 2 * (i * h) /\ i * h \in Nat
    BY <1>1, <2>4
  <2>7. PICK b \in Nat : b = d \div 2 /\ (d = 2 * b \/ d = 2 * b + 1)
    BY <2>4
  <2>8. i * WordBits + d \in {2 * p, 2 * p + 1} /\ i * WordBits + d \in Nat
    <3> DEFINE x == i * h
               y == i * WordBits
    <3>1. x + b = p /\ x \in Nat /\ y = 2 * x
      BY <2>3, <2>6, <2>7
    <3> HIDE DEF x, y
    <3>2. y + d = 2 * p \/ y + d = 2 * p + 1
      BY <2>7, <3>1
    <3>3. y + d \in Nat
      BY <2>4, <3>1
    <3> QED
      BY <3>2, <3>3 DEF y
  <2> QED
    BY <2>5, <2>8
<1>8. ASSUME NEW p \in Nat, NEW c \in {2 * p, 2 * p + 1}, BitAt(bs, c)
      PROVE  BitAt(parent, p)
  <2> DEFINE i == c \div WordBits
             d == c % WordBits
             b == d \div 2
             j == p \div WordBits
             q == p % WordBits
  <2>1. c \in Nat
    BY <1>8
  <2>2. i \in Words(bs) /\ d \in bs[i] /\ c = i * WordBits + d
    BY <1>1, <1>8, <2>1 DEF BitAt, BitGet
  <2>3. b \in Compressed(bs[i]) /\ (d = 2 * b \/ d = 2 * b + 1) /\ b \in Nat
    <3>1. d \in Nat
      BY <1>1, <2>1
    <3> QED
      BY <2>2, <3>1 DEF Compressed
  <2>4. j \in Nat /\ q \in 0 .. WordBits - 1 /\ p = j * WordBits + q
    BY <1>5, Zenon
  <2>5. i \in 0 .. n - 1 /\ d \in 0 .. WordBits - 1
    BY <1>2, <1>6, <2>2
  <2> HIDE DEF i, d, b, j, q
  <2>6. i * WordBits = 2 * (i * h) /\ i * h \in Nat
    BY <1>1, <2>5
  <2>7. i * h + b = p /\ b < h
    BY <1>1, <1>8, <2>2, <2>3, <2>5, <2>6
  <2>8. j < m
    <3>1. (i + 1) * h <= n * h /\ (i + 1) * h = i * h + h
      BY <1>1, <2>5
    <3>2. j * WordBits <= p
      <4>1. j * WordBits \in Nat /\ q \in Nat
        BY <1>1, <2>4
      <4> QED
        BY <2>4, <4>1
    <3>3. p < m * WordBits
      <4>1. n * h \in Nat /\ m * WordBits \in Nat
        BY <1>1
      <4> QED
        BY <1>1, <2>3, <2>6, <2>7, <3>1, <4>1
    <3>4. j * WordBits < m * WordBits
      <4>1. j * WordBits \in Nat /\ m * WordBits \in Nat
        BY <1>1, <2>4
      <4> QED
        BY <3>2, <3>3, <4>1
    <3> QED
      BY <1>1, <2>4, <3>4
  <2>9. j \in 0 .. m - 1 /\ q \in parent[j]
    BY <1>1, <1>3, <2>2, <2>3, <2>4, <2>7, <2>8
  <2> QED
    BY <1>4, <2>9 DEF BitAt, BitGet, j, q
<1> QED
  BY <1>4, <1>7, <1>8 DEF m, parent

----------------------------------------------------------------------------
(* The inductive invariant.                                                *)

Buffers ==
    /\ leaves = [k \in Keys |-> leaves[k]]
    /\ Bitset(leavesDirty, CeilDiv(Capacity, WordBits))
    /\ levels = [l \in 1 .. Depth |-> levels[l]]
    /\ levelDirty = [l \in 1 .. Depth |-> levelDirty[l]]

\* The bitset of a level and its buffer fit, n words of it.
Fits(l, n) == Bitset(levelDirty[l], n) /\ DOMAIN levels[l] = 0 .. n * WordBits - 1
AllFit == \A l \in 1 .. Depth : \E n \in Nat : Fits(l, n)

Counters ==
    /\ phase \in {"set", "build", "built"} /\ round \in 1 .. Rounds
    /\ tier \in 1 .. Len(Accounts) /\ at \in [Workers -> Nat]
    /\ pc \in [Workers -> {"copy", "load", "swap"}]
    /\ old \in [Workers -> SUBSET (0 .. WordBits - 1)]
    /\ level \in 1 .. Depth /\ word \in [Workers -> Nat]

\* A leaf is set, and marked.
Marked(k) == BitAt(leavesDirty, k) /\ leaves[k] = Leaf(k)
AllMarked == \A k \in Keys : Marked(k)

\* While leaves are set, those of the tiers before and those that the workers
\* have passed are, and a worker between its copy and its mark has copied.
SetRight ==
    /\ \A k \in Keys : k < AccountsBefore[tier] => Marked(k)
    /\ \A w \in Workers : \A k \in Keys : ChunkStart(tier, w) <= k /\ k < at[w] => Marked(k)
    /\ \A w \in Workers : pc[w] # "copy" =>
         /\ ChunkStart(tier, w) <= at[w] /\ at[w] < ChunkEnd(tier, w)
         /\ leaves[at[w]] = Leaf(at[w])
    /\ \A w \in Workers : ChunkStart(tier, w) <= at[w]

Quiet == \A w \in Workers : pc[w] = "copy"

\* The nodes of level l are those of the Merkle tree, and where no bit is set
\* nothing is below.
Bits(l) == IF l = 0 THEN leavesDirty ELSE levelDirty[l]
LevelRight(l) ==
    \A p \in 0 .. Pow2[Depth - l] - 1 :
        /\ GetNodeAt(l, p) = Merkle[l][p]
        /\ ~ BitAt(Bits(l), p) => Merkle[l][p] = NilHashes[l]

\* A level that is begun covers the leaves.
Covers(l) == \E n \in Nat \ {0} : Fits(l, n) /\ Capacity <= n * WordBits * Pow2[l]

\* The nodes of the words that the workers have passed are right.
LevelPartly ==
    \A p \in 0 .. Pow2[Depth - level] - 1 :
        IF BitAt(levelDirty[level], p)
        THEN (\E w \in Workers : /\ WordStart(LevelWords, w) <= p \div WordBits
                                 /\ p \div WordBits < word[w])
             => levels[level][p] = Merkle[level][p]
        ELSE Merkle[level][p] = NilHashes[level]

BuildRight ==
    /\ \A l \in 0 .. level - 1 : LevelRight(l)
    /\ \A l \in 1 .. level : Covers(l)
    /\ LevelPartly

BuiltRight ==
    /\ \A l \in 0 .. Depth : LevelRight(l)
    /\ root = Merkle[Depth][0]

IInv ==
    /\ Buffers /\ AllFit /\ Counters
    /\ phase = "set" => SetRight
    /\ phase # "set" => Quiet /\ AllMarked
    /\ phase = "build" => BuildRight
    /\ phase = "built" => BuiltRight

----------------------------------------------------------------------------
(* Setting the leaves.                                                     *)

LEMMA KeyWord ==
    ASSUME NEW k \in Keys
    PROVE  /\ k \in Nat /\ k < Capacity /\ k % WordBits \in 0 .. WordBits - 1
           /\ k \div WordBits \in 0 .. CeilDiv(Capacity, WordBits) - 1
           /\ CeilDiv(Capacity, WordBits) \in Nat
<1>1. k \in Nat /\ k < Capacity /\ Capacity \in Nat /\ WordBits \in Nat \ {0}
  BY BeforeIs, SizeAssumption DEF Keys
<1> DEFINE n == CeilDiv(Capacity, WordBits)
           i == k \div WordBits
<1>2. n \in Nat /\ Capacity <= n * WordBits
  BY <1>1, CeilDivIs
<1>3. i \in Nat /\ i * WordBits <= k /\ k % WordBits \in 0 .. WordBits - 1
  BY <1>1
<1> HIDE DEF n, i
<1>4. i < n
  <2> SUFFICES ASSUME n <= i  PROVE FALSE
    BY <1>2, <1>3
  <2>1. n * WordBits <= i * WordBits /\ n * WordBits \in Nat /\ i * WordBits \in Nat
    BY <1>1, <1>2, <1>3
  <2> QED
    BY <1>1, <1>2, <1>3, <2>1
<1> QED
  BY <1>1, <1>2, <1>3, <1>4 DEF n, i

\* The account that a worker is at, when it has one.
LEMMA AtKey ==
    ASSUME Counters, NEW w \in Workers, ChunkStart(tier, w) <= at[w], at[w] < ChunkEnd(tier, w)
    PROVE  at[w] \in Keys /\ at[w] \in Nat
<1>1. /\ ChunkEnd(tier, w) <= AccountsBefore[tier+1] /\ ChunkEnd(tier, w) \in Nat
      /\ AccountsBefore[tier+1] <= Capacity /\ AccountsBefore[tier+1] \in Nat
      /\ Capacity \in Nat /\ at[w] \in Nat
  BY TierCovered, BeforeIs DEF Counters
<1> QED
  BY <1>1 DEF Keys

LEMMA InitInv == Init => IInv
<1> SUFFICES ASSUME Init  PROVE IInv
  OBVIOUS
<1>1. Capacity \in Nat \ {0} /\ WordBits \in Nat \ {0} /\ CeilDiv(Capacity, WordBits) \in Nat
  BY BeforeIs, SizeAssumption, CeilDivIs
<1>2. Buffers
  BY <1>1 DEF Init, Buffers, Bitset
<1>3. AllFit
  <2>1. <<>> \in [0 .. 0 - 1 -> SUBSET (0 .. WordBits - 1)] /\ DOMAIN <<>> = 0 .. 0 - 1
    OBVIOUS
  <2>2. 0 * WordBits - 1 = 0 - 1
    BY <1>1
  <2>3. \A l \in 1 .. Depth : Fits(l, 0)
    BY <2>1, <2>2 DEF Init, Fits, Bitset
  <2> QED
    BY <2>3 DEF AllFit
<1>4. 1 \in 1 .. Len(Accounts) /\ AccountsBefore[1] = 0
  BY BeforeIs
<1>5. \A w \in Workers : ChunkStart(1, w) \in Nat
  BY <1>4, TierCovered
<1>6. Counters
  BY <1>4, <1>5, SizeAssumption DEF Init, Counters
<1>7. SetRight
  <2>1. \A k \in Keys : ~ (k < AccountsBefore[tier])
    BY <1>4 DEF Init, Keys
  <2>2. \A w \in Workers : at[w] = ChunkStart(tier, w) /\ pc[w] = "copy" /\ at[w] \in Nat
    BY <1>5 DEF Init
  <2>3. \A w \in Workers : \A k \in Keys : ~ (ChunkStart(tier, w) <= k /\ k < at[w])
    BY <1>1, <2>2 DEF Keys
  <2> QED
    BY <2>1, <2>2, <2>3 DEF SetRight
<1> QED
  BY <1>2, <1>3, <1>6, <1>7 DEF Init, IInv

\* A step of a worker leaves the levels alone.
LEMMA StepSets ==
    ASSUME IInv, phase = "set", UNCHANGED <<levels, levelDirty, phase, round, tier, level, word>>,
           leaves' = [k \in Keys |-> leaves'[k]],
           Bitset(leavesDirty', CeilDiv(Capacity, WordBits)),
           at' \in [Workers -> Nat], pc' \in [Workers -> {"copy", "load", "swap"}],
           old' \in [Workers -> SUBSET (0 .. WordBits - 1)], SetRight'
    PROVE  IInv'
<1>1. Buffers'
  BY DEF IInv, Buffers
<1>2. AllFit'
  BY DEF IInv, AllFit, Fits
<1>3. Counters'
  BY DEF IInv, Counters
<1> QED
  BY <1>1, <1>2, <1>3 DEF IInv

LEMMA StepCopy ==
    ASSUME IInv, NEW w \in Workers, Copy(w)
    PROVE  IInv'
<1>1. /\ phase = "set" /\ SetRight /\ Counters /\ leaves = [k \in Keys |-> leaves[k]]
      /\ Bitset(leavesDirty, CeilDiv(Capacity, WordBits))
  BY DEF Copy, IInv, Buffers
<1>2. at[w] \in Keys
  BY <1>1, AtKey DEF Copy, SetRight
<1>3. \A k \in Keys : leaves'[k] = IF k = at[w] THEN Leaf(k) ELSE leaves[k]
  BY <1>1, <1>2 DEF Copy
<1>4. leaves' = [k \in Keys |-> leaves'[k]]
  BY <1>1, <1>2 DEF Copy
<1>5. \A k \in Keys : Leaf(k)' = Leaf(k) /\ (Marked(k) => Marked(k)')
  BY <1>3 DEF Copy, Leaf, Marked, BitAt, BitGet
<1>6. pc' \in [Workers -> {"copy", "load", "swap"}]
  BY <1>1 DEF Copy, Counters
<1>7. ASSUME NEW v \in Workers, pc'[v] # "copy"
      PROVE  /\ ChunkStart(tier, v) <= at[v] /\ at[v] < ChunkEnd(tier, v)
             /\ leaves'[at[v]] = Leaf(at[v])
  <2>1. ChunkStart(tier, v) <= at[v] /\ at[v] < ChunkEnd(tier, v)
        /\ (v # w => leaves[at[v]] = Leaf(at[v]))
    BY <1>1, <1>7 DEF Copy, Counters, SetRight
  <2>2. at[v] \in Keys
    BY <1>1, <2>1, AtKey
  <2> QED
    BY <1>3, <2>1, <2>2
<1>8. SetRight'
  <2>1. /\ \A k \in Keys : k < AccountsBefore[tier] => Marked(k)'
        /\ \A v \in Workers : \A k \in Keys : ChunkStart(tier, v) <= k /\ k < at[v] => Marked(k)'
        /\ \A v \in Workers : ChunkStart(tier, v) <= at[v]
    BY <1>1, <1>5 DEF SetRight
  <2>2. at' = at /\ tier' = tier /\ \A k : Leaf(k)' = Leaf(k)
    BY DEF Copy, Leaf
  <2> QED
    BY <1>7, <2>1, <2>2 DEF SetRight
<1>9. UNCHANGED <<levels, levelDirty, phase, round, tier, level, word, leavesDirty, at, old>>
  BY DEF Copy, buildVars
<1> QED
  BY <1>1, <1>4, <1>6, <1>8, <1>9, StepSets DEF Counters

LEMMA StepLoad ==
    ASSUME IInv, NEW w \in Workers, Load(w)
    PROVE  IInv'
<1>1. /\ phase = "set" /\ SetRight /\ Counters /\ leaves = [k \in Keys |-> leaves[k]]
      /\ Bitset(leavesDirty, CeilDiv(Capacity, WordBits))
  BY DEF Load, IInv, Buffers
<1>2. at[w] \in Keys
  BY <1>1, AtKey DEF Load, SetRight
<1>3. leavesDirty[at[w] \div WordBits] \in SUBSET (0 .. WordBits - 1)
  BY <1>1, <1>2, KeyWord DEF Bitset
<1>4. /\ old' \in [Workers -> SUBSET (0 .. WordBits - 1)]
      /\ pc' \in [Workers -> {"copy", "load", "swap"}]
  BY <1>1, <1>3 DEF Load, Counters
<1>5. UNCHANGED <<levels, levelDirty, phase, round, tier, level, word, leaves, leavesDirty, at>>
  BY DEF Load, treeVars, buildVars
<1>6. \A v \in Workers : pc'[v] # "copy" => pc[v] # "copy"
  BY <1>1 DEF Load, Counters
<1>7. SetRight'
  BY <1>1, <1>5, <1>6 DEF SetRight, Marked, Leaf, BitAt, BitGet
<1> QED
  BY <1>1, <1>4, <1>5, <1>7, StepSets DEF Counters

LEMMA StepSwapFails ==
    ASSUME IInv, NEW w \in Workers, SwapFails(w)
    PROVE  IInv'
<1>1. /\ phase = "set" /\ SetRight /\ Counters /\ leaves = [k \in Keys |-> leaves[k]]
      /\ Bitset(leavesDirty, CeilDiv(Capacity, WordBits))
  BY DEF SwapFails, IInv, Buffers
<1>2. pc' \in [Workers -> {"copy", "load", "swap"}]
  BY <1>1 DEF SwapFails, Counters
<1>3. UNCHANGED <<levels, levelDirty, phase, round, tier, level, word, leaves, leavesDirty, at, old>>
  BY DEF SwapFails, treeVars, buildVars
<1>4. \A v \in Workers : pc'[v] # "copy" => pc[v] # "copy"
  BY <1>1 DEF SwapFails, Counters
<1>5. SetRight'
  BY <1>1, <1>3, <1>4 DEF SetRight, Marked, Leaf, BitAt, BitGet
<1> QED
  BY <1>1, <1>2, <1>3, <1>5, StepSets DEF Counters

\* Bits are added to the word as it is: no bit of another worker is lost.
LEMMA StepSwap ==
    ASSUME IInv, NEW w \in Workers, Swap(w)
    PROVE  IInv'
<1>1. /\ phase = "set" /\ SetRight /\ Counters /\ leaves = [k \in Keys |-> leaves[k]]
      /\ Bitset(leavesDirty, CeilDiv(Capacity, WordBits)) /\ pc[w] = "swap"
  BY DEF Swap, IInv, Buffers
<1>2. /\ at[w] \in Keys /\ at[w] \in Nat /\ ChunkStart(tier, w) <= at[w]
      /\ leaves[at[w]] = Leaf(at[w])
  BY <1>1, AtKey DEF SetRight
<1> DEFINE i == at[w] \div WordBits
           n == CeilDiv(Capacity, WordBits)
<1>3. i \in 0 .. n - 1 /\ at[w] % WordBits \in 0 .. WordBits - 1
  BY <1>2, KeyWord
<1>4. leavesDirty' = [leavesDirty EXCEPT ![i] = leavesDirty[i] \cup {at[w] % WordBits}]
  BY DEF Swap, SetBit
<1> HIDE DEF i, n
<1>5. /\ \A j \in 0 .. n - 1 :
           leavesDirty'[j] = IF j = i THEN leavesDirty[i] \cup {at[w] % WordBits} ELSE leavesDirty[j]
      /\ Words(leavesDirty') = 0 .. n - 1 /\ Words(leavesDirty) = 0 .. n - 1
  BY <1>1, <1>3, <1>4 DEF Bitset, Words, n
<1>6. Bitset(leavesDirty', n)
  BY <1>1, <1>3, <1>4 DEF Bitset, n
<1>7. /\ \A k \in Keys : BitAt(leavesDirty, k) => BitAt(leavesDirty', k)
      /\ BitAt(leavesDirty', at[w])
  BY <1>3, <1>5 DEF BitAt, BitGet, i
<1>8. /\ at' = [at EXCEPT ![w] = at[w] + 1] /\ pc' = [pc EXCEPT ![w] = "copy"]
      /\ UNCHANGED <<leaves, levels, levelDirty, phase, round, tier, level, word, old>>
  BY DEF Swap, SetBit, buildVars
<1>9. /\ \A k : Leaf(k)' = Leaf(k)
      /\ \A k \in Keys : (Marked(k) \/ k = at[w]) => Marked(k)'
  BY <1>2, <1>7, <1>8 DEF Leaf, Marked
<1>10. /\ at' \in [Workers -> Nat] /\ pc' \in [Workers -> {"copy", "load", "swap"}]
       /\ \A v \in Workers : v # w => at'[v] = at[v] /\ pc'[v] = pc[v]
       /\ at'[w] = at[w] + 1 /\ pc'[w] = "copy"
  BY <1>1, <1>2, <1>8 DEF Counters
<1>11. SetRight'
  <2>1. \A k \in Keys : k < AccountsBefore[tier] => Marked(k)'
    BY <1>1, <1>9 DEF SetRight
  <2>2. ASSUME NEW v \in Workers, NEW k \in Keys, ChunkStart(tier, v) <= k, k < at'[v]
        PROVE  Marked(k)'
    <3>1. CASE v # w
      BY <1>1, <1>9, <1>10, <2>2, <3>1 DEF SetRight
    <3>2. CASE v = w
      <4>1. k \in Nat
        BY KeyWord
      <4>2. k < at[w] \/ k = at[w]
        BY <1>2, <1>10, <2>2, <3>2, <4>1
      <4> QED
        BY <1>1, <1>9, <2>2, <3>2, <4>2 DEF SetRight
    <3> QED
      BY <3>1, <3>2
  <2>3. ASSUME NEW v \in Workers, pc'[v] # "copy"
        PROVE  /\ ChunkStart(tier, v) <= at'[v] /\ at'[v] < ChunkEnd(tier, v)
               /\ leaves[at'[v]] = Leaf(at'[v])
    BY <1>1, <1>10, <2>3 DEF SetRight
  <2>4. ASSUME NEW v \in Workers  PROVE ChunkStart(tier, v) <= at'[v]
    <3>1. CASE v # w
      BY <1>1, <1>10, <3>1 DEF SetRight
    <3>2. CASE v = w
      <4>1. ChunkStart(tier, w) \in Nat
        BY <1>1, TierCovered DEF Counters
      <4> QED
        BY <1>2, <1>10, <3>2, <4>1
    <3> QED
      BY <3>1, <3>2
  <2>5. \A k : Leaf(k)' = Leaf(k)
    BY <1>9
  <2> QED
    BY <1>8, <2>1, <2>2, <2>3, <2>4, <2>5 DEF SetRight
<1> QED
  BY <1>1, <1>6, <1>8, <1>10, <1>11, StepSets DEF Counters, n

\* When all chunks are passed, the leaves of the tier are set.
LEMMA TierDone ==
    ASSUME Counters, SetRight, \A w \in Workers : at[w] >= ChunkEnd(tier, w)
    PROVE  Quiet /\ \A k \in Keys : k < AccountsBefore[tier+1] => Marked(k)
<1>1. \A w \in Workers : at[w] \in Nat /\ ChunkEnd(tier, w) \in Nat /\ ChunkStart(tier, w) \in Nat
  BY TierCovered DEF Counters
<1>2. Quiet
  BY <1>1 DEF Quiet, SetRight
<1>3. ASSUME NEW k \in Keys, k < AccountsBefore[tier+1]  PROVE Marked(k)
  <2>1. k \in Nat /\ AccountsBefore[tier] \in Nat
    BY KeyWord, BeforeIs DEF Counters
  <2>2. CASE k < AccountsBefore[tier]
    BY <2>2 DEF SetRight
  <2>3. CASE AccountsBefore[tier] <= k
    <3>1. PICK w \in Workers : ChunkStart(tier, w) <= k /\ k < ChunkEnd(tier, w)
      BY <1>3, <2>1, <2>3, TierCovered DEF Counters
    <3>2. k < at[w]
      BY <1>1, <2>1, <3>1
    <3> QED
      BY <3>1, <3>2 DEF SetRight
  <2> QED
    BY <2>1, <2>2, <2>3
<1> QED
  BY <1>2, <1>3

\* The leaves of a tier are about to be set.
LEMMA StepTier ==
    ASSUME IInv, NEW t \in 1 .. Len(Accounts), tier' = t,
           at' = [w \in Workers |-> ChunkStart(t, w)], Quiet,
           phase' = "set", round' \in 1 .. Rounds,
           UNCHANGED <<treeVars, pc, old, buildVars>>,
           \A k \in Keys : k < AccountsBefore[t] => Marked(k)'
    PROVE  IInv'
<1>1. \A w \in Workers : ChunkStart(t, w) \in Nat
  BY TierCovered
<1>2. Buffers' /\ AllFit'
  BY DEF IInv, Buffers, AllFit, Fits, treeVars
<1>3. Counters'
  BY <1>1 DEF IInv, Counters, buildVars
<1>4. \A w \in Workers : \A k \in Keys : ~ (ChunkStart(t, w) <= k /\ k < at'[w])
  BY <1>1, KeyWord
<1>5. SetRight'
  BY <1>1, <1>4 DEF SetRight, Quiet
<1> QED
  BY <1>2, <1>3, <1>5 DEF IInv

LEMMA StepNextTier == IInv /\ NextTier => IInv'
<1> SUFFICES ASSUME IInv, NextTier  PROVE IInv'
  OBVIOUS
<1>1. /\ Counters /\ SetRight /\ tier + 1 \in 1 .. Len(Accounts)
      /\ \A w \in Workers : at[w] >= ChunkEnd(tier, w)
  BY BeforeIs DEF NextTier, IInv, Counters
<1>2. Quiet /\ \A k \in Keys : k < AccountsBefore[tier+1] => Marked(k)
  BY <1>1, TierDone
<1>3. \A k : Marked(k)' = Marked(k)
  BY DEF NextTier, Marked, Leaf, BitAt, BitGet, treeVars
<1> QED
  BY <1>1, <1>2, <1>3, StepTier DEF NextTier, IInv, Counters

LEMMA StepNextRound == IInv /\ NextRound => IInv'
<1> SUFFICES ASSUME IInv, NextRound  PROVE IInv'
  OBVIOUS
<1>1. Quiet /\ 1 \in 1 .. Len(Accounts) /\ AccountsBefore[1] = 0 /\ round' \in 1 .. Rounds
  BY BeforeIs, SizeAssumption DEF NextRound, IInv, Counters
<1>2. \A k \in Keys : ~ (k < AccountsBefore[1])
  BY <1>1, KeyWord
<1> QED
  BY <1>1, <1>2, StepTier DEF NextRound

----------------------------------------------------------------------------
(* Building the levels.                                                    *)

TreeOf(r) ==
    CHOOSE f : f = [l \in 0 .. Depth |->
                      [p \in 0 .. Pow2[Depth - l] - 1 |->
                          IF l = 0 THEN IF p < Capacity THEN [account |-> p, round |-> r] ELSE NilLeaf
                          ELSE Hash(f[l-1][2 * p], f[l-1][2 * p + 1])]]

LEMMA MerkleSame == round' = round => Merkle' = Merkle
<1>1. Merkle = TreeOf(round)
  BY Zenon DEF Merkle, TreeOf
<1>2. Merkle' = TreeOf(round')
  BY Zenon DEF Merkle, TreeOf
<1> QED
  BY <1>1, <1>2

\* A level that no step touches stays right.
LEMMA LevelsSame ==
    ASSUME NEW l \in 0 .. Depth, UNCHANGED <<leaves, leavesDirty, round>>,
           l # 0 => levels'[l] = levels[l] /\ levelDirty'[l] = levelDirty[l],
           LevelRight(l)
    PROVE  LevelRight(l)'
<1>1. Merkle' = Merkle
  BY MerkleSame
<1>2. Bits(l)' = Bits(l)
  BY DEF Bits
<1>3. \A p : GetNodeAt(l, p)' = GetNodeAt(l, p)
  BY DEF GetNodeAt, BitGet, Words
<1> QED
  BY <1>1, <1>2, <1>3 DEF LevelRight, BitAt, BitGet, Words

\* When every account is marked the leaves are right.
LEMMA LeavesRight ==
    ASSUME AllMarked
    PROVE  LevelRight(0)
<1>1. Capacity \in Nat /\ Depth \in Nat /\ Depth - 0 = Depth /\ Pow2[Depth] \in Nat
  BY BeforeIs, Pow2Is, SizeAssumption
<1>2. ASSUME NEW p \in 0 .. Pow2[Depth] - 1
      PROVE  /\ GetNodeAt(0, p) = Merkle[0][p]
             /\ ~ BitAt(leavesDirty, p) => Merkle[0][p] = NilHashes[0]
  <2>1. p \in Nat
    OBVIOUS
  <2>2. CASE p < Capacity
    <3>1. Marked(p)
      BY <1>1, <2>1, <2>2 DEF AllMarked, Keys
    <3>2. Merkle[0][p] = Leaf(p)
      BY <2>2, MerkleIs DEF Leaf
    <3> QED
      BY <2>2, <3>1, <3>2 DEF Marked, BitAt, GetNodeAt
  <2>3. CASE ~ (p < Capacity)
    <3>1. Merkle[0][p] = NilHashes[0]
      BY <2>3, MerkleIs, NilHashesIs
    <3> QED
      BY <2>3, <3>1 DEF GetNodeAt
  <2> QED
    BY <2>2, <2>3
<1> QED
  BY <1>1, <1>2 DEF LevelRight, Bits

\* The two nodes below a node.
LEMMA Children ==
    ASSUME NEW l \in 1 .. Depth, NEW p \in 0 .. Pow2[Depth - l] - 1
    PROVE  /\ l - 1 \in 0 .. Depth /\ p \in Nat /\ 2 * p \in Nat
           /\ 2 * p \in 0 .. Pow2[Depth - (l - 1)] - 1
           /\ 2 * p + 1 \in 0 .. Pow2[Depth - (l - 1)] - 1
<1>1. Depth \in Nat /\ l \in Nat /\ l # 0 /\ l - 1 \in 0 .. Depth
  BY SizeAssumption
<1>2. Depth - (l - 1) \in 1 .. Depth /\ Depth - (l - 1) - 1 = Depth - l
  BY <1>1
<1>3. Pow2[Depth - (l - 1)] = 2 * Pow2[Depth - l]
  BY <1>2, Pow2Is
<1>4. Pow2[Depth - l] \in Nat
  BY <1>1, Pow2Is
<1> QED
  BY <1>1, <1>3, <1>4

\* Where no bit is set below there is nothing to hash.
LEMMA NothingBelow ==
    ASSUME NEW l \in 1 .. Depth, NEW p \in 0 .. Pow2[Depth - l] - 1, LevelRight(l - 1),
           ~ BitAt(Bits(l - 1), 2 * p), ~ BitAt(Bits(l - 1), 2 * p + 1)
    PROVE  Merkle[l][p] = NilHashes[l]
<1>1. /\ 2 * p \in 0 .. Pow2[Depth - (l - 1)] - 1
      /\ 2 * p + 1 \in 0 .. Pow2[Depth - (l - 1)] - 1
  BY Children
<1>2. Merkle[l-1][2 * p] = NilHashes[l-1] /\ Merkle[l-1][2 * p + 1] = NilHashes[l-1]
  BY <1>1 DEF LevelRight
<1> QED
  BY <1>2, MerkleIs, NilHashesIs

\* A level is begun, all below are right.
LEMMA StepBegin ==
    ASSUME IInv, Quiet, AllMarked, NEW l \in 1 .. Depth, NEW n \in Nat \ {0},
           Bitset(Bits(l - 1), n), Capacity <= n * WordBits * Pow2[l - 1],
           \A m \in 0 .. l - 1 : LevelRight(m),
           \A m \in 1 .. l - 1 : Covers(m),
           BeginLevel(l, PropagateDirty(Bits(l - 1))),
           UNCHANGED <<leaves, leavesDirty, root, round, setVars>>, phase' = "build"
    PROVE  IInv'
<1> DEFINE bs == Bits(l - 1)
           pd == PropagateDirty(bs)
           m == ParentLen(n)
           none == [p \in 0 .. m * WordBits - 1 |-> Zero]
<1>1. /\ m \in Nat \ {0} /\ n <= 2 * m
      /\ Bitset(pd, m) /\ Words(pd) = 0 .. m - 1 /\ Cardinality(Words(pd)) = m
      /\ \A p \in Nat : BitAt(pd, p) <=> BitAt(bs, 2 * p) \/ BitAt(bs, 2 * p + 1)
  BY ParentLenIs, PropagateIs, BitsetLen
<1>2. Depth \in Nat \ {0} /\ l \in Nat /\ l # 0 /\ l - 1 \in 0 .. Depth /\ WordBits \in Nat \ {0}
  BY SizeAssumption
<1>3. /\ levels' = [levels EXCEPT ![l] = none] /\ levelDirty' = [levelDirty EXCEPT ![l] = pd]
      /\ level' = l /\ word' = [w \in Workers |-> WordStart(m, w)]
  BY <1>1, Zenon DEF BeginLevel
<1>4. DOMAIN none = 0 .. m * WordBits - 1
  OBVIOUS
<1> HIDE DEF bs, pd, m, none
<1>5. /\ levels = [k \in 1 .. Depth |-> levels[k]] /\ levelDirty = [k \in 1 .. Depth |-> levelDirty[k]]
      /\ leaves = [k \in Keys |-> leaves[k]] /\ Bitset(leavesDirty, CeilDiv(Capacity, WordBits))
  BY DEF IInv, Buffers
<1>6. /\ levels' = [k \in 1 .. Depth |-> levels'[k]]
      /\ levelDirty' = [k \in 1 .. Depth |-> levelDirty'[k]]
      /\ levels'[l] = none /\ levelDirty'[l] = pd
      /\ \A k \in 1 .. Depth : k # l => levels'[k] = levels[k] /\ levelDirty'[k] = levelDirty[k]
  BY <1>3, <1>5
<1>7. Buffers'
  BY <1>5, <1>6 DEF Buffers
<1>8. Fits(l, m)'
  BY <1>1, <1>4, <1>6 DEF Fits
<1>9. AllFit'
  BY <1>1, <1>6, <1>8 DEF IInv, AllFit, Fits
<1>10. Counters'
  <2>1. \A w \in Workers : WordStart(m, w) \in Nat
    BY <1>1, WordsCovered
  <2> QED
    BY <1>3, <2>1 DEF IInv, Counters, setVars
<1>11. \A k \in 0 .. l - 1 : LevelRight(k)'
  BY <1>2, <1>6, LevelsSame
<1>12. \A k \in 1 .. l - 1 : Covers(k)'
  <2>1. \A k \in 1 .. l - 1 : k \in 1 .. Depth /\ k # l
    BY <1>2
  <2>2. \A k \in 1 .. l - 1, x \in Nat : Fits(k, x) => Fits(k, x)'
    BY <1>6, <2>1 DEF Fits
  <2> QED
    BY <2>2 DEF Covers
<1>13. Covers(l)'
  <2>1. Pow2[l] = 2 * Pow2[l-1] /\ Pow2[l-1] \in Nat \ {0} /\ Capacity \in Nat
    BY <1>2, Pow2Is, BeforeIs
  <2> DEFINE q == WordBits * Pow2[l-1]
  <2>2. q \in Nat
    BY <1>2, <2>1
  <2>3. n * WordBits * Pow2[l-1] = n * q /\ m * WordBits * Pow2[l] = 2 * m * q
    BY <1>1, <1>2, <2>1
  <2> HIDE DEF q
  <2>4. n * q <= 2 * m * q
    BY <1>1, <2>2
  <2>5. n * q \in Nat /\ 2 * m * q \in Nat
    BY <1>1, <2>2
  <2>6. Capacity <= m * WordBits * Pow2[l]
    BY <2>1, <2>3, <2>4, <2>5
  <2> QED
    BY <1>1, <1>8, <2>6 DEF Covers
<1>14. LevelPartly'
  <2>1. Merkle' = Merkle
    BY MerkleSame
  <2>2. LevelWords' = m
    BY <1>1, <1>3, <1>6 DEF LevelWords
  <2>3. ASSUME NEW p \in 0 .. Pow2[Depth - l] - 1
        PROVE  /\ ~ BitAt(pd, p) => Merkle[l][p] = NilHashes[l]
               /\ \A w \in Workers : ~ (WordStart(m, w) <= p \div WordBits /\ p \div WordBits < word'[w])
    <3>1. p \in Nat
      BY Children
    <3>2. ~ BitAt(pd, p) => Merkle[l][p] = NilHashes[l]
      BY <1>1, <1>2, <3>1, NothingBelow DEF bs
    <3>3. p \div WordBits \in Nat /\ \A w \in Workers : WordStart(m, w) \in Nat
      <4>1. p \div WordBits \in Nat
        BY <1>2, <3>1
      <4>2. \A w \in Workers : WordStart(m, w) \in Nat
        BY <1>1, WordsCovered
      <4> QED
        BY <4>1, <4>2
    <3> QED
      BY <1>3, <3>2, <3>3
  <2>4. \A p : BitAt(levelDirty[level], p)' = BitAt(pd, p)
    BY <1>3, <1>6 DEF BitAt, BitGet, Words
  <2> QED
    BY <1>3, <2>1, <2>2, <2>3, <2>4 DEF LevelPartly
<1>15. Quiet' /\ AllMarked'
  BY DEF Quiet, AllMarked, Marked, Leaf, BitAt, BitGet, Words, setVars
<1>16. BuildRight'
  <2>1. \A k \in 1 .. l : k \in 1 .. l - 1 \/ k = l
    BY <1>2
  <2> QED
    BY <1>3, <1>11, <1>12, <1>13, <1>14, <2>1 DEF BuildRight
<1> QED
  BY <1>7, <1>9, <1>10, <1>15, <1>16 DEF IInv

LEMMA StepBeginBuild == IInv /\ BeginBuild => IInv'
<1> SUFFICES ASSUME IInv, BeginBuild  PROVE IInv'
  OBVIOUS
<1>1. /\ Counters /\ SetRight /\ tier = Len(Accounts)
      /\ \A w \in Workers : at[w] >= ChunkEnd(tier, w)
  BY DEF BeginBuild, IInv
<1>2. Quiet /\ AllMarked
  <2>1. Quiet /\ \A k \in Keys : k < AccountsBefore[tier+1] => Marked(k)
    BY <1>1, TierDone
  <2>2. \A k \in Keys : k < AccountsBefore[tier+1]
    BY <1>1, KeyWord DEF Capacity
  <2> QED
    BY <2>1, <2>2 DEF AllMarked
<1>3. LevelRight(0)
  BY <1>2, LeavesRight
<1> DEFINE n == CeilDiv(Capacity, WordBits)
<1>4. /\ Capacity \in Nat \ {0} /\ WordBits \in Nat \ {0} /\ n \in Nat /\ Capacity <= n * WordBits
      /\ Pow2[0] = 1 /\ 1 \in 1 .. Depth
  <2>1. Capacity \in Nat \ {0} /\ WordBits \in Nat \ {0}
    BY BeforeIs, SizeAssumption
  <2>2. n \in Nat /\ Capacity <= n * WordBits
    BY <2>1, CeilDivIs
  <2>3. Pow2[0] = 1
    BY Pow2Is
  <2>4. 1 \in 1 .. Depth
    BY SizeAssumption
  <2> QED
    BY <2>1, <2>2, <2>3, <2>4
<1>5. Bitset(leavesDirty, n)
  BY DEF IInv, Buffers
<1> HIDE DEF n
<1>6. n \in Nat \ {0} /\ Capacity <= n * WordBits * Pow2[0]
  BY <1>4
<1>7. Bits(1 - 1) = leavesDirty
  BY DEF Bits
<1>8. BeginLevel(1, PropagateDirty(Bits(1 - 1)))
  BY <1>7 DEF BeginBuild
<1>9. \A m \in 0 .. 1 - 1 : LevelRight(m)
  BY <1>3
<1> QED
  BY <1>2, <1>4, <1>5, <1>6, <1>7, <1>8, <1>9, StepBegin DEF BeginBuild

\* What the level that is being built is made of.
LEMMA BuildingIs ==
    ASSUME IInv, phase = "build"
    PROVE  /\ level \in 1 .. Depth /\ BuildRight /\ Buffers /\ Counters
           /\ \E n \in Nat \ {0} : /\ Fits(level, n) /\ LevelWords = n
                                   /\ Words(levelDirty[level]) = 0 .. n - 1
                                   /\ Capacity <= n * WordBits * Pow2[level]
<1>1. level \in 1 .. Depth /\ BuildRight /\ Buffers /\ Counters
  BY DEF IInv, Counters
<1>2. Covers(level)
  BY <1>1, SizeAssumption DEF BuildRight
<1>3. PICK n \in Nat \ {0} : Fits(level, n) /\ Capacity <= n * WordBits * Pow2[level]
  BY <1>2 DEF Covers
<1>4. Words(levelDirty[level]) = 0 .. n - 1 /\ LevelWords = n
  BY <1>3, BitsetLen DEF Fits, LevelWords
<1> QED
  BY <1>1, <1>3, <1>4

\* A node is the hash of two nodes that are right.
LEMMA StepBuildWord ==
    ASSUME IInv, NEW w \in Workers, BuildWord(w)
    PROVE  IInv'
<1>1. phase = "build" /\ word[w] < WordEnd(LevelWords, w)
  BY DEF BuildWord, Building
<1>2. level \in 1 .. Depth /\ BuildRight /\ Buffers /\ Counters
  BY <1>1, BuildingIs
<1>3. PICK n \in Nat \ {0} : Fits(level, n) /\ LevelWords = n /\ Words(levelDirty[level]) = 0 .. n - 1
  BY <1>1, BuildingIs
<1> DEFINE new == [p \in DOMAIN levels[level] |->
                     IF p \div WordBits = word[w] /\ BitGet(levelDirty[level], p)
                     THEN Hash(GetNodeAt(level - 1, 2 * p), GetNodeAt(level - 1, 2 * p + 1))
                     ELSE levels[level][p]]
<1>4. /\ levels' = [levels EXCEPT ![level] = new] /\ word' = [word EXCEPT ![w] = word[w] + 1]
      /\ UNCHANGED <<leaves, leavesDirty, levelDirty, root, phase, round, setVars, level>>
  BY DEF BuildWord
<1>5. DOMAIN new = DOMAIN levels[level]
  OBVIOUS
<1>6. \A p \in DOMAIN levels[level] :
        new[p] = IF p \div WordBits = word[w] /\ BitGet(levelDirty[level], p)
                 THEN Hash(GetNodeAt(level - 1, 2 * p), GetNodeAt(level - 1, 2 * p + 1))
                 ELSE levels[level][p]
  OBVIOUS
<1> HIDE DEF new
<1>7. /\ levels' = [k \in 1 .. Depth |-> levels'[k]] /\ levels'[level] = new
      /\ \A k \in 1 .. Depth : k # level => levels'[k] = levels[k]
  BY <1>2, <1>4 DEF Buffers
<1>8. word \in [Workers -> Nat] /\ word' \in [Workers -> Nat] /\ word'[w] = word[w] + 1
      /\ \A v \in Workers : v # w => word'[v] = word[v]
  BY <1>2, <1>4 DEF Counters
<1>9. Buffers'
  BY <1>2, <1>4, <1>7 DEF Buffers
<1>10. \A k \in 1 .. Depth : DOMAIN levels'[k] = DOMAIN levels[k]
  BY <1>5, <1>7
<1>11. \A k \in 1 .. Depth, m \in Nat : Fits(k, m) => Fits(k, m)'
  BY <1>4, <1>10 DEF Fits
<1>12. AllFit'
  BY <1>11 DEF IInv, AllFit
<1>13. Counters'
  BY <1>2, <1>4, <1>8 DEF Counters, setVars
<1>14. Quiet' /\ AllMarked'
  BY <1>1, <1>4 DEF IInv, Quiet, AllMarked, Marked, Leaf, BitAt, BitGet, Words, setVars
<1>15. \A k \in 0 .. level - 1 : LevelRight(k)'
  <2>1. \A k \in 0 .. level - 1 : k \in 0 .. Depth /\ (k # 0 => k \in 1 .. Depth /\ k # level)
    BY <1>2, SizeAssumption
  <2> QED
    BY <1>2, <1>4, <1>7, <2>1, LevelsSame DEF BuildRight
<1>16. \A k \in 1 .. level : Covers(k)'
  <2>1. \A k \in 1 .. level : k \in 1 .. Depth
    BY <1>2, SizeAssumption
  <2> QED
    BY <1>2, <1>11, <2>1 DEF BuildRight, Covers
<1>17. LevelPartly'
  <2>1. Merkle' = Merkle /\ LevelWords' = n
    BY <1>3, <1>4, MerkleSame DEF LevelWords
  <2>2. LevelPartly /\ LevelRight(level - 1)
    BY <1>2, SizeAssumption DEF BuildRight
  <2>3. ASSUME NEW p \in 0 .. Pow2[Depth - level] - 1, BitAt(levelDirty[level], p),
               NEW v \in Workers, WordStart(n, v) <= p \div WordBits, p \div WordBits < word'[v]
        PROVE  levels'[level][p] = Merkle[level][p]
    <3>1. /\ p \in Nat /\ 2 * p \in 0 .. Pow2[Depth - (level - 1)] - 1
          /\ 2 * p + 1 \in 0 .. Pow2[Depth - (level - 1)] - 1
      BY <1>2, Children
    <3>2. p \div WordBits \in 0 .. n - 1 /\ BitGet(levelDirty[level], p)
      BY <1>3, <2>3 DEF BitAt
    <3>3. p \in DOMAIN levels[level]
      <4>1. WordBits \in Nat \ {0} /\ p < (p \div WordBits + 1) * WordBits
        BY <3>1, SizeAssumption
      <4> DEFINE i == p \div WordBits
      <4> HIDE DEF i
      <4>2. i \in Nat /\ i + 1 <= n /\ p < (i + 1) * WordBits
        BY <3>2, <4>1 DEF i
      <4>3. (i + 1) * WordBits <= n * WordBits
        BY <4>1, <4>2
      <4>4. (i + 1) * WordBits \in Nat /\ n * WordBits \in Nat
        BY <4>1, <4>2
      <4>5. p \in 0 .. n * WordBits - 1
        BY <3>1, <4>2, <4>3, <4>4
      <4> QED
        BY <1>3, <4>5 DEF Fits
    <3>4. CASE p \div WordBits = word[w]
      <4>1. new[p] = Hash(GetNodeAt(level - 1, 2 * p), GetNodeAt(level - 1, 2 * p + 1))
        BY <1>6, <3>2, <3>3, <3>4
      <4>2. /\ GetNodeAt(level - 1, 2 * p) = Merkle[level-1][2 * p]
            /\ GetNodeAt(level - 1, 2 * p + 1) = Merkle[level-1][2 * p + 1]
        BY <2>2, <3>1 DEF LevelRight
      <4> QED
        BY <1>2, <1>7, <4>1, <4>2, MerkleIs
    <3>5. CASE p \div WordBits # word[w]
      <4>1. p \div WordBits < word[v]
        BY <1>8, <2>3, <3>2, <3>5
      <4>2. levels[level][p] = Merkle[level][p]
        BY <1>3, <2>2, <2>3, <4>1 DEF LevelPartly
      <4> QED
        BY <1>6, <1>7, <3>3, <3>5, <4>2
    <3> QED
      BY <3>4, <3>5
  <2>4. level' = level /\ \A p : BitAt(levelDirty[level], p)' = BitAt(levelDirty[level], p)
    BY <1>4 DEF BitAt, BitGet, Words
  <2>5. ASSUME NEW p \in 0 .. Pow2[Depth - level] - 1, ~ BitAt(levelDirty[level], p)
        PROVE  Merkle[level][p] = NilHashes[level]
    BY <2>2, <2>5 DEF LevelPartly
  <2> QED
    BY <2>1, <2>3, <2>4, <2>5 DEF LevelPartly
<1>18. BuildRight'
  BY <1>4, <1>15, <1>16, <1>17 DEF BuildRight
<1> QED
  BY <1>1, <1>4, <1>9, <1>12, <1>13, <1>14, <1>18 DEF IInv

\* When all words are passed the level is right.
LEMMA LevelDoneRight ==
    ASSUME IInv, LevelDone
    PROVE  LevelRight(level)
<1>1. phase = "build" /\ \A w \in Workers : ~ (word[w] < WordEnd(LevelWords, w))
  BY DEF LevelDone, Building
<1>2. level \in 1 .. Depth /\ level # 0 /\ BuildRight /\ Counters
  BY <1>1, BuildingIs, SizeAssumption
<1>3. PICK n \in Nat \ {0} : LevelWords = n /\ Words(levelDirty[level]) = 0 .. n - 1
  BY <1>1, BuildingIs
<1>4. ASSUME NEW p \in 0 .. Pow2[Depth - level] - 1
      PROVE  /\ GetNodeAt(level, p) = Merkle[level][p]
             /\ ~ BitAt(levelDirty[level], p) => Merkle[level][p] = NilHashes[level]
  <2>1. CASE BitAt(levelDirty[level], p)
    <3>1. p \div WordBits \in 0 .. n - 1
      BY <1>3, <2>1 DEF BitAt
    <3>2. PICK w \in Workers : WordStart(n, w) <= p \div WordBits /\ p \div WordBits < WordEnd(n, w)
      BY <3>1, WordsCovered
    <3>3. p \div WordBits < word[w]
      <4>1. word[w] \in Nat /\ WordEnd(n, w) \in Nat
        BY <1>2, WordsCovered DEF Counters
      <4>2. ~ (word[w] < WordEnd(n, w))
        BY <1>1, <1>3
      <4> QED
        BY <3>1, <3>2, <4>1, <4>2
    <3>4. levels[level][p] = Merkle[level][p]
      BY <1>2, <1>3, <2>1, <3>2, <3>3 DEF BuildRight, LevelPartly
    <3> QED
      BY <1>2, <2>1, <3>4 DEF GetNodeAt, BitAt
  <2>2. CASE ~ BitAt(levelDirty[level], p)
    <3>1. Merkle[level][p] = NilHashes[level]
      BY <1>2, <2>2 DEF BuildRight, LevelPartly
    <3> QED
      BY <1>2, <2>2, <3>1 DEF GetNodeAt, BitAt
  <2> QED
    BY <2>1, <2>2
<1> QED
  BY <1>2, <1>4 DEF LevelRight, Bits

LEMMA StepNextLevel == IInv /\ NextLevel => IInv'
<1> SUFFICES ASSUME IInv, NextLevel  PROVE IInv'
  OBVIOUS
<1>1. phase = "build" /\ LevelDone /\ level < Depth
  BY DEF NextLevel, LevelDone
<1>2. level \in 1 .. Depth /\ BuildRight /\ Depth \in Nat
  BY <1>1, BuildingIs, SizeAssumption
<1>3. PICK n \in Nat \ {0} : Fits(level, n) /\ Capacity <= n * WordBits * Pow2[level]
  BY <1>1, BuildingIs
<1> DEFINE l == level + 1
<1>4. l \in 1 .. Depth /\ l - 1 = level /\ level # 0
  BY <1>1, <1>2
<1>5. Bits(l - 1) = levelDirty[level]
  BY <1>4 DEF Bits
<1>6. LevelRight(level)
  BY <1>1, LevelDoneRight
<1>7. \A m \in 0 .. l - 1 : LevelRight(m)
  <2>1. \A m \in 0 .. level : m \in 0 .. level - 1 \/ m = level
    BY <1>2
  <2> QED
    BY <1>2, <1>4, <1>6, <2>1 DEF BuildRight
<1>8. \A m \in 1 .. l - 1 : Covers(m)
  BY <1>2, <1>4 DEF BuildRight
<1>9. BeginLevel(l, PropagateDirty(Bits(l - 1)))
  BY <1>5 DEF NextLevel
<1>10. Bitset(Bits(l - 1), n) /\ Capacity <= n * WordBits * Pow2[l - 1]
  BY <1>3, <1>4, <1>5 DEF Fits
<1>11. Quiet /\ AllMarked
  BY <1>1 DEF IInv
<1>12. UNCHANGED <<leaves, leavesDirty, root, round, setVars>> /\ phase' = "build"
  BY <1>1 DEF NextLevel
<1> HIDE DEF l
<1> QED
  BY <1>4, <1>7, <1>8, <1>9, <1>10, <1>11, <1>12, StepBegin

LEMMA StepSetRoot == IInv /\ SetRoot => IInv'
<1> SUFFICES ASSUME IInv, SetRoot  PROVE IInv'
  OBVIOUS
<1>1. phase = "build" /\ LevelDone /\ level = Depth
  BY DEF SetRoot, LevelDone
<1>2. level \in 1 .. Depth /\ BuildRight /\ Depth \in Nat \ {0}
  BY <1>1, BuildingIs, SizeAssumption
<1>3. LevelRight(Depth)
  BY <1>1, LevelDoneRight
<1>4. PICK n \in Nat \ {0} : Words(levelDirty[level]) = 0 .. n - 1
  BY <1>1, BuildingIs
<1>5. root' = Merkle[Depth][0]
  <2>1. 0 \in 0 .. Pow2[Depth - Depth] - 1 /\ 0 \div WordBits = 0
    BY <1>2, Pow2Is, SizeAssumption
  <2>2. 0 \div WordBits \in Words(levelDirty[Depth])
    BY <1>1, <1>4, <2>1
  <2>3. GetNodeAt(Depth, 0) = Merkle[Depth][0]
    BY <1>3, <2>1 DEF LevelRight
  <2>4. GetNodeAt(Depth, 0) = root'
    BY <1>2, <2>2 DEF GetNodeAt, SetRoot
  <2> QED
    BY <2>3, <2>4
<1>6. UNCHANGED <<leaves, leavesDirty, levels, levelDirty, round, tier, at, pc, old, level, word>>
      /\ phase' = "built"
  BY DEF SetRoot, setVars, buildVars
<1>7. \A l \in 0 .. Depth : LevelRight(l)'
  <2>1. \A l \in 0 .. Depth : l \in 0 .. level - 1 \/ l = Depth
    BY <1>1, <1>2
  <2>2. \A l \in 0 .. Depth : LevelRight(l)
    BY <1>2, <1>3, <2>1 DEF BuildRight
  <2> QED
    BY <1>6, <2>2, LevelsSame
<1>8. BuiltRight'
  <2>1. Merkle' = Merkle
    BY <1>6, MerkleSame
  <2> QED
    BY <1>5, <1>7, <2>1 DEF BuiltRight
<1>9. Buffers' /\ AllFit' /\ Counters'
  BY <1>6 DEF IInv, Buffers, AllFit, Fits, Counters
<1>10. Quiet' /\ AllMarked'
  BY <1>1, <1>6 DEF IInv, Quiet, AllMarked, Marked, Leaf, BitAt, BitGet, Words
<1> QED
  BY <1>6, <1>8, <1>9, <1>10 DEF IInv

LEMMA StepSame == IInv /\ UNCHANGED vars => IInv'
<1> SUFFICES ASSUME IInv, UNCHANGED vars  PROVE IInv'
  OBVIOUS
<1>1. UNCHANGED <<leaves, leavesDirty, levels, levelDirty, root, phase, round, tier, at, pc, old,
                  level, word>>
  BY DEF vars, treeVars, setVars, buildVars
<1>2. Merkle' = Merkle
  BY <1>1, MerkleSame
<1>3. /\ \A l \in 0 .. Depth : LevelRight(l) => LevelRight(l)'
      /\ \A l : Covers(l) => Covers(l)'
      /\ LevelPartly => LevelPartly'
  <2>1. \A l \in 0 .. Depth : LevelRight(l) => LevelRight(l)'
    BY <1>1, LevelsSame
  <2>2. \A l : Covers(l) => Covers(l)'
    BY <1>1 DEF Covers, Fits
  <2>3. LevelPartly => LevelPartly'
    BY <1>1, <1>2 DEF LevelPartly, LevelWords, BitAt, BitGet, Words
  <2> QED
    BY <2>1, <2>2, <2>3
<1>4. BuildRight /\ Counters => BuildRight'
  <2>1. Counters => \A l \in 0 .. level - 1 : l \in 0 .. Depth
    BY SizeAssumption DEF Counters
  <2> QED
    BY <1>1, <1>3, <2>1 DEF BuildRight
<1>5. BuiltRight => BuiltRight'
  BY <1>1, <1>2, <1>3 DEF BuiltRight
<1>6. (SetRight => SetRight') /\ (Quiet => Quiet') /\ (AllMarked => AllMarked')
  BY <1>1 DEF SetRight, Quiet, AllMarked, Marked, Leaf, BitAt, BitGet, Words
<1>7. Buffers' /\ AllFit' /\ Counters'
  BY <1>1 DEF IInv, Buffers, AllFit, Fits, Counters
<1> QED
  BY <1>1, <1>4, <1>5, <1>6, <1>7 DEF IInv

LEMMA StepInv == IInv /\ [Next]_vars => IInv'
<1> SUFFICES ASSUME IInv, [Next]_vars  PROVE IInv'
  OBVIOUS
<1>1. ASSUME NEW w \in Workers, Set(w) \/ BuildWord(w)  PROVE IInv'
  BY <1>1, StepCopy, StepLoad, StepSwap, StepSwapFails, StepBuildWord DEF Set
<1>2. CASE Main
  BY <1>2, StepNextTier, StepBeginBuild, StepNextLevel, StepSetRoot DEF Main
<1>3. CASE NextRound
  BY <1>3, StepNextRound
<1>4. CASE UNCHANGED vars
  BY <1>4, StepSame
<1> QED
  BY <1>1, <1>2, <1>3, <1>4 DEF Next, Done

LEMMA Invariant == Spec => []IInv
<1>1. Init => IInv
  BY InitInv
<1>2. IInv /\ [Next]_vars => IInv'
  BY StepInv
<1> QED
  BY <1>1, <1>2, PTL DEF Spec

----------------------------------------------------------------------------
(* Proofs.                                                                 *)

\* The node above key at level l.
Above(key, l) == key \div Pow2[l]

LEMMA AboveIs ==
    ASSUME NEW key \in 0 .. Pow2[Depth] - 1
    PROVE  /\ Above(key, 0) = key
           /\ \A l \in 1 .. Depth : Above(key, l) = Above(key, l - 1) \div 2
           /\ \A l \in 0 .. Depth : Above(key, l) \in 0 .. Pow2[Depth - l] - 1
<1>1. Depth \in Nat /\ key \in Nat
  BY SizeAssumption
<1>2. Pow2[Depth] \in Nat \ {0} /\ Pow2[0] = 1
  BY <1>1, Pow2Is
<1>3. Above(key, 0) = key
  BY <1>1, <1>2 DEF Above
<1>4. ASSUME NEW l \in 1 .. Depth
      PROVE  Above(key, l) = Above(key, l - 1) \div 2 /\ Above(key, l - 1) \in Nat
  <2>1. l - 1 \in 0 .. Depth /\ Pow2[l] = 2 * Pow2[l-1]
    BY <1>1, Pow2Is
  <2>2. Pow2[l-1] \in Nat \ {0}
    BY <2>1, Pow2Is
  <2>3. \A P \in Nat \ {0} : key \div (2 * P) = (key \div P) \div 2 /\ key \div P \in Nat
    <3> TAKE P \in Nat \ {0}
    <3> DEFINE a == key \div P
               b == a \div 2
    <3>1. a \in Nat /\ a * P <= key /\ key < a * P + P
      BY <1>1
    <3> HIDE DEF a
    <3>2. b \in Nat /\ 2 * b <= a /\ a <= 2 * b + 1
      BY <3>1
    <3> HIDE DEF b
    <3>3. 2 * b * P <= a * P /\ a * P <= 2 * b * P + P
      BY <3>1, <3>2
    <3>4. 2 * b * P = b * (2 * P) /\ b * (2 * P) \in Nat /\ a * P \in Nat
      BY <3>1, <3>2
    <3>5. b * (2 * P) <= key /\ key < b * (2 * P) + 2 * P
      BY <1>1, <3>1, <3>3, <3>4
    <3>6. key \div (2 * P) = b
      BY <1>1, <3>2, <3>5
    <3> QED
      BY <3>1, <3>6 DEF a, b
  <2> QED
    BY <2>1, <2>2, <2>3 DEF Above
<1> DEFINE R == {l \in Nat : l <= Depth /\ Above(key, l) \notin 0 .. Pow2[Depth - l] - 1}
<1>5. R = {}
  <2> SUFFICES ASSUME R # {}  PROVE FALSE
    OBVIOUS
  <2>1. PICK m \in R : \A k \in R : m <= k
    BY LeastNat
  <2>2. m # 0
    BY <1>1, <1>3, <2>1
  <2>3. m \in 1 .. Depth /\ m - 1 \in Nat /\ m - 1 \notin R /\ m - 1 <= Depth
    BY <1>1, <2>1, <2>2
  <2>4. Above(key, m - 1) \in 0 .. Pow2[Depth - (m - 1)] - 1
    BY <2>3
  <2>5. Depth - (m - 1) \in 1 .. Depth /\ Depth - (m - 1) - 1 = Depth - m /\ Depth - m \in 0 .. Depth
    BY <1>1, <2>3
  <2>6. Pow2[Depth - (m - 1)] = 2 * Pow2[Depth - m] /\ Pow2[Depth - m] \in Nat
    BY <2>5, Pow2Is
  <2>7. \A a, q \in Nat : a \in 0 .. 2 * q - 1 => a \div 2 \in 0 .. q - 1
    OBVIOUS
  <2>8. Above(key, m - 1) \div 2 \in 0 .. Pow2[Depth - m] - 1
    BY <2>4, <2>6, <2>7
  <2>9. Above(key, m) \in 0 .. Pow2[Depth - m] - 1
    BY <1>4, <2>3, <2>8
  <2> QED
    BY <2>1, <2>9
<1>6. \A l \in 0 .. Depth : l \in Nat /\ l <= Depth
  BY <1>1
<1>7. \A l \in 0 .. Depth : Above(key, l) \in 0 .. Pow2[Depth - l] - 1
  BY <1>5, <1>6
<1> QED
  BY <1>3, <1>4, <1>7

NodesTo(f, key, proof, leaf, n) ==
    f = [l \in 0 .. n |->
            IF l = 0 THEN leaf
            ELSE IF (key \div Pow2[l-1]) % 2 = 0 THEN Hash(f[l-1], proof[l-1])
            ELSE Hash(proof[l-1], f[l-1])]

\* Climb satisfies its recursion.
LEMMA ClimbIs ==
    ASSUME NEW key, NEW proof, NEW leaf
    PROVE  \E node :
             /\ Climb(key, proof, leaf) = node[Depth] /\ node[0] = leaf
             /\ \A l \in 1 .. Depth :
                  node[l] = IF Above(key, l - 1) % 2 = 0 THEN Hash(node[l-1], proof[l-1])
                            ELSE Hash(proof[l-1], node[l-1])
<1> DEFINE S == {m \in Nat : ~ \E f : NodesTo(f, key, proof, leaf, m)}
<1>1. S = {}
  <2> SUFFICES ASSUME S # {}  PROVE FALSE
    OBVIOUS
  <2>1. PICK m \in S : \A k \in S : m <= k
    BY LeastNat
  <2>2. m # 0
    <3> DEFINE g == [l \in 0 .. 0 |-> leaf]
    <3>1. NodesTo(g, key, proof, leaf, 0)
      BY DEF NodesTo
    <3> QED
      BY <2>1, <3>1
  <2>3. m - 1 \in Nat /\ m - 1 \notin S
    BY <2>1, <2>2
  <2>4. PICK f : NodesTo(f, key, proof, leaf, m - 1)
    BY <2>3
  <2> DEFINE g == [l \in 0 .. m |->
                     IF l = m THEN IF (key \div Pow2[m-1]) % 2 = 0 THEN Hash(f[m-1], proof[m-1])
                                   ELSE Hash(proof[m-1], f[m-1])
                     ELSE f[l]]
  <2>5. NodesTo(g, key, proof, leaf, m)
    BY <2>2, <2>3, <2>4 DEF NodesTo
  <2> QED
    BY <2>1, <2>5
<1>2. Depth \in Nat
  BY SizeAssumption
<1>3. \E f : f = [l \in 0 .. Depth |->
                    IF l = 0 THEN leaf
                    ELSE IF (key \div Pow2[l-1]) % 2 = 0 THEN Hash(f[l-1], proof[l-1])
                    ELSE Hash(proof[l-1], f[l-1])]
  BY <1>1, <1>2 DEF NodesTo
<1> DEFINE node[l \in 0 .. Depth] ==
             IF l = 0 THEN leaf
             ELSE IF (key \div Pow2[l-1]) % 2 = 0 THEN Hash(node[l-1], proof[l-1])
             ELSE Hash(proof[l-1], node[l-1])
<1>4. Climb(key, proof, leaf) = node[Depth]
  BY Zenon DEF Climb
<1>5. node = [l \in 0 .. Depth |->
                IF l = 0 THEN leaf
                ELSE IF (key \div Pow2[l-1]) % 2 = 0 THEN Hash(node[l-1], proof[l-1])
                ELSE Hash(proof[l-1], node[l-1])]
  BY <1>3, Zenon
<1> HIDE DEF node
<1>6. node[0] = leaf
  BY <1>2, <1>5
<1>7. \A l \in 1 .. Depth :
        node[l] = IF Above(key, l - 1) % 2 = 0 THEN Hash(node[l-1], proof[l-1])
                  ELSE Hash(proof[l-1], node[l-1])
  BY <1>2, <1>5 DEF Above
<1> QED
  BY <1>4, <1>6, <1>7

\* The siblings of the nodes above a key are nodes of the tree.
LEMMA SiblingIs ==
    ASSUME NEW key \in 0 .. Pow2[Depth] - 1, NEW l \in 1 .. Depth,
           NEW p, p = Above(key, l)
    PROVE  /\ p \in 0 .. Pow2[Depth - l] - 1
           /\ Sibling(Above(key, l - 1)) \in 0 .. Pow2[Depth - (l - 1)] - 1
           /\ IF Above(key, l - 1) % 2 = 0
              THEN Above(key, l - 1) = 2 * p /\ Sibling(Above(key, l - 1)) = 2 * p + 1
              ELSE Above(key, l - 1) = 2 * p + 1 /\ Sibling(Above(key, l - 1)) = 2 * p
<1>1. l \in 0 .. Depth /\ l - 1 \in 0 .. Depth
  BY SizeAssumption
<1>2. p \in 0 .. Pow2[Depth - l] - 1 /\ p = Above(key, l - 1) \div 2
  BY <1>1, AboveIs
<1>3. Above(key, l - 1) \in 0 .. Pow2[Depth - (l - 1)] - 1
  BY <1>1, AboveIs
<1>4. /\ 2 * p \in 0 .. Pow2[Depth - (l - 1)] - 1
      /\ 2 * p + 1 \in 0 .. Pow2[Depth - (l - 1)] - 1
  BY <1>2, Children
<1> DEFINE a == Above(key, l - 1)
<1>5. a \in Nat /\ p = a \div 2
  BY <1>2, <1>3
<1> HIDE DEF a
<1>6. IF a % 2 = 0 THEN a = 2 * p /\ Sibling(a) = 2 * p + 1
      ELSE a = 2 * p + 1 /\ Sibling(a) = 2 * p
  <2>1. p \in Nat /\ (a % 2 = 0 => a = 2 * p) /\ (a % 2 # 0 => a = 2 * p + 1)
    BY <1>5
  <2> QED
    BY <2>1 DEF Sibling
<1> QED
  BY <1>2, <1>4, <1>6 DEF a

\* The proof of a key leads to the root from its leaf only.
LEMMA ClimbVerifies ==
    ASSUME BuiltRight, NEW key \in 0 .. Pow2[Depth] - 1, NEW leaf
    PROVE  Climb(key, GetProof(key), leaf) = root <=> leaf = Merkle[0][key]
<1> DEFINE proof == GetProof(key)
<1>1. PICK node :
        /\ Climb(key, proof, leaf) = node[Depth] /\ node[0] = leaf
        /\ \A l \in 1 .. Depth :
             node[l] = IF Above(key, l - 1) % 2 = 0 THEN Hash(node[l-1], proof[l-1])
                       ELSE Hash(proof[l-1], node[l-1])
  BY ClimbIs
<1>2. Depth \in Nat
  BY SizeAssumption
<1>3. ASSUME NEW l \in 1 .. Depth
      PROVE  proof[l-1] = Merkle[l-1][Sibling(Above(key, l - 1))]
  <2>1. l - 1 \in 0 .. Depth - 1 /\ l - 1 \in 0 .. Depth
    BY <1>2
  <2>2. proof[l-1] = GetNodeAt(l - 1, Sibling(Above(key, l - 1)))
    BY <2>1 DEF GetProof, Above
  <2>3. Sibling(Above(key, l - 1)) \in 0 .. Pow2[Depth - (l - 1)] - 1
    BY SiblingIs
  <2>4. LevelRight(l - 1)
    BY <2>1 DEF BuiltRight
  <2> QED
    BY <2>2, <2>3, <2>4 DEF LevelRight
<1> HIDE DEF proof
<1> DEFINE R == {l \in Nat : l <= Depth /\ ~ (node[l] = Merkle[l][Above(key, l)] <=> leaf = Merkle[0][key])}
<1>4. R = {}
  <2> SUFFICES ASSUME R # {}  PROVE FALSE
    OBVIOUS
  <2>1. PICK m \in R : \A k \in R : m <= k
    BY LeastNat
  <2>2. m # 0
    BY <1>1, <2>1, AboveIs
  <2>3. m \in 1 .. Depth /\ m - 1 \in Nat /\ m - 1 \notin R /\ m - 1 <= Depth
    BY <1>2, <2>1, <2>2
  <2>4. node[m-1] = Merkle[m-1][Above(key, m - 1)] <=> leaf = Merkle[0][key]
    BY <2>3
  <2> DEFINE p == Above(key, m)
  <2>5. /\ p \in 0 .. Pow2[Depth - m] - 1
        /\ IF Above(key, m - 1) % 2 = 0
           THEN Above(key, m - 1) = 2 * p /\ Sibling(Above(key, m - 1)) = 2 * p + 1
           ELSE Above(key, m - 1) = 2 * p + 1 /\ Sibling(Above(key, m - 1)) = 2 * p
    BY <2>3, SiblingIs
  <2> HIDE DEF p
  <2>6. Merkle[m][p] = Hash(Merkle[m-1][2 * p], Merkle[m-1][2 * p + 1])
    BY <2>3, <2>5, MerkleIs
  <2>7. node[m] = Merkle[m][p] <=> node[m-1] = Merkle[m-1][Above(key, m - 1)]
    <3>1. CASE Above(key, m - 1) % 2 = 0
      <4>1. node[m] = Hash(node[m-1], Merkle[m-1][2 * p + 1]) /\ Above(key, m - 1) = 2 * p
        BY <1>1, <1>3, <2>3, <2>5, <3>1
      <4> QED
        BY <2>6, <4>1 DEF Hash
    <3>2. CASE Above(key, m - 1) % 2 # 0
      <4>1. node[m] = Hash(Merkle[m-1][2 * p], node[m-1]) /\ Above(key, m - 1) = 2 * p + 1
        BY <1>1, <1>3, <2>3, <2>5, <3>2
      <4> QED
        BY <2>6, <4>1 DEF Hash
    <3> QED
      BY <3>1, <3>2
  <2> QED
    BY <2>1, <2>4, <2>7 DEF p
<1>5. node[Depth] = Merkle[Depth][Above(key, Depth)] <=> leaf = Merkle[0][key]
  BY <1>2, <1>4
<1>6. Above(key, Depth) = 0
  <2>1. Depth \in 0 .. Depth /\ Depth - Depth = 0 /\ Pow2[0] = 1
    BY <1>2, Pow2Is
  <2> QED
    BY <2>1, AboveIs
<1> QED
  BY <1>1, <1>5, <1>6 DEF BuiltRight, proof

----------------------------------------------------------------------------
(* The theorems.                                                           *)

LEMMA FitsIs ==
    ASSUME NEW l, NEW n \in Nat, Fits(l, n)
    PROVE  /\ Cardinality(Words(levelDirty[l])) = n
           /\ Cardinality(DOMAIN levels[l]) = n * WordBits /\ n * WordBits \in Nat
           /\ \A i \in Words(levelDirty[l]) : levelDirty[l][i] \subseteq 0 .. WordBits - 1
<1>1. n * WordBits \in Nat
  BY SizeAssumption
<1>2. Cardinality(0 .. n * WordBits - 1) = n * WordBits
  BY <1>1, FS_Interval
<1>3. Cardinality(Words(levelDirty[l])) = n /\ Words(levelDirty[l]) = 0 .. n - 1
  BY BitsetLen DEF Fits
<1> QED
  BY <1>1, <1>2, <1>3 DEF Fits, Bitset

LEMMA CoversIs ==
    ASSUME NEW l \in 1 .. Depth, Covers(l)
    PROVE  Cardinality(DOMAIN levels[l]) >= CeilDiv(Capacity, Pow2[l])
<1>1. PICK n \in Nat \ {0} : Fits(l, n) /\ Capacity <= n * WordBits * Pow2[l]
  BY DEF Covers
<1> DEFINE N == n * WordBits
<1>2. Cardinality(DOMAIN levels[l]) = N /\ N \in Nat
  BY <1>1, FitsIs
<1>3. Capacity <= N * Pow2[l]
  BY <1>1
<1> HIDE DEF N
<1>4. l \in 0 .. Depth
  BY SizeAssumption
<1> DEFINE P == Pow2[l]
           q == CeilDiv(Capacity, P)
<1>5. P \in Nat \ {0} /\ Capacity \in Nat /\ Capacity <= N * P
  BY <1>3, <1>4, Pow2Is, BeforeIs
<1> HIDE DEF P
<1>6. q \in Nat /\ q * P <= Capacity + P - 1
  BY <1>5 DEF CeilDiv
<1> HIDE DEF q
<1>7. q <= N
  <2> SUFFICES ASSUME N + 1 <= q  PROVE FALSE
    BY <1>2, <1>6
  <2>1. (N + 1) * P <= q * P
    BY <1>2, <1>5, <1>6
  <2>2. (N + 1) * P = N * P + P /\ N * P \in Nat /\ q * P \in Nat
    BY <1>2, <1>5, <1>6
  <2> QED
    BY <1>5, <1>6, <2>1, <2>2
<1> QED
  BY <1>2, <1>6, <1>7 DEF P, q

\* The buffers and bitsets have their sizes and the counters their ranges,
\* whatever the tiers and the chunks.
THEOREM TypeCorrect == Spec => []TypeOK
<1>1. ASSUME IInv  PROVE TypeOK
  <2>1. DOMAIN leaves = Keys /\ \A i \in Words(leavesDirty) : leavesDirty[i] \subseteq 0 .. WordBits - 1
    BY <1>1 DEF IInv, Buffers, Bitset, Words
  <2>2. ASSUME NEW l \in 1 .. Depth
        PROVE  /\ \A i \in Words(levelDirty[l]) : levelDirty[l][i] \subseteq 0 .. WordBits - 1
               /\ Cardinality(DOMAIN levels[l]) = WordBits * Cardinality(Words(levelDirty[l]))
    <3>1. PICK n \in Nat : Fits(l, n)
      BY <1>1 DEF IInv, AllFit
    <3>2. n * WordBits = WordBits * n
      BY SizeAssumption
    <3> QED
      BY <3>1, <3>2, FitsIs
  <2>3. ASSUME NEW l \in 1 .. Depth, l <= level, phase = "build"
        PROVE  Cardinality(DOMAIN levels[l]) >= CeilDiv(Capacity, Pow2[l])
    <3>1. l \in 1 .. level
      BY <1>1, <2>3, SizeAssumption DEF IInv, Counters
    <3> QED
      BY <1>1, <2>3, <3>1, CoversIs DEF IInv, BuildRight
  <2> QED
    BY <1>1, <2>1, <2>2, <2>3 DEF IInv, Counters, TypeOK
<1> QED
  BY <1>1, Invariant, PTL

\* A built tree has the Merkle root of the leaves that were set last, whatever
\* the goroutines' schedule in setting the leaves and in building the levels.
THEOREM RootIsMerkle == Spec => []BuiltIsMerkle
<1>1. IInv => BuiltIsMerkle
  BY DEF IInv, BuiltRight, BuiltIsMerkle
<1> QED
  BY <1>1, Invariant, PTL

\* In a built tree the proof of a key verifies the leaf at this key and no other.
THEOREM ProofsVerified == Spec => []ProofsVerify
<1>1. ASSUME IInv, phase = "built", NEW key \in 0 .. Pow2[Depth] - 1, NEW leaf
      PROVE  VerifyProof(root, key, GetProof(key), leaf) <=> leaf = Get(key)
  <2>1. BuiltRight
    BY <1>1 DEF IInv
  <2>2. LevelRight(0) /\ Depth - 0 = Depth
    BY <2>1, SizeAssumption DEF BuiltRight
  <2>3. Get(key) = Merkle[0][key]
    BY <1>1, <2>2 DEF LevelRight, GetNodeAt, Get
  <2>4. key < Pow2[Depth]
    <3>1. Pow2[Depth] \in Nat
      BY Pow2Is, SizeAssumption
    <3> QED
      BY <1>1, <3>1
  <2>5. Climb(key, GetProof(key), leaf) = root <=> leaf = Merkle[0][key]
    BY <1>1, <2>1, ClimbVerifies
  <2> QED
    BY <2>3, <2>4, <2>5 DEF VerifyProof
<1>2. IInv => ProofsVerify
  BY <1>1 DEF ProofsVerify
<1> QED
  BY <1>2, Invariant, PTL

=============================================================================
