-------------------------- MODULE Verifier_proofs --------------------------
(***************************************************************************)
(* Theorems about Verifier, for any proof tables and declared totals, and  *)
(* any number of workers: the verdict is the right one, and a table that   *)
(* passes proves solvency.                                                 *)
(***************************************************************************)
EXTENDS Verifier, NumberFacts, FiniteSetTheorems

----------------------------------------------------------------------------
(* The inputs.                                                             *)

Inputs ==
    /\ Len(table) \in Nat /\ Len(declared) \in Nat
    /\ \A i \in 1 .. Len(table) : table[i] # None /\ Sound(table[i])

\* Every number of a batch is in some row, and then in one row only, as there
\* are as many rows as numbers.
LEMMA OnceEach ==
    ASSUME Inputs, \A n \in Numbers : \E i \in 1 .. Len(table) : table[i].number = n
    PROVE  /\ \A i \in 1 .. Len(table) : table[i].number \in Numbers
           /\ \A i, j \in 1 .. Len(table) : table[i].number = table[j].number => i = j
<1> DEFINE N == Len(table)
           f == [i \in 1 .. N |-> table[i].number]
           T == {table[i].number : i \in 1 .. N}
           All == 0 .. N - 1
<1>1. N \in Nat /\ IsFiniteSet(1 .. N) /\ Cardinality(1 .. N) = N
  <2>1. N \in Nat
    BY DEF Inputs
  <2> HIDE DEF N
  <2> QED
    BY <2>1, FS_Interval
<1>2. IsFiniteSet(All) /\ Cardinality(All) = N
  <2> HIDE DEF N
  <2> QED
    BY <1>1, FS_Interval
<1>3. f \in Surjection(1 .. N, T)
  BY DEF Surjection
<1>4. IsFiniteSet(T) /\ Cardinality(T) <= N /\ (Cardinality(T) = N => f \in Injection(1 .. N, T))
  <2> HIDE DEF f, T, N
  <2> QED
    BY <1>1, <1>3, FS_Surjection
<1>5. All \subseteq T
  BY DEF Numbers
<1>6. Cardinality(T) = N /\ T = All
  <2> HIDE DEF T, N, All
  <2>1. N <= Cardinality(T) /\ (N = Cardinality(T) => All = T)
    BY <1>2, <1>4, <1>5, FS_Subset
  <2>2. Cardinality(T) \in Nat
    BY <1>4, FS_CardinalityType
  <2> QED
    BY <1>1, <1>4, <2>1, <2>2
<1>7. \A i, j \in 1 .. N : f[i] = f[j] => i = j
  BY <1>4, <1>6 DEF Injection, IsInjective
<1> QED
  BY <1>6, <1>7 DEF Numbers

\* So the row of a number is the one that is placed there.
LEMMA PlacedRow ==
    ASSUME Inputs, \A n \in Numbers : \E i \in 1 .. Len(table) : table[i].number = n,
           NEW n \in Numbers
    PROVE  Placed[n] = RowOf(n) /\ Placed[n] # None /\ RowOf(n).number = n /\ Sound(RowOf(n))
<1> DEFINE found == {i \in 1 .. Len(table) : table[i].number = n}
<1>1. PICK i \in 1 .. Len(table) : table[i].number = n
  OBVIOUS
<1>2. \A j \in 1 .. Len(table) : table[j].number = n => j = i
  BY <1>1, OnceEach
<1>3. found = {i}
  BY <1>1, <1>2
<1>4. i <= i
  BY <1>1
<1>5. LastOf(found) = i
  BY <1>3, <1>4 DEF LastOf
<1>6. Placed[n] = table[i]
  BY <1>3, <1>5 DEF Placed
<1>7. (CHOOSE j \in 1 .. Len(table) : table[j].number = n) = i
  BY <1>1, <1>2
<1>8. RowOf(n) = table[i]
  BY <1>7 DEF RowOf
<1> QED
  BY <1>1, <1>6, <1>8 DEF Inputs

\* Where a row is placed, it has that number.
LEMMA PlacedNumber ==
    ASSUME Inputs, NEW n \in Numbers, Placed[n] # None
    PROVE  /\ Placed[n].number = n
           /\ \E i \in 1 .. Len(table) : table[i].number = n
<1> DEFINE found == {i \in 1 .. Len(table) : table[i].number = n}
<1>1. found # {} /\ found \subseteq Nat
  BY DEF Placed
<1>2. \A i \in found : i <= Len(table)
  BY DEF Inputs
<1>3. \E i \in found : \A j \in found : j <= i
  <2>1. Len(table) \in Nat
    BY DEF Inputs
  <2> HIDE DEF found
  <2> QED
    BY <1>1, <1>2, <2>1, GreatestNat
<1>4. LastOf(found) \in found
  <2> HIDE DEF found
  <2> QED
    BY <1>3 DEF LastOf
<1>5. Placed[n] = table[LastOf(found)]
  BY <1>1 DEF Placed
<1> QED
  BY <1>1, <1>4, <1>5

\* The ends of the ranges are natural numbers, none beyond the table.
LEMMA IndexTypes ==
    ASSUME Len(table) \in Nat, NEW w \in Workers
    PROVE  StartIndex(w) \in Nat /\ EndIndex(w) \in Nat /\ EndIndex(w) <= Len(table)
<1>1. Len(table) + WorkersNum - 1 \in Nat /\ WorkersNum \in Nat \ {0} /\ w \in Nat
  BY WorkersAssumption DEF Workers
<1>2. AverageProofCount \in Nat
  BY <1>1 DEF AverageProofCount
<1>3. (w + 1) * AverageProofCount \in Nat /\ w * AverageProofCount \in Nat
  <2> DEFINE share == AverageProofCount
  <2> HIDE DEF share
  <2>1. share \in Nat
    BY <1>2 DEF share
  <2>2. (w + 1) * share \in Nat /\ w * share \in Nat
    BY <1>1, <2>1
  <2> QED
    BY <2>2 DEF share
<1>4. (w + 1) * AverageProofCount \in Nat /\ StartIndex(w) \in Nat
  BY <1>3 DEF StartIndex
<1> QED
  BY <1>4 DEF EndIndex

\* The ranges of the workers cover all batches.
LEMMA RangesCover ==
    ASSUME Len(table) \in Nat, NEW n \in Numbers
    PROVE  \E w \in Workers : StartIndex(w) <= n /\ n < EndIndex(w)
<1> DEFINE N == Len(table)
           W == WorkersNum
           share == AverageProofCount
<1>1. N \in Nat /\ N > 0 /\ W \in Nat \ {0} /\ n \in Nat /\ n < N
  BY WorkersAssumption DEF Numbers
<1>2. share \in Nat /\ share * W >= N /\ share > 0
  <2>1. N + W - 1 \in Nat
    BY <1>1
  <2>2. \A m \in Nat : m \div W \in Nat /\ m < (m \div W) * W + W
    BY <1>1
  <2>3. share = (N + W - 1) \div W
    BY DEF AverageProofCount
  <2> HIDE DEF N, W, share
  <2>4. share \in Nat /\ N + W - 1 < share * W + W
    BY <2>1, <2>2, <2>3
  <2>5. share * W \in Nat /\ share * W >= N
    BY <1>1, <2>4
  <2> QED
    BY <1>1, <2>4, <2>5
<1> DEFINE w == n \div share
<1> HIDE DEF share
<1>3. w \in Nat /\ w * share <= n /\ n < w * share + share
  BY <1>1, <1>2
<1> HIDE DEF w, N, W
<1>4. (w + 1) * share = w * share + share
  BY <1>2, <1>3
<1>5. w < W
  <2>1. \A a, b \in Nat : a <= b => a * share <= b * share
    BY <1>2
  <2>2. W * share = share * W
    BY <1>1, <1>2
  <2>3. W <= w => W * share <= w * share
    BY <1>1, <1>3, <2>1
  <2> QED
    BY <1>1, <1>2, <1>3, <2>2, <2>3
<1>6. w \in Workers
  BY <1>1, <1>3, <1>5 DEF Workers, W
<1>7. StartIndex(w) <= n
  BY <1>3 DEF StartIndex, share
<1>8. n < EndIndex(w)
  <2>1. (w + 1) * AverageProofCount = w * share + share
    BY <1>4 DEF share
  <2> QED
    BY <1>1, <1>3, <2>1 DEF EndIndex, N
<1> QED
  BY <1>6, <1>7, <1>8

----------------------------------------------------------------------------
(* The inductive invariant.                                                *)

\* What VerifyRow has seen of a row, with whatever key its worker held.
Good(row) == row # None /\ row.committed /\ row.tier \in Tiers /\ row.keys = row.tier

Checked(n) == proofMap[n] = proofs[n] /\ Good(proofs[n])

\* The conditions on batch n of the chain.
Linked(n) ==
    /\ n = 0 => proofs[0].min = 0 /\ proofs[0].before = NoTotals(Assets)
    /\ n # 0 => /\ proofs[n].root = proofs[n-1].root
                /\ proofs[n].min = proofs[n-1].max + 1
                /\ proofs[n].before = proofs[n-1].after

Types ==
    /\ phase \in {"read", "verify", "chain", "pass", "panic"}
    /\ at \in [Workers -> Nat]
    /\ vk \in [Workers -> Tiers \cup {None}]
    /\ DOMAIN proofMap = Numbers
    /\ batch \in 0 .. Len(table)

Accepted ==
    Acceptable /\ (\A i \in 1 .. Len(table) : table[i].number \in Numbers) /\ proofs = Placed

\* A worker has checked the part of its range that is behind it.
Worked ==
    \A w \in Workers :
        /\ at[w] >= StartIndex(w)
        /\ \A n \in Numbers : StartIndex(w) <= n /\ n < at[w] => Checked(n)

Chained ==
    /\ prev = IF batch = 0 THEN None ELSE proofs[batch-1]
    /\ \A n \in Numbers : n < batch => Linked(n)

IInv ==
    /\ Inputs /\ Types
    /\ phase = "read" => \A n \in Numbers : proofs[n] = None /\ proofMap[n] = None
    /\ phase \in {"read", "verify"} => batch = 0 /\ prev = None
    /\ phase \in {"verify", "chain", "pass"} => Accepted /\ Worked
    /\ phase \in {"chain", "pass"} => (\A n \in Numbers : Checked(n)) /\ Chained
    /\ phase = "pass" => batch = Len(table) /\ FinalMatches
    /\ phase = "panic" => ~(Complete /\ Acceptable)

\* Of a complete table every placed row verifies and links.
LEMMA CompleteRows ==
    ASSUME Inputs, Complete, proofs = Placed, NEW n \in Numbers
    PROVE  Good(proofs[n]) /\ Linked(n) /\ proofs[n].number = n
<1>1. proofs[n] = RowOf(n) /\ proofs[n] # None /\ proofs[n].number = n
  BY PlacedRow DEF Complete
<1>2. Good(proofs[n])
  BY <1>1 DEF Complete, Good
<1>3. CASE n = 0
  BY <1>1, <1>2, <1>3 DEF Complete, Linked
<1>4. CASE n # 0
  <2>1. n - 1 \in Numbers /\ n \in Numbers \ {0}
    BY <1>4 DEF Numbers, Inputs
  <2>2. proofs[n-1] = RowOf(n-1)
    BY <2>1, PlacedRow DEF Complete
  <2> QED
    BY <1>1, <1>2, <1>4, <2>1, <2>2 DEF Complete, Linked
<1> QED
  BY <1>1, <1>2, <1>3, <1>4

\* A table whose placed rows all verify and link up to the declared totals is
\* complete.
LEMMA RowsComplete ==
    ASSUME Inputs, proofs = Placed, \A n \in Numbers : Good(proofs[n]) /\ Linked(n),
           Len(table) > 0, proofs[Len(table) - 1].after = CexAssetsInfo
    PROVE  Complete
<1>1. \A n \in Numbers : \E i \in 1 .. Len(table) : table[i].number = n
  BY PlacedNumber DEF Good
<1>2. \A n \in Numbers : proofs[n] = RowOf(n)
  BY <1>1, PlacedRow
<1>3. 0 \in Numbers /\ Len(table) - 1 \in Numbers
  BY DEF Numbers, Inputs
<1>4. \A n \in Numbers : RowOf(n).committed /\ RowOf(n).tier \in Tiers /\ RowOf(n).keys = RowOf(n).tier
  BY <1>2 DEF Good
<1>5. RowOf(0).min = 0 /\ RowOf(0).before = NoTotals(Assets)
  BY <1>2, <1>3 DEF Linked
<1>6. ASSUME NEW n \in Numbers \ {0}
      PROVE  /\ RowOf(n).min = RowOf(n-1).max + 1
             /\ RowOf(n).before = RowOf(n-1).after
             /\ RowOf(n).root = RowOf(n-1).root
  <2>1. n - 1 \in Numbers
    BY DEF Numbers, Inputs
  <2> QED
    BY <1>2, <2>1 DEF Linked
<1>7. RowOf(Len(table) - 1).after = CexAssetsInfo
  BY <1>2, <1>3
<1> QED
  BY <1>1, <1>4, <1>5, <1>6, <1>7 DEF Complete

\* The invariant holds when the verifier starts.
LEMMA Starts == Init => IInv
<1> SUFFICES ASSUME Init  PROVE IInv
  OBVIOUS
<1>1. Inputs
  BY FilesAssumption, SoundnessAssumption DEF Init, Inputs
<1>2. Types
  BY <1>1 DEF Init, Types, Inputs
<1> QED
  BY <1>1, <1>2 DEF Init, IInv

\* Reading: what is rejected is not complete, as no number can be left over.
LEMMA ReadSteps == ASSUME IInv, Read \/ RejectInput  PROVE IInv'
<1>1. /\ phase = "read" /\ Inputs /\ Types /\ batch = 0 /\ prev = None
      /\ \A n \in Numbers : proofs[n] = None /\ proofMap[n] = None
  BY DEF IInv, Read, RejectInput
<1>2. CASE Read
  <2>1. UNCHANGED <<table, declared, vk, proofMap, batch, prev>> /\ phase' = "verify"
    BY <1>2 DEF Read, inputs, chainVars
  <2>2. at' = [w \in Workers |-> StartIndex(w)] /\ \A w \in Workers : StartIndex(w) \in Nat
    BY <1>1, <1>2, IndexTypes DEF Read, Inputs
  <2>3. Inputs' /\ Types'
    BY <1>1, <2>1, <2>2 DEF Inputs, Types, Numbers, Sound
  <2>4. Accepted'
    BY <1>2, <2>1 DEF Read, Accepted, Acceptable, Placed, Numbers, Assets
  <2>5. Worked'
    <3>1. \A w \in Workers : StartIndex(w)' = StartIndex(w) /\ at'[w] = StartIndex(w)
      BY <2>1, <2>2 DEF StartIndex, AverageProofCount
    <3>2. \A w \in Workers : \A n \in Numbers : ~ (StartIndex(w) <= n /\ n < StartIndex(w))
      BY <2>2 DEF Numbers
    <3>3. Numbers' = Numbers
      BY <2>1 DEF Numbers
    <3> QED
      BY <2>2, <3>1, <3>2, <3>3 DEF Worked
  <2> QED
    BY <1>1, <2>1, <2>3, <2>4, <2>5 DEF IInv
<1>3. CASE RejectInput
  <2>1. UNCHANGED <<table, declared, proofs, at, vk, proofMap, batch, prev>> /\ phase' = "panic"
    BY <1>3 DEF RejectInput, Panic, inputs, workVars, chainVars
  <2>2. ~ (Complete /\ Acceptable)
    BY <1>1, <1>3, OnceEach DEF RejectInput, Complete
  <2>3. Complete' = Complete /\ Acceptable' = Acceptable
    BY <2>1 DEF Complete, Acceptable, Numbers, Assets, RowOf, CexAssetsInfo
  <2>4. Inputs' /\ Types'
    BY <1>1, <2>1 DEF Inputs, Types, Numbers, Sound
  <2> QED
    BY <2>1, <2>2, <2>3, <2>4 DEF IInv
<1> QED
  BY <1>2, <1>3

\* The definitions of the invariant depend on the inputs, on what is placed,
\* checked and reached.
LEMMA Same ==
    /\ UNCHANGED <<table, declared>> =>
           /\ Inputs' = Inputs /\ Numbers' = Numbers /\ Assets' = Assets
           /\ Complete' = Complete /\ Acceptable' = Acceptable /\ Placed' = Placed
           /\ CexAssetsInfo' = CexAssetsInfo
           /\ \A w : StartIndex(w)' = StartIndex(w) /\ EndIndex(w)' = EndIndex(w)
    /\ UNCHANGED <<table, declared, proofs>> =>
           Accepted' = Accepted /\ \A n : Linked(n)' = Linked(n)
    /\ UNCHANGED <<proofs, proofMap>> => \A n : Checked(n)' = Checked(n)
<1>1. ASSUME UNCHANGED <<table, declared>>
      PROVE  /\ Inputs' = Inputs /\ Numbers' = Numbers /\ Assets' = Assets
             /\ Complete' = Complete /\ Acceptable' = Acceptable /\ Placed' = Placed
             /\ CexAssetsInfo' = CexAssetsInfo
             /\ \A w : StartIndex(w)' = StartIndex(w) /\ EndIndex(w)' = EndIndex(w)
  BY <1>1 DEF Inputs, Numbers, Assets, Complete, Acceptable, Placed, CexAssetsInfo, RowOf,
              Sound, StartIndex, EndIndex, AverageProofCount
<1>2. ASSUME UNCHANGED <<table, declared, proofs>>
      PROVE  Accepted' = Accepted /\ \A n : Linked(n)' = Linked(n)
  BY <1>2 DEF Accepted, Acceptable, Placed, Linked, Numbers, Assets
<1>3. ASSUME UNCHANGED <<proofs, proofMap>>
      PROVE  \A n : Checked(n)' = Checked(n)
  BY <1>3 DEF Checked
<1> QED
  BY <1>1, <1>2, <1>3

\* A step into a panic that is justified, and steps that change nothing.
LEMMA PanicStep == ASSUME IInv, Panic, ~(Complete /\ Acceptable)  PROVE IInv'
<1>1. UNCHANGED <<table, declared, proofs, at, vk, proofMap, batch, prev>> /\ phase' = "panic"
  BY DEF Panic, inputs, workVars, chainVars
<1>2. Types'
  BY <1>1, Same DEF IInv, Types
<1> QED
  BY <1>1, <1>2, Same DEF IInv

\* A worker comes to a row of its range.
LEMMA AtNumber ==
    ASSUME IInv, phase = "verify", NEW w \in Workers, at[w] < EndIndex(w)
    PROVE  at[w] \in Numbers
BY IndexTypes DEF IInv, Types, Numbers, Inputs

\* The workers' steps.
LEMMA WorkerSteps == ASSUME IInv, NEW w \in Workers, Worker(w)  PROVE IInv'
<1>1. phase = "verify" /\ at[w] < EndIndex(w) /\ at[w] \in Numbers
  BY AtNumber DEF Worker, VerifyRow, RejectRow
<1>2. Inputs /\ Types /\ Accepted /\ Worked /\ proofs = Placed /\ batch = 0 /\ prev = None
  BY <1>1 DEF IInv, Accepted
<1>3. CASE VerifyRow(w)
  <2> DEFINE n == at[w]
  <2>1. /\ UNCHANGED <<table, declared, phase, proofs, batch, prev>>
        /\ Verifies(w, proofs[n])
        /\ vk' = [vk EXCEPT ![w] = VerifyingKey(w, proofs[n].tier)]
        /\ proofMap' = [proofMap EXCEPT ![proofs[n].number] = proofs[n]]
        /\ at' = [at EXCEPT ![w] = at[w] + 1]
    BY <1>3 DEF VerifyRow, inputs, chainVars
  <2>2. VerifyingKey(w, proofs[n].tier) = proofs[n].tier
    BY DEF VerifyingKey
  <2>3. Good(proofs[n]) /\ proofs[n].number = n
    BY <1>1, <1>2, <2>1, <2>2, PlacedNumber DEF Good, Verifies
  <2>4. /\ proofMap'[n] = proofs[n] /\ DOMAIN proofMap' = Numbers
        /\ \A m \in Numbers : m # n => proofMap'[m] = proofMap[m]
    BY <1>1, <1>2, <2>1, <2>3 DEF Types
  <2>5. \A m \in Numbers : Checked(m) \/ m = n => Checked(m)'
    BY <2>1, <2>3, <2>4 DEF Checked
  <2>6. Types'
    <3>1. at[w] + 1 \in Nat /\ proofs[n].tier \in Tiers
      BY <1>1, <2>3 DEF Good, Numbers
    <3> QED
      BY <1>2, <2>1, <2>2, <2>4, <3>1, Same DEF Types
  <2>7. Worked'
    <3> SUFFICES ASSUME NEW v \in Workers
                 PROVE  /\ at'[v] >= StartIndex(v)
                        /\ \A m \in Numbers : StartIndex(v) <= m /\ m < at'[v] => Checked(m)'
      BY <2>1, Same DEF Worked
    <3>1. CASE v = w
      <4>1. at'[v] = n + 1 /\ n \in Nat /\ at[v] >= StartIndex(v)
        BY <1>1, <1>2, <2>1, <3>1 DEF Types, Worked
      <4>2. StartIndex(v) \in Nat
        BY <1>2, IndexTypes DEF Inputs
      <4>3. ASSUME NEW m \in Numbers, StartIndex(v) <= m, m < at'[v]  PROVE Checked(m)'
        <5>1. m < n \/ m = n
          BY <4>1, <4>3 DEF Numbers
        <5>2. m < n => Checked(m)
          BY <1>2, <3>1, <4>3 DEF Worked
        <5> QED
          BY <2>5, <5>1, <5>2
      <4> QED
        BY <3>1, <4>1, <4>2, <4>3
    <3>2. CASE v # w
      <4>1. at'[v] = at[v]
        BY <1>2, <2>1, <3>2 DEF Types
      <4> QED
        BY <1>2, <2>5, <4>1 DEF Worked
    <3> QED
      BY <3>1, <3>2
  <2>8. Inputs' /\ Accepted'
    BY <1>2, <2>1, Same
  <2> QED
    BY <1>1, <1>2, <2>1, <2>6, <2>7, <2>8 DEF IInv
<1>4. CASE RejectRow(w)
  <2>1. Panic /\ ~Verifies(w, proofs[at[w]])
    BY <1>4 DEF RejectRow
  <2>2. ~ Good(proofs[at[w]])
    BY <2>1 DEF Good, Verifies, VerifyingKey
  <2>3. ~ (Complete /\ Acceptable)
    BY <1>1, <1>2, <2>2, CompleteRows
  <2> QED
    BY <2>1, <2>3, PanicStep
<1> QED
  BY <1>3, <1>4 DEF Worker

\* The end of the workers: each has come to the end of its range.
LEMMA WaitStep == ASSUME IInv, Wait  PROVE IInv'
<1>1. /\ phase = "verify" /\ WorkDone /\ phase' = "chain"
      /\ UNCHANGED <<table, declared, proofs, at, vk, proofMap, batch, prev>>
  BY DEF Wait, inputs, workVars, chainVars
<1>2. Inputs /\ Types /\ Accepted /\ Worked /\ batch = 0 /\ prev = None
  BY <1>1 DEF IInv
<1>3. ASSUME NEW n \in Numbers  PROVE Checked(n)
  <2>1. PICK w \in Workers : StartIndex(w) <= n /\ n < EndIndex(w)
    BY <1>2, RangesCover DEF Inputs
  <2>2. at[w] >= EndIndex(w) /\ at[w] \in Nat /\ EndIndex(w) \in Nat /\ n \in Nat
    BY <1>1, <1>2, IndexTypes DEF WorkDone, Types, Inputs, Numbers
  <2>3. n < at[w]
    BY <2>1, <2>2
  <2> QED
    BY <1>2, <2>1, <2>3 DEF Worked
<1>4. Chained
  BY <1>2 DEF Chained, Numbers
<1>5. Types' /\ Worked' /\ Chained'
  BY <1>1, <1>2, <1>4, Same DEF Types, Worked, Chained
<1> QED
  BY <1>1, <1>2, <1>3, <1>5, Same DEF IInv

\* While the chain is checked: a batch that does not chain on the one before
\* it does not link either.
LEMMA ChainsIsLinked ==
    ASSUME IInv, phase = "chain", batch < Len(table)
    PROVE  /\ batch \in Numbers /\ proofMap[batch] = proofs[batch]
           /\ ChainsOn(proofMap[batch]) <=> Linked(batch)
<1>1. batch \in Nat /\ batch \in Numbers /\ Types /\ Chained
  BY DEF IInv, Types, Numbers, Inputs
<1>2. Checked(batch) /\ proofMap[batch] = proofs[batch] /\ proofs[batch] # None
  BY <1>1 DEF IInv, Checked, Good
<1>3. CASE batch = 0
  BY <1>1, <1>2, <1>3 DEF Chained, ChainsOn, Linked
<1>4. CASE batch # 0
  <2>1. batch - 1 \in Numbers
    BY <1>1, <1>4 DEF Numbers
  <2>2. prev = proofs[batch-1] /\ prev # None
    BY <1>1, <1>4, <2>1 DEF IInv, Chained, Checked, Good
  <2> QED
    BY <1>1, <1>2, <1>4, <2>2 DEF ChainsOn, Linked
<1> QED
  BY <1>3, <1>4

\* The steps of the chain check, and the verdict.
LEMMA ChainSteps ==
    ASSUME IInv, CheckBatch \/ RejectBatch \/ Pass \/ RejectFinal  PROVE IInv'
<1>1. /\ phase = "chain" /\ Inputs /\ Types /\ Accepted /\ Worked /\ Chained
      /\ proofs = Placed /\ \A n \in Numbers : Checked(n)
  BY DEF IInv, Accepted, CheckBatch, RejectBatch, Pass, RejectFinal
<1>2. CASE CheckBatch
  <2>1. /\ UNCHANGED <<table, declared, phase, proofs, at, vk, proofMap>>
        /\ batch < Len(table) /\ ChainsOn(proofMap[batch])
        /\ prev' = proofMap[batch] /\ batch' = batch + 1
    BY <1>2 DEF CheckBatch, inputs, workVars
  <2>2. batch \in Numbers /\ prev' = proofs[batch] /\ Linked(batch)
    BY <1>1, <2>1, ChainsIsLinked
  <2>3. batch \in Nat /\ batch' \in 0 .. Len(table) /\ batch' # 0 /\ batch' - 1 = batch
    BY <1>1, <2>1 DEF Types, Inputs
  <2>4. ASSUME NEW n \in Numbers, n < batch'  PROVE Linked(n)
    <3>1. n < batch \/ n = batch
      BY <2>1, <2>3, <2>4 DEF Numbers
    <3> QED
      BY <1>1, <2>2, <3>1 DEF Chained
  <2>5. Chained'
    BY <2>1, <2>2, <2>3, <2>4, Same DEF Chained
  <2>6. Types' /\ Worked'
    BY <1>1, <2>1, <2>3, Same DEF Types, Worked
  <2> QED
    BY <1>1, <2>1, <2>5, <2>6, Same DEF IInv
<1>3. CASE RejectBatch
  <2>1. ~ Linked(batch) /\ batch \in Numbers /\ Panic
    BY <1>1, <1>3, ChainsIsLinked DEF RejectBatch
  <2>2. ~ (Complete /\ Acceptable)
    BY <1>1, <2>1, CompleteRows
  <2> QED
    BY <2>1, <2>2, PanicStep
<1>4. CASE Pass
  <2>1. /\ UNCHANGED <<table, declared, proofs, at, vk, proofMap, batch, prev>>
        /\ phase' = "pass" /\ batch = Len(table) /\ FinalMatches
    BY <1>4 DEF Pass, inputs, workVars, chainVars
  <2>2. Types' /\ Worked' /\ Chained' /\ FinalMatches'
    BY <1>1, <2>1, Same DEF Types, Worked, Chained, FinalMatches
  <2> QED
    BY <1>1, <2>1, <2>2, Same DEF IInv
<1>5. CASE RejectFinal
  <2>1. batch = Len(table) /\ ~FinalMatches /\ Panic
    BY <1>5 DEF RejectFinal
  <2>2. ~ Complete
    <3> SUFFICES ASSUME Complete  PROVE FALSE
      OBVIOUS
    <3>1. Len(table) - 1 \in Numbers /\ batch # 0
      BY <1>1, <2>1 DEF Complete, Numbers, Inputs
    <3>2. prev = proofs[Len(table) - 1] /\ prev # None
      BY <1>1, <2>1, <3>1 DEF Chained, Checked, Good
    <3>3. proofs[Len(table) - 1] = RowOf(Len(table) - 1)
      BY <1>1, <3>1, PlacedRow DEF Complete
    <3> QED
      BY <2>1, <3>2, <3>3 DEF FinalMatches, Complete
  <2> QED
    BY <2>1, <2>2, PanicStep
<1> QED
  BY <1>2, <1>3, <1>4, <1>5

\* The inductive invariant.
LEMMA Invariant == Spec => []IInv
<1>1. IInv /\ [Next]_vars => IInv'
  <2> SUFFICES ASSUME IInv, [Next]_vars  PROVE IInv'
    OBVIOUS
  <2>1. CASE Read \/ RejectInput
    BY <2>1, ReadSteps
  <2>2. CASE Wait
    BY <2>2, WaitStep
  <2>3. CASE CheckBatch \/ RejectBatch \/ Pass \/ RejectFinal
    BY <2>3, ChainSteps
  <2>4. CASE \E w \in Workers : Worker(w)
    BY <2>4, WorkerSteps
  <2>5. CASE UNCHANGED vars
    <3>1. UNCHANGED <<table, declared, phase, proofs, at, vk, proofMap, batch, prev>>
      BY <2>5 DEF vars, inputs, workVars, chainVars
    <3>2. Types' /\ Worked' = Worked /\ Chained' = Chained /\ FinalMatches' = FinalMatches
      BY <3>1, Same DEF IInv, Types, Worked, Chained, FinalMatches
    <3> QED
      BY <3>1, <3>2, Same DEF IInv
  <2> QED
    BY <2>1, <2>2, <2>3, <2>4, <2>5 DEF Next, Main, Ended
<1> QED
  BY <1>1, Starts, PTL DEF Spec

\* For any tables, declared totals and workers: the verifier passes just the
\* complete tables of solvent totals.
THEOREM RightVerdict == Spec => []VerdictRight
<1>1. IInv => VerdictRight
  <2> SUFFICES ASSUME IInv  PROVE VerdictRight
    OBVIOUS
  <2>1. phase = "panic" => ~(Complete /\ Acceptable)
    BY DEF IInv
  <2>2. ASSUME phase = "pass"  PROVE Complete /\ Acceptable
    <3>1. /\ Inputs /\ Types /\ Accepted /\ Chained /\ batch = Len(table) /\ FinalMatches
          /\ \A n \in Numbers : Checked(n)
      BY <2>2 DEF IInv
    <3>2. batch # 0 /\ Len(table) > 0 /\ prev = proofs[Len(table) - 1]
      BY <3>1 DEF Chained, FinalMatches, Inputs
    <3>3. \A n \in Numbers : Good(proofs[n]) /\ Linked(n)
      BY <3>1 DEF Checked, Chained, Numbers, Inputs
    <3>4. proofs[Len(table) - 1].after = CexAssetsInfo
      BY <3>1, <3>2 DEF FinalMatches
    <3>5. Complete
      BY <3>1, <3>2, <3>3, <3>4, RowsComplete DEF Accepted
    <3> QED
      BY <3>1, <3>5 DEF Accepted
  <2> QED
    BY <2>1, <2>2 DEF VerdictRight
<1> QED
  BY <1>1, Invariant, PTL

----------------------------------------------------------------------------
(* Solvency.                                                               *)

\* f gives the users' amounts over the first batches, up to n of them.
SumsOf(f, n) == f = [i \in 0 .. n |-> IF i = 0 THEN NoTotals(Assets) ELSE Add(f[i-1], RowOf(i-1).added)]

\* The recursion of Sum has a solution.
LEMMA SumsExist ==
    ASSUME NEW n \in Nat
    PROVE  \E f : SumsOf(f, n)
<1> DEFINE S == {m \in Nat : ~ \E f : SumsOf(f, m)}
<1> SUFFICES ASSUME S # {}  PROVE FALSE
  OBVIOUS
<1>1. PICK m \in S : \A k \in S : m <= k
  BY LeastNat
<1>2. m # 0
  <2> DEFINE g == [i \in 0 .. 0 |-> NoTotals(Assets)]
  <2>1. SumsOf(g, 0)
    BY DEF SumsOf
  <2> QED
    BY <2>1, <1>1
<1>3. m - 1 \in Nat /\ m - 1 \notin S
  BY <1>1, <1>2
<1>4. PICK f : SumsOf(f, m - 1)
  BY <1>3
<1> DEFINE g == [i \in 0 .. m |-> IF i = m THEN Add(f[m-1], RowOf(m-1).added) ELSE f[i]]
<1>5. SumsOf(g, m)
  BY <1>2, <1>3, <1>4 DEF SumsOf
<1> QED
  BY <1>5, <1>1

\* So Sum satisfies its recursion.
LEMMA SumIs ==
    ASSUME Len(table) \in Nat
    PROVE  /\ Sum[0] = NoTotals(Assets)
           /\ \A n \in Numbers : Sum[n+1] = Add(Sum[n], RowOf(n).added)
<1>1. \E f : f = [i \in 0 .. Len(table) |-> IF i = 0 THEN NoTotals(Assets) ELSE Add(f[i-1], RowOf(i-1).added)]
  BY SumsExist DEF SumsOf
<1>2. Sum = [i \in 0 .. Len(table) |-> IF i = 0 THEN NoTotals(Assets) ELSE Add(Sum[i-1], RowOf(i-1).added)]
  BY <1>1, Zenon DEF Sum
<1>3. ASSUME NEW n \in Numbers  PROVE Sum[n+1] = Add(Sum[n], RowOf(n).added)
  <2>1. n + 1 \in 0 .. Len(table) /\ n + 1 # 0 /\ (n + 1) - 1 = n
    BY DEF Numbers
  <2> QED
    BY <1>2, <2>1
<1> QED
  BY <1>2, <1>3

\* The totals that a complete table commits to before a batch are the users'
\* amounts of the batches before it.
LEMMA BeforeIsSum ==
    ASSUME Inputs, Complete, NEW n \in Numbers
    PROVE  RowOf(n).before = Sum[n] /\ RowOf(n).after = Add(Sum[n], RowOf(n).added)
<1>1. ASSUME NEW m \in Numbers
      PROVE  RowOf(m).after = Add(RowOf(m).before, RowOf(m).added)
  <2>1. Sound(RowOf(m))
    BY PlacedRow DEF Complete
  <2>2. RowOf(m).committed /\ RowOf(m).keys # None
    BY FilesAssumption DEF Complete
  <2> QED
    BY <2>1, <2>2 DEF Sound
<1> DEFINE S == {m \in Nat : m \in Numbers /\ RowOf(m).before # Sum[m]}
<1>2. S = {}
  <2> SUFFICES ASSUME S # {}  PROVE FALSE
    OBVIOUS
  <2>1. PICK m \in S : \A k \in S : m <= k
    BY LeastNat
  <2>2. Len(table) \in Nat
    BY DEF Inputs
  <2>3. m # 0
    BY <2>1, <2>2, SumIs DEF Complete
  <2>4. m - 1 \in Numbers /\ m - 1 \in Nat /\ m - 1 \notin S /\ (m - 1) + 1 = m /\ m \in Numbers \ {0}
    BY <2>1, <2>2, <2>3 DEF Numbers
  <2>5. RowOf(m).before = RowOf(m-1).after
    BY <2>4 DEF Complete
  <2>6. RowOf(m-1).after = Add(Sum[m-1], RowOf(m-1).added)
    BY <1>1, <2>4
  <2>7. Sum[m] = Add(Sum[m-1], RowOf(m-1).added)
    BY <2>2, <2>4, SumIs
  <2> QED
    BY <2>1, <2>5, <2>6, <2>7
<1>3. RowOf(n).before = Sum[n]
  BY <1>2 DEF Numbers
<1> QED
  BY <1>1, <1>3

\* Of what is accepted no asset has more debt than equity.
LEMMA DeclaredSolvent ==
    ASSUME Inputs, Acceptable, NEW a \in Assets
    PROVE  CexAssetsInfo[a].debt <= CexAssetsInfo[a].equity
<1> DEFINE entries == {i \in 1 .. Len(declared) : declared[i].index = a}
<1>1. CASE entries = {}
  BY <1>1 DEF CexAssetsInfo
<1>2. CASE entries # {}
  <2>1. entries \subseteq Nat /\ Len(declared) \in Nat /\ \A i \in entries : i <= Len(declared)
    BY DEF Inputs
  <2>2. \E i \in entries : \A j \in entries : j <= i
    <3> HIDE DEF entries
    <3> QED
      BY <1>2, <2>1, GreatestNat
  <2>3. LastOf(entries) \in entries
    <3> HIDE DEF entries
    <3> QED
      BY <2>2 DEF LastOf
  <2>4. CexAssetsInfo[a] = declared[LastOf(entries)].totals
    BY <1>2 DEF CexAssetsInfo
  <2> QED
    BY <2>3, <2>4 DEF Acceptable
<1> QED
  BY <1>1, <1>2

\* The verifier passes a table only if the declared equity and debt of every
\* asset are those of all users of all batches, and the equity covers the
\* debt: for any number of batches, assets and workers.
THEOREM Solvency == Spec => []PassIsSolvent
<1>1. IInv /\ VerdictRight => PassIsSolvent
  <2> SUFFICES ASSUME IInv, VerdictRight, phase = "pass"
               PROVE  /\ CexAssetsInfo = Sum[Len(table)]
                      /\ \A a \in Assets : CexAssetsInfo[a].debt <= CexAssetsInfo[a].equity
    BY DEF PassIsSolvent
  <2>1. Inputs /\ Complete /\ Acceptable
    BY DEF IInv, VerdictRight
  <2>2. Len(table) - 1 \in Numbers /\ (Len(table) - 1) + 1 = Len(table) /\ Len(table) \in Nat
    BY <2>1 DEF Complete, Numbers, Inputs
  <2>3. RowOf(Len(table) - 1).after = Add(Sum[Len(table) - 1], RowOf(Len(table) - 1).added)
    BY <2>1, <2>2, BeforeIsSum
  <2>4. Sum[Len(table)] = Add(Sum[Len(table) - 1], RowOf(Len(table) - 1).added)
    BY <2>2, SumIs
  <2>5. RowOf(Len(table) - 1).after = CexAssetsInfo
    BY <2>1 DEF Complete
  <2> QED
    BY <2>1, <2>3, <2>4, <2>5, DeclaredSolvent
<1> QED
  BY <1>1, Invariant, RightVerdict, PTL

----------------------------------------------------------------------------
(* Types: what a worker reports is the row that is placed at its number.   *)

\* A step of the invariant's states keeps the types.
LEMMA StepTyped == IInv /\ TypeOK /\ [Next]_vars => TypeOK'
<1> SUFFICES ASSUME IInv, TypeOK, [Next]_vars  PROVE TypeOK'
  OBVIOUS
<1> USE DEF TypeOK
<1>1. Inputs /\ Types
  BY DEF IInv
<1>2. CASE Read
  <2>1. /\ UNCHANGED <<table, declared, vk, proofMap, batch, prev>>
        /\ phase' = "verify" /\ proofs' = Placed
        /\ at' = [w \in Workers |-> StartIndex(w)]
    BY <1>2 DEF Read, inputs, chainVars
  <2>2. \A w \in Workers : StartIndex(w) \in Nat
    BY <1>1, IndexTypes DEF Inputs
  <2>3. \A n \in Numbers : proofMap[n] = None
    BY <1>2 DEF Read, IInv
  <2>4. \A n \in Numbers : Placed[n] # None => Placed[n].number = n
    BY <1>1, PlacedNumber
  <2> QED
    BY <2>1, <2>2, <2>3, <2>4 DEF Numbers
<1>3. ASSUME NEW w \in Workers, VerifyRow(w)  PROVE TypeOK'
  <2> DEFINE row == proofs[at[w]]
  <2>1. /\ UNCHANGED <<table, declared, phase, proofs, batch, prev>>
        /\ vk' = [vk EXCEPT ![w] = VerifyingKey(w, row.tier)]
        /\ proofMap' = [proofMap EXCEPT ![row.number] = row]
        /\ at' = [at EXCEPT ![w] = @ + 1]
        /\ Verifies(w, row)
    BY <1>3 DEF VerifyRow, inputs, chainVars
  <2>2. at[w] \in Numbers
    BY <1>3, AtNumber DEF VerifyRow
  <2>3. row.number = at[w] /\ DOMAIN proofMap = Numbers
    BY <1>1, <2>1, <2>2 DEF Verifies, Types
  <2>4. \A n \in Numbers : proofMap'[n] \in {proofs[n], None}
    BY <2>1, <2>2, <2>3
  <2>5. VerifyingKey(w, row.tier) \in Tiers
    BY <2>1 DEF Verifies, VerifyingKey
  <2> HIDE DEF row
  <2>6. vk' \in [Workers -> Tiers \cup {None}] /\ at' \in [Workers -> Nat]
    BY <2>1, <2>5
  <2> QED
    BY <2>1, <2>4, <2>6 DEF Numbers
<1>4. CASE CheckBatch
  <2>1. /\ UNCHANGED <<table, declared, phase, proofs, at, vk, proofMap>>
        /\ prev' = proofMap[batch] /\ prev' # None /\ batch' = batch + 1 /\ batch < Len(table)
    BY <1>4 DEF CheckBatch, ChainsOn, inputs, workVars
  <2>2. batch' \in 0 .. Len(table) /\ batch' # 0
    BY <1>1, <2>1 DEF Inputs
  <2> QED
    BY <2>1, <2>2 DEF Numbers
<1>5. CASE RejectInput \/ RejectBatch \/ RejectFinal \/ \E w \in Workers : RejectRow(w)
  BY <1>5 DEF RejectInput, RejectBatch, RejectFinal, RejectRow, Panic, inputs, workVars,
              chainVars, Numbers
<1>6. CASE Wait \/ Pass \/ Ended \/ UNCHANGED vars
  BY <1>6 DEF Wait, Pass, Ended, vars, inputs, workVars, chainVars, Numbers
<1> QED
  BY <1>2, <1>3, <1>4, <1>5, <1>6 DEF Next, Main, Worker

\* The state has its type in every behaviour, for any tables and workers.
THEOREM TypeCorrect == Spec => []TypeOK
<1>1. Init => TypeOK
  <2> SUFFICES ASSUME Init  PROVE TypeOK
    OBVIOUS
  <2>1. IInv
    BY Starts
  <2> QED
    BY <2>1 DEF Init, TypeOK, IInv, Types
<1> QED
  BY <1>1, StepTyped, Invariant, PTL DEF Spec

=============================================================================
