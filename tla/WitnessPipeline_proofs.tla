----------------------- MODULE WitnessPipeline_proofs -----------------------
(***************************************************************************)
(* Theorems about WitnessPipeline, for any users and tiers, any batch      *)
(* sizes, workers, channel and insert sizes, and any number of restarts.   *)
(***************************************************************************)
EXTENDS WitnessPipeline, NumberFacts, FiniteSetTheorems, SequenceTheorems

----------------------------------------------------------------------------
(* Tiers and batches.                                                      *)

T == Len(Users)

LEMMA TierTypes ==
    /\ T \in Nat
    /\ \A t \in 1 .. T : Ops[t] \in Nat \ {0} /\ Batches(t) \in Nat /\ Batches(t) * Ops[t] \in Nat
<1>1. T \in Nat /\ Len(Ops) = T
  BY TiersAssumption, LenProperties DEF T
<1>2. ASSUME NEW t \in 1 .. T
      PROVE  Ops[t] \in Nat \ {0} /\ Batches(t) \in Nat /\ Batches(t) * Ops[t] \in Nat
  <2>1. Users[t] \in Nat /\ Ops[t] \in Nat \ {0}
    BY <1>1, TiersAssumption, ElementOfSeq DEF T
  <2>2. \A m \in Nat, o \in Nat \ {0} : m \div o \in Nat
    OBVIOUS
  <2>3. Users[t] + Ops[t] - 1 \in Nat
    BY <2>1
  <2>4. Batches(t) \in Nat
    BY <2>1, <2>2, <2>3 DEF Batches
  <2>5. \A m, o \in Nat : m * o \in Nat
    OBVIOUS
  <2> QED
    BY <2>1, <2>4, <2>5
<1> QED
  BY <1>1, <1>2

\* StartBatch counts the batches before a tier.
LEMMA StartBatchIs ==
    /\ StartBatch[1] = 0 /\ BatchNumber = StartBatch[T + 1] /\ BatchNumber \in Nat
    /\ \A t \in 1 .. T : StartBatch[t+1] = StartBatch[t] + Batches(t)
    /\ \A t \in 1 .. T + 1 : StartBatch[t] \in Nat
    /\ \A t, u \in 1 .. T + 1 : t <= u => StartBatch[t] <= StartBatch[u]
<1> DEFINE d == [t \in 1 .. T |-> Batches(t)]
<1>1. T \in Nat /\ \A t \in 1 .. T : d[t] \in Nat
  BY TierTypes
<1>2. PICK f : SumsBefore(f, d, T)
  BY <1>1, RunningSumsExist
<1>3. f = [t \in 1 .. Len(Users) + 1 |-> IF t = 1 THEN 0 ELSE f[t-1] + Batches(t-1)]
  <2>1. f = [t \in 1 .. T + 1 |-> IF t = 1 THEN 0 ELSE f[t-1] + d[t-1]]
    BY <1>2 DEF SumsBefore
  <2>2. \A t \in 1 .. T + 1 : t # 1 => d[t-1] = Batches(t-1)
    BY <1>1
  <2> HIDE DEF d
  <2> QED
    BY <2>1, <2>2 DEF T
<1>4. StartBatch = [t \in 1 .. Len(Users) + 1 |->
                      IF t = 1 THEN 0 ELSE StartBatch[t-1] + Batches(t-1)]
  BY <1>3, Zenon DEF StartBatch
<1>5. SumsBefore(StartBatch, d, T)
  <2> DEFINE f2 == StartBatch
  <2>1. f2 = [t \in 1 .. T + 1 |-> IF t = 1 THEN 0 ELSE f2[t-1] + Batches(t-1)]
    BY <1>4 DEF T
  <2> HIDE DEF f2
  <2>2. SumsBefore(f2, d, T)
    BY <1>1, <2>1 DEF SumsBefore
  <2> QED
    BY <2>2 DEF f2
<1> HIDE DEF d
<1>6. /\ StartBatch[1] = 0
      /\ \A t \in 1 .. T : StartBatch[t+1] = StartBatch[t] + d[t]
      /\ \A t \in 1 .. T + 1 : StartBatch[t] \in Nat
      /\ \A t, u \in 1 .. T + 1 : t <= u => StartBatch[t] <= StartBatch[u]
  BY <1>1, <1>5, RunningSums
<1>7. \A t \in 1 .. T : d[t] = Batches(t)
  BY DEF d
<1>8. BatchNumber = StartBatch[T + 1] /\ BatchNumber \in Nat
  BY <1>1, <1>6 DEF BatchNumber, T
<1> QED
  BY <1>6, <1>7, <1>8

\* FirstAccount counts the accounts before a tier, after padding.
LEMMA FirstAccountIs ==
    /\ \A t \in 1 .. T : FirstAccount[t+1] = FirstAccount[t] + Batches(t) * Ops[t]
    /\ \A t \in 1 .. T + 1 : FirstAccount[t] \in Nat
<1> DEFINE d == [t \in 1 .. T |-> Batches(t) * Ops[t]]
<1>1. T \in Nat /\ \A t \in 1 .. T : d[t] \in Nat
  BY TierTypes
<1>2. PICK f : SumsBefore(f, d, T)
  BY <1>1, RunningSumsExist
<1>3. f = [t \in 1 .. Len(Users) + 1 |->
             IF t = 1 THEN 0 ELSE f[t-1] + Batches(t-1) * Ops[t-1]]
  <2>1. f = [t \in 1 .. T + 1 |-> IF t = 1 THEN 0 ELSE f[t-1] + d[t-1]]
    BY <1>2 DEF SumsBefore
  <2>2. \A t \in 1 .. T + 1 : t # 1 => d[t-1] = Batches(t-1) * Ops[t-1]
    BY <1>1
  <2> HIDE DEF d
  <2> QED
    BY <2>1, <2>2 DEF T
<1>4. FirstAccount = [t \in 1 .. Len(Users) + 1 |->
                        IF t = 1 THEN 0 ELSE FirstAccount[t-1] + Batches(t-1) * Ops[t-1]]
  BY <1>3, Zenon DEF FirstAccount
<1>5. SumsBefore(FirstAccount, d, T)
  <2> DEFINE f2 == FirstAccount
  <2>1. f2 = [t \in 1 .. T + 1 |-> IF t = 1 THEN 0 ELSE f2[t-1] + Batches(t-1) * Ops[t-1]]
    BY <1>4 DEF T
  <2> HIDE DEF f2
  <2>2. SumsBefore(f2, d, T)
    BY <1>1, <2>1 DEF SumsBefore
  <2> QED
    BY <2>2 DEF f2
<1> HIDE DEF d
<1>6. /\ \A t \in 1 .. T : FirstAccount[t+1] = FirstAccount[t] + d[t]
      /\ \A t \in 1 .. T + 1 : FirstAccount[t] \in Nat
  BY <1>1, <1>5, RunningSums
<1>7. \A t \in 1 .. T : d[t] = Batches(t) * Ops[t]
  BY DEF d
<1> QED
  BY <1>6, <1>7

\* Every batch is in one tier.
LEMMA TierOfIs ==
    ASSUME NEW i \in Heights
    PROVE  /\ TierOf(i) \in 1 .. T
           /\ StartBatch[TierOf(i)] <= i /\ i < StartBatch[TierOf(i) + 1]
           /\ \A t \in 1 .. T : StartBatch[t] <= i /\ i < StartBatch[t+1] => t = TierOf(i)
<1>1. i \in Nat /\ i < StartBatch[T + 1] /\ T \in Nat /\ StartBatch[1] = 0
  BY StartBatchIs, TierTypes DEF Heights
<1> DEFINE S == {t \in Nat : t \in 1 .. T + 1 /\ i < StartBatch[t]}
<1>2. PICK u \in S : \A v \in S : u <= v
  <2>1. T + 1 \in S
    BY <1>1
  <2> QED
    BY <2>1, LeastNat
<1>3. u # 1 /\ u - 1 \in 1 .. T /\ u - 1 \notin S
  BY <1>1, <1>2
<1>4. StartBatch[u - 1] <= i /\ i < StartBatch[(u - 1) + 1]
  BY <1>1, <1>2, <1>3, StartBatchIs
<1>5. \A s, t \in 1 .. T : StartBatch[s] <= i /\ i < StartBatch[s+1]
                           /\ StartBatch[t] <= i /\ i < StartBatch[t+1] => s = t
  <2> SUFFICES ASSUME NEW s \in 1 .. T, NEW t \in 1 .. T, s < t,
                      i < StartBatch[s+1], StartBatch[t] <= i
               PROVE  FALSE
    BY <1>1
  <2>1. s + 1 \in 1 .. T + 1 /\ t \in 1 .. T + 1 /\ s + 1 <= t
    BY <1>1
  <2>2. StartBatch[s+1] <= StartBatch[t] /\ StartBatch[s+1] \in Nat /\ StartBatch[t] \in Nat
    BY <2>1, StartBatchIs
  <2> QED
    BY <1>1, <2>2
<1>6. /\ TierOf(i) \in 1 .. Len(Users)
      /\ StartBatch[TierOf(i)] <= i /\ i < StartBatch[TierOf(i) + 1]
  BY <1>3, <1>4, Zenon DEF TierOf, T
<1> QED
  BY <1>5, <1>6 DEF T

\* Tiers without batches have no accounts.
LEMMA EmptyTiers ==
    ASSUME NEW t \in 1 .. T + 1, NEW u \in 1 .. T + 1, t <= u, StartBatch[t] = StartBatch[u]
    PROVE  FirstAccount[t] = FirstAccount[u]
<1> DEFINE S == {v \in Nat : t <= v /\ v <= u /\ FirstAccount[v] # FirstAccount[t]}
<1> SUFFICES ASSUME S # {}  PROVE FALSE
  BY TierTypes
<1>1. PICK v \in S : \A w \in S : v <= w
  BY LeastNat
<1>2. T \in Nat
  BY TierTypes
<1>3. v # t /\ v - 1 \in 1 .. T /\ v - 1 \notin S /\ v = (v - 1) + 1 /\ t <= v - 1 /\ v <= u
      /\ v \in 1 .. T + 1 /\ v - 1 \in 1 .. T + 1
  <2>1. v \in Nat /\ t <= v /\ v <= u /\ v # t
    BY <1>1
  <2>2. v - 1 \notin S
    BY <1>1, <2>1
  <2> QED
    BY <1>2, <2>1, <2>2
<1>4. StartBatch[t] <= StartBatch[v-1] /\ StartBatch[v] <= StartBatch[u] /\ StartBatch[t] \in Nat
  BY <1>3, StartBatchIs
<1>5. StartBatch[v] = StartBatch[v-1] + Batches(v-1) /\ StartBatch[v] \in Nat /\ StartBatch[v-1] \in Nat
      /\ Batches(v-1) \in Nat /\ Ops[v-1] \in Nat
  BY <1>3, StartBatchIs, TierTypes
<1>6. Batches(v-1) = 0
  BY <1>4, <1>5
<1>7. FirstAccount[v] = FirstAccount[v-1] + 0 /\ FirstAccount[v-1] \in Nat
  <2>1. Batches(v-1) * Ops[v-1] = 0
    BY <1>5, <1>6
  <2> QED
    BY <1>3, <2>1, FirstAccountIs
<1> QED
  BY <1>1, <1>2, <1>3, <1>7

\* The accounts of a batch are numbers, and the next batch begins where it
\* ends, also at the end of a tier and across tiers without batches.
LEMMA AccountsChain ==
    ASSUME NEW i \in Heights
    PROVE  /\ MinAccount(i) \in Nat /\ MaxAccount(i) \in Nat
           /\ i + 1 \in Heights => MinAccount(i + 1) = MaxAccount(i) + 1
<1> DEFINE t == TierOf(i)
           s == StartBatch[t]
           o == Ops[t]
<1>1. t \in 1 .. T /\ s <= i /\ i < StartBatch[t+1] /\ i \in Nat /\ T \in Nat
  BY TierOfIs, TierTypes DEF Heights
<1>2. /\ s \in Nat /\ o \in Nat \ {0} /\ FirstAccount[t] \in Nat
      /\ StartBatch[t+1] = s + Batches(t) /\ Batches(t) \in Nat /\ StartBatch[t+1] \in Nat
      /\ FirstAccount[t+1] = FirstAccount[t] + Batches(t) * o /\ Batches(t) * o \in Nat
  BY <1>1, StartBatchIs, TierTypes, FirstAccountIs
<1>3. MinAccount(i) = FirstAccount[t] + (i - s) * o /\ MaxAccount(i) = MinAccount(i) + o - 1
  BY DEF MinAccount, MaxAccount
<1>4. \A m, n \in Nat : m * n \in Nat /\ (m + 1) * n = m * n + n
  OBVIOUS
<1>5. (i - s) * o \in Nat /\ ((i - s) + 1) * o = (i - s) * o + o
  <2>1. i - s \in Nat
    BY <1>1, <1>2
  <2> QED
    BY <1>2, <1>4, <2>1
<1>6. MinAccount(i) \in Nat /\ MaxAccount(i) \in Nat
  <2> HIDE DEF t, s, o
  <2> QED
    BY <1>2, <1>3, <1>5
<1>7. ASSUME i + 1 \in Heights  PROVE MinAccount(i + 1) = MaxAccount(i) + 1
  <2> DEFINE u == TierOf(i + 1)
  <2>1. u \in 1 .. T /\ StartBatch[u] <= i + 1 /\ i + 1 < StartBatch[u+1]
    BY <1>7, TierOfIs
  <2>2. MinAccount(i + 1) = FirstAccount[u] + ((i + 1) - StartBatch[u]) * Ops[u]
    BY DEF MinAccount
  <2>3. \A v \in 1 .. T : StartBatch[v] <= i + 1 /\ i + 1 < StartBatch[v+1] => v = u
    BY <1>7, TierOfIs
  <2>4. \A v \in 1 .. T : StartBatch[v] <= i /\ i < StartBatch[v+1] => v = t
    BY TierOfIs
  <2>5. StartBatch[u] \in Nat /\ StartBatch[u+1] \in Nat
    BY <1>1, <2>1, StartBatchIs
  <2>6. Ops[u] \in Nat /\ FirstAccount[u] \in Nat
    BY <1>1, <2>1, TierTypes, FirstAccountIs
  <2>7. CASE i + 1 < StartBatch[t+1]
    <3>1. u = t
      BY <1>1, <1>2, <2>3, <2>7
    <3>2. (i + 1) - s = (i - s) + 1
      BY <1>1, <1>2
    <3>3. MinAccount(i + 1) = FirstAccount[t] + ((i - s) + 1) * o
      BY <2>2, <3>1, <3>2
    <3> HIDE DEF t, s, o, u
    <3> QED
      BY <1>2, <1>3, <1>5, <3>3
  <2>8. CASE ~ (i + 1 < StartBatch[t+1])
    <3>1. i + 1 = StartBatch[t+1] /\ i - s + 1 = Batches(t)
      <4> HIDE DEF t, s, o, u
      <4> QED
        BY <1>1, <1>2, <2>8
    <3>2. StartBatch[u] = StartBatch[t+1] /\ t + 1 <= u
      <4>1. t + 1 <= u
        <5> SUFFICES ASSUME u <= t  PROVE FALSE
          BY <1>1, <2>1
        <5>1. u + 1 \in 1 .. T + 1 /\ t + 1 \in 1 .. T + 1 /\ u + 1 <= t + 1
          BY <1>1, <2>1
        <5>2. StartBatch[u+1] <= StartBatch[t+1]
          BY <5>1, StartBatchIs
        <5> QED
          BY <1>2, <2>1, <2>5, <3>1, <5>2
      <4>2. u \in 1 .. T + 1 /\ t + 1 \in 1 .. T + 1
        BY <1>1, <2>1
      <4>3. StartBatch[t+1] <= StartBatch[u]
        BY <4>1, <4>2, StartBatchIs
      <4> QED
        BY <1>2, <2>1, <2>5, <3>1, <4>1, <4>3
    <3>3. FirstAccount[u] = FirstAccount[t+1]
      <4>1. u \in 1 .. T + 1 /\ t + 1 \in 1 .. T + 1
        BY <1>1, <2>1
      <4> QED
        BY <3>2, <4>1, EmptyTiers
    <3>4. ((i + 1) - StartBatch[u]) * Ops[u] = 0
      <4>1. (i + 1) - StartBatch[u] = 0
        BY <2>5, <3>1, <3>2
      <4> QED
        BY <2>6, <4>1
    <3>5. MinAccount(i + 1) = FirstAccount[t] + ((i - s) + 1) * o
      <4>1. MinAccount(i + 1) = FirstAccount[u]
        BY <2>2, <2>6, <3>4
      <4> QED
        BY <1>2, <3>1, <3>3, <4>1
    <3> HIDE DEF t, s, o, u
    <3> QED
      BY <1>2, <1>3, <1>5, <3>5
  <2> QED
    BY <2>7, <2>8
<1> QED
  BY <1>6, <1>7

----------------------------------------------------------------------------
(* Totals and witnesses.                                                   *)

LEMMA TotalsAre ==
    /\ NoTotals = TotalsBefore(0)
    /\ \A n : TotalsBefore(n) \in Totals
    /\ \A i \in Heights : AddBatch(TotalsBefore(i), i) = TotalsBefore(i + 1)
<1>1. \A h \in Heights : h \in Nat /\ ~ (h < 0)
  BY StartBatchIs DEF Heights
<1>2. NoTotals = TotalsBefore(0)
  BY <1>1 DEF NoTotals, TotalsBefore
<1>3. ASSUME NEW n  PROVE TotalsBefore(n) \in Totals
  BY DEF TotalsBefore, Totals
<1>4. ASSUME NEW i \in Heights  PROVE AddBatch(TotalsBefore(i), i) = TotalsBefore(i + 1)
  <2>1. \A h \in Heights : (h < i + 1) <=> (h < i \/ h = i)
    BY <1>1
  <2> DEFINE t == TotalsBefore(i)
  <2>2. t = [h \in Heights |-> IF h < i THEN 1 ELSE 0] /\ t[i] = 0
    BY <1>1 DEF TotalsBefore
  <2> HIDE DEF t
  <2>3. AddBatch(t, i) = [h \in Heights |-> IF h = i THEN 1 ELSE t[h]]
    BY <2>2 DEF AddBatch
  <2>4. \A h \in Heights : (IF h = i THEN 1 ELSE t[h]) = IF h < i + 1 THEN 1 ELSE 0
    BY <2>1, <2>2
  <2>5. AddBatch(t, i) = TotalsBefore(i + 1)
    BY <2>3, <2>4 DEF TotalsBefore
  <2> QED
    BY <2>5 DEF t
<1> QED
  BY <1>2, <1>3, <1>4

\* The witness of a batch in an uninterrupted run.
LEMMA EntryIs ==
    ASSUME NEW i \in Heights
    PROVE  /\ Entry(i) \in WitnessRows /\ Entry(i) # None
           /\ Entry(i).height = i /\ Entry(i).min = MinAccount(i) /\ Entry(i).max = MaxAccount(i)
           /\ Entry(i).beforeCommitment = Commitment(TotalsBefore(i))
           /\ Entry(i).afterCommitment = Commitment(TotalsBefore(i + 1))
           /\ RecoverAfterCexAssets(Entry(i)) = TotalsBefore(i + 1)
<1>1. /\ TotalsBefore(i) \in Totals /\ TotalsBefore(i + 1) \in Totals
      /\ AddBatch(TotalsBefore(i), i) = TotalsBefore(i + 1)
  BY TotalsAre
<1>2. Entry(i) = [height |-> i, min |-> MinAccount(i), max |-> MaxAccount(i),
                  before |-> TotalsBefore(i),
                  beforeCommitment |-> Commitment(TotalsBefore(i)),
                  afterCommitment |-> Commitment(TotalsBefore(i + 1))]
  BY <1>1, Zenon DEF Entry, Witness
<1>3. \A t \in Totals : Commitment(t) \in [of : Totals]
  BY DEF Commitment
<1>4. Entry(i) \in WitnessRows
  BY <1>1, <1>2, <1>3, AccountsChain DEF WitnessRows
<1>5. Entry(i) # None
  BY <1>4, NoneAssumption
<1> QED
  BY <1>1, <1>2, <1>4, <1>5 DEF RecoverAfterCexAssets

\* The rows are the witnesses of the batches from first on.
Consecutive(rows, first) == \A k \in 1 .. Len(rows) : rows[k] = Entry(first + k - 1)

\* The table with the witnesses of the first n batches.
FirstRows(n) == [h \in Heights |-> IF h < n THEN Entry(h) ELSE None]

LEMMA FirstRowsCount ==
    ASSUME NEW n \in 0 .. BatchNumber, NEW t, t = FirstRows(n)
    PROVE  /\ {h \in Heights : t[h] # None} = 0 .. n - 1
           /\ Cardinality({h \in Heights : t[h] # None}) = n
           /\ \A i \in 0 .. n - 1 : i \in Heights /\ t[i] = Entry(i)
<1>1. BatchNumber \in Nat /\ n \in Nat
  BY StartBatchIs
<1>2. \A h \in Heights : t[h] = (IF h < n THEN Entry(h) ELSE None) /\ Entry(h) # None
  BY EntryIs DEF FirstRows
<1>3. \A i \in 0 .. n - 1 : i \in Heights /\ i < n
  BY <1>1 DEF Heights
<1>4. \A h \in Heights : h < n => h \in 0 .. n - 1
  BY <1>1 DEF Heights
<1>5. {h \in Heights : t[h] # None} = 0 .. n - 1
  BY <1>2, <1>3, <1>4
<1>6. Cardinality(0 .. n - 1) = n
  BY <1>1, FS_Interval
<1> QED
  BY <1>2, <1>3, <1>5, <1>6

LEMMA LatestIs ==
    ASSUME NEW n \in 0 .. BatchNumber, table = FirstRows(n)
    PROVE  /\ n = 0 => Stored = {} /\ Latest = -1
           /\ n # 0 => /\ Stored # {} /\ Latest = n - 1 /\ n - 1 \in Heights
                       /\ table[Latest] = Entry(n - 1)
<1>1. Stored = 0 .. n - 1 /\ \A i \in 0 .. n - 1 : i \in Heights /\ table[i] = Entry(i)
  BY FirstRowsCount DEF Stored
<1>2. n \in Nat
  BY StartBatchIs
<1>3. CASE n = 0
  BY <1>1, <1>3 DEF Latest
<1>4. CASE n # 0
  <2>1. n - 1 \in Stored /\ \A j \in Stored : j <= n - 1
    BY <1>1, <1>2, <1>4
  <2>2. \A i \in Stored : (\A j \in Stored : j <= i) => i = n - 1
    BY <1>1, <1>2, <1>4
  <2>3. (CHOOSE i \in Stored : \A j \in Stored : j <= i) = n - 1
    BY <2>1, <2>2, Zenon
  <2>4. Latest = n - 1 /\ Stored # {}
    BY <2>1, <2>3, Zenon DEF Latest
  <2> QED
    BY <1>1, <1>4, <2>1, <2>4
<1> QED
  BY <1>3, <1>4

\* Inserting the witnesses of the k batches that come next.
Inserted(rows, t) ==
    [h \in Heights |-> IF \E r \in rows : r.height = h THEN CHOOSE r \in rows : r.height = h
                       ELSE t[h]]

LEMMA InsertExtends ==
    ASSUME NEW n \in Nat, NEW k \in Nat, n + k <= BatchNumber,
           NEW rows, rows = {Entry(i) : i \in n .. n + k - 1}
    PROVE  Inserted(rows, FirstRows(n)) = FirstRows(n + k)
<1> DEFINE t == FirstRows(n)
           u == Inserted(rows, t)
<1>1. /\ \A h \in Heights : u[h] = IF \E r \in rows : r.height = h
                                    THEN CHOOSE r \in rows : r.height = h ELSE t[h]
      /\ u = [h \in Heights |-> u[h]]
  BY Zenon DEF Inserted
<1>2. BatchNumber \in Nat /\ \A i \in n .. n + k - 1 : i \in Heights
  BY StartBatchIs DEF Heights
<1>3. \A i \in n .. n + k - 1 : Entry(i) \in rows /\ Entry(i).height = i
  BY <1>2, EntryIs
<1>4. \A r \in rows : r = Entry(r.height) /\ r.height \in n .. n + k - 1
  BY <1>3
<1>5. ASSUME NEW h \in Heights  PROVE u[h] = FirstRows(n + k)[h]
  <2>1. h \in Nat
    BY StartBatchIs DEF Heights
  <2>2. u[h] = IF \E r \in rows : r.height = h
               THEN CHOOSE r \in rows : r.height = h ELSE t[h]
    BY <1>1, Zenon
  <2>3. t[h] = (IF h < n THEN Entry(h) ELSE None)
        /\ FirstRows(n + k)[h] = IF h < n + k THEN Entry(h) ELSE None
    BY DEF FirstRows
  <2>4. CASE h \in n .. n + k - 1
    <3>1. Entry(h) \in rows /\ Entry(h).height = h /\ \A r \in rows : r.height = h => r = Entry(h)
      BY <1>3, <1>4, <2>4
    <3>2. u[h] = Entry(h)
      BY <2>2, <3>1, Zenon
    <3>3. h < n + k
      BY <2>1, <2>4
    <3> QED
      BY <2>3, <3>2, <3>3
  <2>5. CASE h \notin n .. n + k - 1
    <3>1. ~ \E r \in rows : r.height = h
      BY <1>4, <2>5
    <3>2. u[h] = t[h]
      BY <2>2, <3>1, Zenon
    <3>3. (h < n) <=> (h < n + k)
      BY <2>1, <2>5
    <3> QED
      BY <2>3, <3>2, <3>3
  <2> HIDE DEF u
  <2> QED
    BY <2>4, <2>5
<1>6. u = FirstRows(n + k)
  <2> HIDE DEF u
  <2> QED
    BY <1>1, <1>5 DEF FirstRows
<1> QED
  BY <1>6

----------------------------------------------------------------------------
(* The inductive invariant.                                                *)

Jobs == {Entry(i) : i \in Heights}

\* Has the main loop computed batch next, and not dispatched it yet?
Computed == step \in {"order", "job"}

MainRight ==
    /\ step \in {"generate", "order", "job", "closed"} /\ next \in 0 .. BatchNumber
    /\ Computed => next < BatchNumber /\ job = Entry(next)
    /\ ~Computed => job = None
    /\ totals = TotalsBefore(IF Computed THEN next + 1 ELSE next)

\* Whoever serializes a batch, its result is the witness of an uninterrupted run.
PoolRight ==
    /\ jobCh \in Seq(Jobs) /\ Len(jobCh) <= Cardinality(Workers)
    /\ held \in [Workers -> Jobs \cup {None}]
    /\ done \in [Heights -> Jobs \cup {None}]
    /\ \A h \in Heights : done[h] \in {None, Entry(h)}

\* The channels, and what the writer has in hand.
QueuesRight ==
    /\ orderCh \in Seq(Heights) /\ Len(orderCh) <= Cardinality(Workers)
    /\ picked \in Heights \cup {None}
    /\ ch \in Seq(WitnessRows) /\ Len(ch) <= ChCap
    /\ batch \in Seq(WitnessRows) /\ Len(batch) <= DbBatch
    /\ flushing => batch # <<>>
    /\ ~flushing => IF single THEN batch = <<>> ELSE Len(batch) < DbBatch

Others ==
    /\ running \in BOOLEAN /\ chClosed \in BOOLEAN /\ single \in BOOLEAN /\ flushing \in BOOLEAN
    /\ crashes \in Nat

TableRight == \E n \in 0 .. BatchNumber : table = FirstRows(n)

\* From the table back to the main loop every batch is in one place, in order:
\* n batches are in the table, and then come those of the writer, those in ch,
\* the one the collector waits for, and those whose order has been submitted.
Ordered == IF step = "job" THEN next + 1 ELSE next
Reached(n) == n + Len(batch) + Len(ch)
PickedUp(n) == Reached(n) + (IF picked = None THEN 0 ELSE 1)

Placing(n) ==
    /\ table = FirstRows(n)
    /\ Consecutive(batch, n) /\ Consecutive(ch, n + Len(batch))
    /\ picked \in {None, Reached(n)}
    /\ \A k \in 1 .. Len(orderCh) : orderCh[k] = PickedUp(n) + k - 1
    /\ PickedUp(n) + Len(orderCh) = Ordered

Idle ==
    /\ step = "generate" /\ orderCh = <<>> /\ jobCh = <<>> /\ picked = None
    /\ held = [w \in Workers |-> None]
    /\ ch = <<>> /\ chClosed = FALSE /\ batch = <<>> /\ flushing = FALSE

IInv ==
    /\ MainRight /\ PoolRight /\ QueuesRight /\ Others /\ TableRight
    /\ running => \E n \in 0 .. BatchNumber : Placing(n)
    /\ ~running => Idle

LEMMA WorkersCount == Cardinality(Workers) \in Nat
  BY SizeAssumption, FS_CardinalityType

\* A process that has computed n batches and holds nothing, or none at all.
LEMMA NothingInHand ==
    ASSUME NEW n \in 0 .. BatchNumber
    PROVE  /\ <<>> \in Seq(Jobs) /\ <<>> \in Seq(Heights) /\ <<>> \in Seq(WitnessRows)
           /\ Len(<<>>) = 0 /\ 0 <= Cardinality(Workers) /\ 0 <= ChCap /\ 0 < DbBatch /\ n \in Nat
           /\ [w \in Workers |-> None] \in [Workers -> Jobs \cup {None}]
           /\ [h \in Heights |-> None] \in [Heights -> Jobs \cup {None}]
<1>1. n \in Nat
  BY StartBatchIs
<1>2. [w \in Workers |-> None] \in [Workers -> Jobs \cup {None}]
      /\ [h \in Heights |-> None] \in [Heights -> Jobs \cup {None}]
  OBVIOUS
<1> QED
  BY <1>1, <1>2, EmptySeq, WorkersCount, SizeAssumption

LEMMA InitInv == Init => IInv
<1> SUFFICES ASSUME Init  PROVE IInv
  OBVIOUS
<1>1. BatchNumber \in Nat /\ 0 \in 0 .. BatchNumber
  BY StartBatchIs
<1>2. table = FirstRows(0)
  <2>1. \A h \in Heights : ~ (h < 0)
    BY <1>1 DEF Heights
  <2> QED
    BY <2>1 DEF Init, FirstRows
<1>3. MainRight
  BY <1>1, TotalsAre DEF Init, MainRight, Computed
<1>4. PoolRight
  BY <1>1, NothingInHand DEF Init, PoolRight
<1>5. QueuesRight
  BY <1>1, NothingInHand, SizeAssumption DEF Init, QueuesRight
<1>6. Others /\ Idle /\ ~running
  BY DEF Init, Others, Idle
<1>7. TableRight
  BY <1>1, <1>2 DEF TableRight
<1> QED
  BY <1>3, <1>4, <1>5, <1>6, <1>7 DEF IInv

LEMMA StepMemory ==
    ASSUME IInv, NEW n \in 0 .. BatchNumber, Memory(TotalsBefore(n), n), table' = table,
           crashes' \in Nat, running' \in BOOLEAN, running' => table = FirstRows(n)
    PROVE  IInv'
<1>1. /\ <<>> \in Seq(Jobs) /\ <<>> \in Seq(Heights) /\ <<>> \in Seq(WitnessRows)
      /\ Len(<<>>) = 0 /\ 0 <= Cardinality(Workers) /\ 0 <= ChCap /\ 0 < DbBatch /\ n \in Nat
      /\ [w \in Workers |-> None] \in [Workers -> Jobs \cup {None}]
      /\ [h \in Heights |-> None] \in [Heights -> Jobs \cup {None}]
  BY NothingInHand
<1>2. MainRight'
  BY DEF Memory, MainRight, Computed
<1>3. PoolRight'
  BY <1>1 DEF Memory, PoolRight
<1>4. QueuesRight'
  BY <1>1, SizeAssumption DEF Memory, QueuesRight
<1>5. Others' /\ Idle'
  BY DEF Memory, Others, Idle
<1>6. TableRight'
  BY DEF IInv, TableRight
<1>7. ASSUME running'  PROVE Placing(n)'
  <2>1. table' = FirstRows(n)
    BY <1>7
  <2>2. batch' = <<>> /\ ch' = <<>> /\ orderCh' = <<>> /\ picked' = None /\ Ordered' = n
    BY DEF Memory, Ordered
  <2>3. Reached(n)' = n /\ PickedUp(n)' = n
    BY <1>1, <2>2 DEF Reached, PickedUp
  <2> QED
    BY <1>1, <2>1, <2>2, <2>3 DEF Placing, Consecutive
<1> QED
  BY <1>2, <1>3, <1>4, <1>5, <1>6, <1>7 DEF IInv

\* A step of a running process that leaves the placing of the batches alone.
LEMMA StepKeeps ==
    ASSUME IInv, running, UNCHANGED <<table, running, batch, ch, picked, orderCh>>,
           Ordered' = Ordered, MainRight', PoolRight', QueuesRight', Others'
    PROVE  IInv'
<1>1. PICK n \in 0 .. BatchNumber : Placing(n)
  BY DEF IInv
<1>2. Reached(n)' = Reached(n) /\ PickedUp(n)' = PickedUp(n)
  BY DEF Reached, PickedUp
<1>3. Placing(n)'
  BY <1>1, <1>2 DEF Placing
<1>4. TableRight'
  BY DEF IInv, TableRight
<1> QED
  BY <1>3, <1>4 DEF IInv

\* A step of a running process that moves batches on.
LEMMA StepPlaces ==
    ASSUME IInv, running, running' = running, NEW n \in 0 .. BatchNumber, Placing(n)',
           MainRight', PoolRight', QueuesRight', Others'
    PROVE  IInv'
<1>1. TableRight'
  BY DEF TableRight, Placing
<1> QED
  BY <1>1 DEF IInv

----------------------------------------------------------------------------
(* The main loop.                                                          *)

LEMMA StepGenerate == IInv /\ Generate => IInv'
<1> SUFFICES ASSUME IInv, Generate  PROVE IInv'
  OBVIOUS
<1>1. next \in Heights /\ next \in Nat /\ next < BatchNumber /\ totals = TotalsBefore(next)
  BY StartBatchIs DEF Generate, IInv, MainRight, Computed, Heights
<1>2. job' = Entry(next) /\ totals' = TotalsBefore(next + 1)
  BY <1>1, TotalsAre DEF Generate, Entry
<1>3. MainRight'
  BY <1>1, <1>2 DEF Generate, IInv, MainRight, Computed
<1>4. PoolRight' /\ Ordered' = Ordered
  BY DEF Generate, IInv, PoolRight, Ordered, dispatchVars
<1>5. QueuesRight'
  BY DEF Generate, IInv, QueuesRight, dispatchVars, writerVars
<1>6. Others'
  BY DEF Generate, IInv, Others, writerVars
<1> QED
  BY <1>3, <1>4, <1>5, <1>6, StepKeeps DEF Generate, dispatchVars, writerVars

LEMMA StepSendOrder == IInv /\ SendOrder => IInv'
<1> SUFFICES ASSUME IInv, SendOrder  PROVE IInv'
  OBVIOUS
<1>1. running /\ Computed /\ next < BatchNumber /\ job = Entry(next) /\ next \in Nat
      /\ next \in Heights
  BY StartBatchIs DEF SendOrder, IInv, Idle, MainRight, Computed, Heights
<1>2. orderCh' = Append(orderCh, next) /\ orderCh \in Seq(Heights) /\ Len(orderCh) \in Nat
  BY <1>1, EntryIs, LenProperties DEF SendOrder, IInv, QueuesRight
<1>3. /\ orderCh' \in Seq(Heights) /\ Len(orderCh') = Len(orderCh) + 1
      /\ \A k \in 1 .. Len(orderCh) + 1 :
           orderCh'[k] = IF k = Len(orderCh) + 1 THEN next ELSE orderCh[k]
  BY <1>1, <1>2
<1>4. MainRight'
  BY <1>1 DEF SendOrder, IInv, MainRight, Computed
<1>5. PoolRight' /\ Others'
  BY DEF SendOrder, IInv, PoolRight, Others, writerVars
<1>6. QueuesRight'
  <2>1. Len(orderCh') <= Cardinality(Workers)
    BY <1>2, <1>3, WorkersCount DEF SendOrder
  <2> QED
    BY <1>3, <2>1 DEF SendOrder, IInv, QueuesRight, writerVars
<1>7. PICK n \in 0 .. BatchNumber : Placing(n)
  BY <1>1 DEF IInv
<1>8. Reached(n)' = Reached(n) /\ PickedUp(n)' = PickedUp(n)
  BY DEF SendOrder, Reached, PickedUp, writerVars
<1>9. PickedUp(n) \in Nat
  BY LenProperties, StartBatchIs DEF PickedUp, Reached, IInv, QueuesRight
<1>10. PickedUp(n) + Len(orderCh) = next /\ Ordered' = next + 1
  BY <1>7 DEF SendOrder, Placing, Ordered
<1>11. Placing(n)'
  <2>1. \A k \in 1 .. Len(orderCh') : orderCh'[k] = PickedUp(n) + k - 1
    BY <1>2, <1>3, <1>7, <1>9, <1>10 DEF Placing
  <2>2. PickedUp(n) + Len(orderCh') = Ordered'
    BY <1>2, <1>3, <1>9, <1>10
  <2> QED
    BY <1>7, <1>8, <2>1, <2>2 DEF Placing, SendOrder, writerVars
<1> QED
  BY <1>1, <1>4, <1>5, <1>6, <1>11, StepPlaces DEF SendOrder

LEMMA StepSendJob == IInv /\ SendJob => IInv'
<1> SUFFICES ASSUME IInv, SendJob  PROVE IInv'
  OBVIOUS
<1>1. running /\ Computed /\ next < BatchNumber /\ job = Entry(next) /\ next \in Nat
      /\ next \in Heights /\ BatchNumber \in Nat
  BY StartBatchIs DEF SendJob, IInv, Idle, MainRight, Computed, Heights
<1>2. job \in Jobs /\ jobCh \in Seq(Jobs) /\ Len(jobCh) \in Nat
  BY <1>1, LenProperties DEF IInv, PoolRight, Jobs
<1>3. Append(jobCh, job) \in Seq(Jobs) /\ Len(Append(jobCh, job)) = Len(jobCh) + 1
  BY <1>2
<1>4. MainRight'
  BY <1>1 DEF SendJob, IInv, MainRight, Computed
<1>5. PoolRight'
  BY <1>2, <1>3, WorkersCount DEF SendJob, IInv, PoolRight
<1>6. QueuesRight'
  BY DEF SendJob, IInv, QueuesRight, writerVars
<1>7. Others' /\ Ordered' = Ordered
  BY DEF SendJob, IInv, Others, Ordered, writerVars
<1> QED
  BY <1>1, <1>4, <1>5, <1>6, <1>7, StepKeeps DEF SendJob, writerVars

LEMMA StepCloseJobs == IInv /\ CloseJobs => IInv'
<1> SUFFICES ASSUME IInv, CloseJobs  PROVE IInv'
  OBVIOUS
<1>1. MainRight' /\ Ordered' = Ordered
  BY DEF CloseJobs, IInv, MainRight, Computed, Ordered
<1>2. PoolRight' /\ Others'
  BY DEF CloseJobs, IInv, PoolRight, Others, dispatchVars, writerVars
<1>3. QueuesRight'
  BY DEF CloseJobs, IInv, QueuesRight, dispatchVars, writerVars
<1> QED
  BY <1>1, <1>2, <1>3, StepKeeps DEF CloseJobs, dispatchVars, writerVars

----------------------------------------------------------------------------
(* The workers and the collector.                                          *)

LEMMA StepTakeJob ==
    ASSUME IInv, NEW w \in Workers, TakeJob(w)
    PROVE  IInv'
<1>1. running /\ jobCh \in Seq(Jobs) /\ jobCh # <<>> /\ Len(jobCh) <= Cardinality(Workers)
  BY DEF TakeJob, IInv, Idle, PoolRight
<1>2. /\ Head(jobCh) \in Jobs /\ Tail(jobCh) \in Seq(Jobs) /\ Len(Tail(jobCh)) = Len(jobCh) - 1
      /\ Len(jobCh) \in Nat
  BY <1>1, HeadTailProperties, LenProperties
<1>3. PoolRight'
  BY <1>1, <1>2, WorkersCount DEF TakeJob, IInv, PoolRight
<1>4. MainRight' /\ Ordered' = Ordered
  BY DEF TakeJob, IInv, MainRight, Computed, Ordered, mainVars
<1>5. QueuesRight'
  BY DEF TakeJob, IInv, QueuesRight, writerVars
<1>6. Others'
  BY DEF TakeJob, IInv, Others, writerVars
<1> QED
  BY <1>1, <1>3, <1>4, <1>5, <1>6, StepKeeps DEF TakeJob, writerVars

LEMMA StepSerialize ==
    ASSUME IInv, NEW w \in Workers, Serialize(w)
    PROVE  IInv'
<1>1. running
  BY DEF Serialize, IInv, Idle
<1>2. PICK i \in Heights : held[w] = Entry(i)
  BY DEF Serialize, IInv, PoolRight, Jobs
<1>3. held[w].height = i /\ held[w] \in Jobs
  BY <1>2, EntryIs DEF Jobs
<1>4. done' = [done EXCEPT ![i] = Entry(i)] /\ held' = [held EXCEPT ![w] = None]
  BY <1>2, <1>3 DEF Serialize
<1>5. PoolRight'
  BY <1>2, <1>3, <1>4 DEF Serialize, IInv, PoolRight
<1>6. MainRight' /\ Ordered' = Ordered
  BY DEF Serialize, IInv, MainRight, Computed, Ordered, mainVars
<1>7. QueuesRight'
  BY DEF Serialize, IInv, QueuesRight, writerVars
<1>8. Others'
  BY DEF Serialize, IInv, Others, writerVars
<1> QED
  BY <1>1, <1>5, <1>6, <1>7, <1>8, StepKeeps DEF Serialize, writerVars

\* Lengths and places are numbers.
LEMMA Numbers ==
    ASSUME IInv, NEW n \in 0 .. BatchNumber
    PROVE  /\ n \in Nat /\ BatchNumber \in Nat /\ Len(batch) \in Nat /\ Len(ch) \in Nat
           /\ Len(orderCh) \in Nat /\ Reached(n) \in Nat /\ PickedUp(n) \in Nat
           /\ Reached(n) = n + Len(batch) + Len(ch)
           /\ Ordered \in 0 .. BatchNumber
<1>1. n \in Nat /\ BatchNumber \in Nat
  BY StartBatchIs
<1>2. Len(batch) \in Nat /\ Len(ch) \in Nat /\ Len(orderCh) \in Nat
  BY LenProperties DEF IInv, QueuesRight
<1>3. Reached(n) = n + Len(batch) + Len(ch) /\ Reached(n) \in Nat
  BY <1>1, <1>2 DEF Reached
<1>4. PickedUp(n) \in Nat
  BY <1>3 DEF PickedUp
<1>5. Ordered \in 0 .. BatchNumber
  BY <1>1 DEF IInv, MainRight, Computed, Ordered
<1> QED
  BY <1>1, <1>2, <1>3, <1>4, <1>5

LEMMA StepPickNext == IInv /\ PickNext => IInv'
<1> SUFFICES ASSUME IInv, PickNext  PROVE IInv'
  OBVIOUS
<1>1. running /\ orderCh \in Seq(Heights) /\ orderCh # <<>> /\ Len(orderCh) <= Cardinality(Workers)
  BY DEF PickNext, IInv, Idle, QueuesRight
<1>2. PICK n \in 0 .. BatchNumber : Placing(n)
  BY <1>1 DEF IInv
<1>3. Reached(n) \in Nat /\ PickedUp(n) = Reached(n)
  BY Numbers DEF PickNext, PickedUp
<1>4. /\ Head(orderCh) \in Heights /\ Tail(orderCh) \in Seq(Heights) /\ Head(orderCh) = orderCh[1]
      /\ Len(Tail(orderCh)) = Len(orderCh) - 1 /\ Len(orderCh) \in Nat \ {0}
      /\ \A k \in 1 .. Len(Tail(orderCh)) : Tail(orderCh)[k] = orderCh[k+1]
  BY <1>1, HeadTailProperties, EmptySeq
<1>5. picked' = Reached(n) /\ picked' \in Heights /\ picked' # None
  BY <1>2, <1>3, <1>4, NoneAssumption DEF PickNext, Placing
<1>6. Reached(n)' = Reached(n) /\ PickedUp(n)' = Reached(n) + 1 /\ Ordered' = Ordered
  BY <1>5 DEF PickNext, Reached, PickedUp, Ordered, writerVars, mainVars
<1>7. Placing(n)'
  <2>1. \A k \in 1 .. Len(orderCh') : orderCh'[k] = Reached(n) + 1 + k - 1
    <3> SUFFICES ASSUME NEW k \in 1 .. Len(Tail(orderCh))
                 PROVE  Tail(orderCh)[k] = Reached(n) + 1 + k - 1
      BY DEF PickNext
    <3>1. k \in Nat /\ k + 1 \in 1 .. Len(orderCh)
      BY <1>4
    <3>2. orderCh[k+1] = PickedUp(n) + (k + 1) - 1
      BY <1>2, <3>1 DEF Placing
    <3> QED
      BY <1>3, <1>4, <3>1, <3>2
  <2>2. Reached(n) + 1 + Len(orderCh') = Ordered'
    BY <1>2, <1>3, <1>4, <1>6 DEF PickNext, Placing
  <2> QED
    BY <1>2, <1>5, <1>6, <2>1, <2>2 DEF PickNext, Placing, writerVars
<1>8. MainRight' /\ PoolRight' /\ Others'
  BY DEF PickNext, IInv, MainRight, Computed, PoolRight, Others, mainVars, writerVars
<1>9. QueuesRight'
  BY <1>1, <1>4, <1>5, WorkersCount DEF PickNext, IInv, QueuesRight, writerVars
<1> QED
  BY <1>1, <1>7, <1>8, <1>9, StepPlaces DEF PickNext

LEMMA StepForward == IInv /\ Forward => IInv'
<1> SUFFICES ASSUME IInv, Forward  PROVE IInv'
  OBVIOUS
<1>1. running /\ picked \in Heights /\ done[picked] = Entry(picked) /\ picked # None
  BY DEF Forward, IInv, Idle, QueuesRight, PoolRight
<1>2. PICK n \in 0 .. BatchNumber : Placing(n)
  BY <1>1 DEF IInv
<1>3. /\ n \in Nat /\ Len(batch) \in Nat /\ Len(ch) \in Nat
      /\ Reached(n) = n + Len(batch) + Len(ch) /\ PickedUp(n) = Reached(n) + 1
      /\ picked = Reached(n)
  BY <1>1, <1>2, Numbers DEF PickedUp, Placing
<1>4. ch \in Seq(WitnessRows) /\ ch' = Append(ch, Entry(picked)) /\ Entry(picked) \in WitnessRows
  BY <1>1, EntryIs DEF Forward, IInv, QueuesRight
<1>5. /\ ch' \in Seq(WitnessRows) /\ Len(ch') = Len(ch) + 1
      /\ \A k \in 1 .. Len(ch) + 1 : ch'[k] = IF k = Len(ch) + 1 THEN Entry(picked) ELSE ch[k]
  BY <1>3, <1>4
<1>6. Reached(n)' = Reached(n) + 1 /\ PickedUp(n)' = Reached(n) + 1 /\ Ordered' = Ordered
  BY <1>3, <1>5 DEF Forward, Reached, PickedUp, Ordered, mainVars
<1>7. Placing(n)'
  <2>1. Consecutive(ch', n + Len(batch))
    <3> SUFFICES ASSUME NEW k \in 1 .. Len(ch) + 1
                 PROVE  ch'[k] = Entry(n + Len(batch) + k - 1)
      BY <1>5 DEF Consecutive
    <3>1. CASE k = Len(ch) + 1
      <4>1. picked = n + Len(batch) + k - 1
        BY <1>3, <3>1
      <4> QED
        BY <1>5, <3>1, <4>1
    <3>2. CASE k # Len(ch) + 1
      <4>1. k \in 1 .. Len(ch) /\ ch'[k] = ch[k]
        BY <1>3, <1>5, <3>2
      <4>2. Consecutive(ch, n + Len(batch))
        BY <1>2 DEF Placing
      <4> QED
        BY <4>1, <4>2 DEF Consecutive
    <3> QED
      BY <3>1, <3>2
  <2> QED
    BY <1>2, <1>3, <1>6, <2>1 DEF Forward, Placing
<1>8. MainRight' /\ Others'
  BY DEF Forward, IInv, MainRight, Computed, Others, mainVars
<1>9. PoolRight'
  BY <1>1 DEF Forward, IInv, PoolRight
<1>10. QueuesRight'
  <2>1. Len(ch') <= ChCap
    BY <1>3, <1>5, SizeAssumption DEF Forward
  <2> QED
    BY <1>5, <2>1 DEF Forward, IInv, QueuesRight
<1> QED
  BY <1>1, <1>7, <1>8, <1>9, <1>10, StepPlaces DEF Forward

LEMMA StepCloseCh == IInv /\ CloseCh => IInv'
<1> SUFFICES ASSUME IInv, CloseCh  PROVE IInv'
  OBVIOUS
<1>1. running
  BY DEF CloseCh, IInv, Idle
<1>2. MainRight' /\ PoolRight' /\ Others' /\ Ordered' = Ordered
  BY DEF CloseCh, IInv, MainRight, Computed, PoolRight, Others, Ordered, mainVars, dispatchVars
<1>3. QueuesRight'
  BY DEF CloseCh, IInv, QueuesRight, dispatchVars
<1> QED
  BY <1>1, <1>2, <1>3, StepKeeps DEF CloseCh, dispatchVars

----------------------------------------------------------------------------
(* The writer.                                                             *)

LEMMA StepReceive == IInv /\ Receive => IInv'
<1> SUFFICES ASSUME IInv, Receive  PROVE IInv'
  OBVIOUS
<1>1. running /\ ch \in Seq(WitnessRows) /\ ch # <<>> /\ batch \in Seq(WitnessRows) /\ ~flushing
  BY DEF Receive, IInv, Idle, QueuesRight
<1>2. PICK n \in 0 .. BatchNumber : Placing(n)
  BY <1>1 DEF IInv
<1>3. /\ n \in Nat /\ Len(batch) \in Nat /\ Len(ch) \in Nat /\ PickedUp(n) \in Nat
      /\ Reached(n) = n + Len(batch) + Len(ch)
  BY Numbers
<1>4. /\ Head(ch) \in WitnessRows /\ Tail(ch) \in Seq(WitnessRows) /\ Head(ch) = ch[1]
      /\ Len(Tail(ch)) = Len(ch) - 1 /\ Len(ch) # 0
      /\ \A k \in 1 .. Len(Tail(ch)) : Tail(ch)[k] = ch[k+1]
  BY <1>1, HeadTailProperties, EmptySeq
<1>5. /\ batch' \in Seq(WitnessRows) /\ Len(batch') = Len(batch) + 1
      /\ \A k \in 1 .. Len(batch) + 1 :
           batch'[k] = IF k = Len(batch) + 1 THEN ch[1] ELSE batch[k]
  BY <1>1, <1>3, <1>4 DEF Receive
<1>6. Reached(n)' = Reached(n) /\ PickedUp(n)' = PickedUp(n) /\ Ordered' = Ordered
  <2>1. n + Len(batch') + Len(ch') = n + Len(batch) + Len(ch)
    BY <1>3, <1>4, <1>5 DEF Receive
  <2> QED
    BY <2>1 DEF Receive, Reached, PickedUp, Ordered, mainVars, dispatchVars
<1>7. \A k \in 1 .. Len(ch) : ch[k] = Entry(n + Len(batch) + k - 1)
  BY <1>2 DEF Placing, Consecutive
<1>8. Consecutive(batch', n)
  <2> SUFFICES ASSUME NEW k \in 1 .. Len(batch) + 1  PROVE batch'[k] = Entry(n + k - 1)
    BY <1>5 DEF Consecutive
  <2>1. CASE k = Len(batch) + 1
    <3>1. ch[1] = Entry(n + Len(batch) + 1 - 1) /\ n + Len(batch) + 1 - 1 = n + k - 1
      BY <1>3, <1>4, <1>7, <2>1
    <3> QED
      BY <1>5, <2>1, <3>1
  <2>2. CASE k # Len(batch) + 1
    <3>1. k \in 1 .. Len(batch) /\ batch'[k] = batch[k]
      BY <1>3, <1>5, <2>2
    <3> QED
      BY <1>2, <3>1 DEF Placing, Consecutive
  <2> QED
    BY <2>1, <2>2
<1>9. Consecutive(Tail(ch), n + Len(batch) + 1)
  <2> SUFFICES ASSUME NEW k \in 1 .. Len(Tail(ch))
               PROVE  Tail(ch)[k] = Entry(n + Len(batch) + 1 + k - 1)
    BY DEF Consecutive
  <2>1. k + 1 \in 1 .. Len(ch) /\ n + Len(batch) + (k + 1) - 1 = n + Len(batch) + 1 + k - 1
    BY <1>3, <1>4
  <2>2. ch[k+1] = Entry(n + Len(batch) + (k + 1) - 1)
    BY <1>7, <2>1
  <2> QED
    BY <1>4, <2>1, <2>2
<1>10. Placing(n)'
  <2>1. n + Len(batch') = n + Len(batch) + 1
    BY <1>3, <1>5
  <2>2. Consecutive(ch', n + Len(batch'))
    BY <1>9, <2>1 DEF Receive
  <2> QED
    BY <1>2, <1>6, <1>8, <2>2 DEF Receive, Placing, dispatchVars
<1>11. MainRight' /\ PoolRight'
  BY DEF Receive, IInv, MainRight, Computed, PoolRight, mainVars, dispatchVars
<1>12. Others'
  BY DEF Receive, IInv, Others
<1>13. QueuesRight'
  <2>1. Len(batch') <= DbBatch
    BY <1>1, <1>3, <1>5, EmptySeq, SizeAssumption DEF IInv, QueuesRight
  <2>2. ~flushing' => ~single' /\ Len(batch') < DbBatch
    <3>1. /\ single \in BOOLEAN /\ single' = single /\ DbBatch \in Nat
          /\ flushing' = (Len(batch') >= DbBatchSize)
      BY SizeAssumption DEF Receive, IInv, Others
    <3>2. Len(batch') \in Nat /\ Len(batch') >= 1
      BY <1>3, <1>5
    <3>3. CASE single
      <4>1. DbBatchSize = 1
        BY <3>3 DEF DbBatchSize
      <4>2. flushing'
        BY <3>1, <3>2, <4>1
      <4> QED
        BY <4>2
    <3>4. CASE ~single
      <4>1. flushing' = (Len(batch') >= DbBatch)
        BY <3>1, <3>4 DEF DbBatchSize
      <4>2. ~ (Len(batch') >= DbBatch) => Len(batch') < DbBatch
        BY <3>1, <3>2
      <4>3. ~single'
        BY <3>1, <3>4
      <4> QED
        BY <4>1, <4>2, <4>3
    <3> QED
      BY <3>1, <3>3, <3>4
  <2>3. batch' # <<>>
    BY <1>3, <1>5
  <2>4. Len(ch') <= ChCap
    BY <1>3, <1>4, SizeAssumption DEF Receive, IInv, QueuesRight
  <2> QED
    BY <1>4, <1>5, <2>1, <2>2, <2>3, <2>4 DEF Receive, IInv, QueuesRight, dispatchVars
<1> QED
  BY <1>1, <1>10, <1>11, <1>12, <1>13, StepPlaces DEF Receive

LEMMA StepFlushRest == IInv /\ (FlushRest \/ FallBack) => IInv'
<1> SUFFICES ASSUME IInv, FlushRest \/ FallBack  PROVE IInv'
  OBVIOUS
<1>1. running
  BY DEF FlushRest, FallBack, IInv, Idle
<1>2. MainRight' /\ PoolRight' /\ Ordered' = Ordered
  BY DEF FlushRest, FallBack, IInv, MainRight, Computed, PoolRight, Ordered, mainVars, dispatchVars
<1>3. Others'
  BY DEF FlushRest, FallBack, IInv, Others
<1>4. QueuesRight'
  BY DEF FlushRest, FallBack, IInv, QueuesRight, dispatchVars
<1> QED
  BY <1>1, <1>2, <1>3, <1>4, StepKeeps DEF FlushRest, FallBack, dispatchVars

\* The first k rows of the batch are inserted.
LEMMA StepInsert ==
    ASSUME IInv, running, NEW n \in 0 .. BatchNumber, Placing(n),
           NEW k \in 1 .. Len(batch),
           CreateBatchWitness({batch[j] : j \in 1 .. k})
    PROVE  n + k \in 0 .. BatchNumber /\ table' = FirstRows(n + k)
<1>1. /\ n \in Nat /\ BatchNumber \in Nat /\ Len(batch) \in Nat /\ Len(ch) \in Nat
      /\ Len(orderCh) \in Nat /\ Reached(n) = n + Len(batch) + Len(ch)
      /\ Ordered \in 0 .. BatchNumber
  BY Numbers
<1>2. PickedUp(n) = Reached(n) \/ PickedUp(n) = Reached(n) + 1
  BY <1>1 DEF PickedUp
<1>3. PickedUp(n) + Len(orderCh) = Ordered
  BY DEF Placing
<1>4. n + k <= BatchNumber /\ k \in Nat
  BY <1>1, <1>2, <1>3
<1> DEFINE rows == {batch[j] : j \in 1 .. k}
<1>5. rows = {Entry(i) : i \in n .. n + k - 1}
  <2>1. \A j \in 1 .. k : batch[j] = Entry(n + j - 1)
    BY <1>1 DEF Placing, Consecutive
  <2>2. \A j \in 1 .. k : n + j - 1 \in n .. n + k - 1
    BY <1>1
  <2>3. \A i \in n .. n + k - 1 : i - n + 1 \in 1 .. k /\ n + (i - n + 1) - 1 = i
    BY <1>1, <1>4
  <2>4. ASSUME NEW r \in rows  PROVE r \in {Entry(i) : i \in n .. n + k - 1}
    <3>1. PICK j \in 1 .. k : r = batch[j]
      OBVIOUS
    <3>2. r = Entry(n + j - 1) /\ n + j - 1 \in n .. n + k - 1
      BY <2>1, <2>2, <3>1
    <3> QED
      BY <3>2
  <2>5. ASSUME NEW i \in n .. n + k - 1  PROVE Entry(i) \in rows
    <3>1. i - n + 1 \in 1 .. k /\ batch[i - n + 1] = Entry(i)
      BY <2>1, <2>3
    <3> QED
      BY <3>1
  <2> HIDE DEF rows
  <2> QED
    BY <2>4, <2>5
<1>6. table = FirstRows(n)
  BY DEF Placing
<1>7. table' = Inserted(rows, table)
  BY DEF CreateBatchWitness, Inserted
<1>8. table' = FirstRows(n + k)
  <2> HIDE DEF rows
  <2> QED
    BY <1>1, <1>4, <1>5, <1>6, <1>7, InsertExtends
<1> QED
  BY <1>1, <1>4, <1>8

\* What is left of the batch.
LEMMA StepPersist ==
    ASSUME IInv, running, NEW n \in 0 .. BatchNumber, Placing(n),
           NEW k \in 1 .. Len(batch), table' = FirstRows(n + k), n + k \in 0 .. BatchNumber,
           batch' \in Seq(WitnessRows), Len(batch') = Len(batch) - k,
           \A j \in 1 .. Len(batch) - k : batch'[j] = batch[k+j],
           UNCHANGED <<running, mainVars, dispatchVars, ch, chClosed, single, crashes>>,
           flushing' \in BOOLEAN, flushing' => batch' # <<>>,
           ~flushing' => batch' = <<>>
    PROVE  IInv'
<1>1. /\ n \in Nat /\ BatchNumber \in Nat /\ Len(batch) \in Nat /\ Len(ch) \in Nat /\ k \in Nat
      /\ Reached(n) = n + Len(batch) + Len(ch)
  BY Numbers
<1>2. /\ Reached(n + k)' = Reached(n) /\ PickedUp(n + k)' = PickedUp(n) /\ Ordered' = Ordered
      /\ (n + k) + Len(batch') = n + Len(batch)
  <2>1. (n + k) + Len(batch') = n + Len(batch)
    BY <1>1
  <2>2. Reached(n + k)' = Reached(n)
    BY <2>1 DEF Reached
  <2> QED
    BY <2>1, <2>2 DEF PickedUp, Ordered, mainVars, dispatchVars
<1>3. Consecutive(batch', n + k)
  <2> SUFFICES ASSUME NEW j \in 1 .. Len(batch) - k  PROVE batch'[j] = Entry(n + k + j - 1)
    BY DEF Consecutive
  <2>1. k + j \in 1 .. Len(batch) /\ n + (k + j) - 1 = n + k + j - 1
    BY <1>1
  <2>2. batch[k+j] = Entry(n + (k + j) - 1)
    BY <2>1 DEF Placing, Consecutive
  <2> QED
    BY <2>1, <2>2
<1>4. Placing(n + k)'
  BY <1>2, <1>3 DEF Placing, dispatchVars
<1>5. MainRight' /\ PoolRight' /\ Others'
  BY DEF IInv, MainRight, Computed, PoolRight, Others, mainVars, dispatchVars
<1>6. QueuesRight'
  <2>1. Len(batch') <= DbBatch /\ Len(<<>>) = 0 /\ 0 < DbBatch
    BY <1>1, EmptySeq, SizeAssumption DEF IInv, QueuesRight
  <2> QED
    BY <2>1 DEF IInv, QueuesRight, dispatchVars
<1> QED
  BY <1>4, <1>5, <1>6, StepPlaces

LEMMA StepPersistBatch == IInv /\ PersistBatch => IInv'
<1> SUFFICES ASSUME IInv, PersistBatch  PROVE IInv'
  OBVIOUS
<1>1. running /\ batch \in Seq(WitnessRows) /\ batch # <<>>
  BY DEF PersistBatch, IInv, Idle, QueuesRight
<1>2. PICK n \in 0 .. BatchNumber : Placing(n)
  BY <1>1 DEF IInv
<1>3. Len(batch) \in 1 .. Len(batch) /\ Len(batch) \in Nat
  BY <1>1, EmptySeq
<1>4. n + Len(batch) \in 0 .. BatchNumber /\ table' = FirstRows(n + Len(batch))
  BY <1>1, <1>2, <1>3, StepInsert DEF PersistBatch
<1>5. /\ batch' = <<>> /\ <<>> \in Seq(WitnessRows) /\ Len(batch') = Len(batch) - Len(batch)
      /\ Len(batch) - Len(batch) = 0 /\ flushing' = FALSE
  BY <1>3, EmptySeq DEF PersistBatch
<1>6. \A j \in 1 .. Len(batch) - Len(batch) : batch'[j] = batch[Len(batch) + j]
  BY <1>5
<1> QED
  BY <1>1, <1>2, <1>3, <1>4, <1>5, <1>6, StepPersist DEF PersistBatch

LEMMA StepPersistRow == IInv /\ PersistRow => IInv'
<1> SUFFICES ASSUME IInv, PersistRow  PROVE IInv'
  OBVIOUS
<1>1. running /\ batch \in Seq(WitnessRows) /\ batch # <<>>
  BY DEF PersistRow, IInv, Idle, QueuesRight
<1>2. PICK n \in 0 .. BatchNumber : Placing(n)
  BY <1>1 DEF IInv
<1>3. /\ Tail(batch) \in Seq(WitnessRows) /\ Len(Tail(batch)) = Len(batch) - 1
      /\ 1 \in 1 .. Len(batch) /\ Head(batch) = batch[1]
      /\ \A j \in 1 .. Len(batch) - 1 : Tail(batch)[j] = batch[j+1]
      /\ \A j \in Nat : j + 1 = 1 + j
  BY <1>1, HeadTailProperties, EmptySeq
<1>4. {Head(batch)} = {batch[j] : j \in 1 .. 1}
  BY <1>3
<1>5. n + 1 \in 0 .. BatchNumber /\ table' = FirstRows(n + 1)
  BY <1>1, <1>2, <1>3, <1>4, StepInsert DEF PersistRow
<1>6. batch' = Tail(batch) /\ flushing' = (batch' # <<>>)
  BY DEF PersistRow
<1>7. \A j \in 1 .. Len(batch) - 1 : batch'[j] = batch[1+j]
  BY <1>3, <1>6
<1> QED
  BY <1>1, <1>2, <1>3, <1>5, <1>6, <1>7, StepPersist DEF PersistRow

\* The writer reports, and the process is idle again.
LEMMA StepFinish == IInv /\ Finish => IInv'
<1> SUFFICES ASSUME IInv, Finish  PROVE IInv'
  OBVIOUS
<1>1. 0 \in 0 .. BatchNumber /\ crashes' \in Nat
  BY StartBatchIs DEF Finish, IInv, Others
<1> QED
  BY <1>1, StepMemory, TotalsAre DEF Finish

\* The service resumes after the rows that are there.
LEMMA StepStart == IInv /\ Start => IInv'
<1> SUFFICES ASSUME IInv, Start  PROVE IInv'
  OBVIOUS
<1>1. PICK n \in 0 .. BatchNumber : table = FirstRows(n)
  BY DEF IInv, TableRight
<1>2. running' = TRUE /\ table' = table /\ crashes' \in Nat
  BY DEF Start, IInv, Others
<1>3. CASE n = 0
  <2>1. Memory(TotalsBefore(n), n)
    BY <1>1, <1>3, LatestIs, TotalsAre DEF Start
  <2> QED
    BY <1>1, <1>2, <2>1, StepMemory
<1>4. CASE n # 0
  <2>1. /\ Stored # {} /\ Latest = n - 1 /\ n - 1 \in Heights /\ table[Latest] = Entry(n - 1)
        /\ n - 1 + 1 = n /\ Latest + 1 = n
    BY <1>1, <1>4, LatestIs, StartBatchIs
  <2>2. RecoverAfterCexAssets(table[Latest]) = TotalsBefore(n)
    BY <2>1, EntryIs
  <2>3. Memory(TotalsBefore(n), n)
    BY <2>1, <2>2 DEF Start
  <2> QED
    BY <1>1, <1>2, <2>3, StepMemory
<1> QED
  BY <1>3, <1>4

\* Whatever the goroutines do, and wherever the process dies.
LEMMA StepInv == IInv /\ [Next]_vars => IInv'
<1> SUFFICES ASSUME IInv, [Next]_vars  PROVE IInv'
  OBVIOUS
<1>1. CASE Start
  BY <1>1, StepStart
<1>2. CASE Crash
  <2>1. 0 \in 0 .. BatchNumber /\ crashes' \in Nat
    BY <1>2, StartBatchIs DEF Crash, IInv, Others
  <2> QED
    BY <1>2, <2>1, StepMemory, TotalsAre DEF Crash
<1>3. CASE UNCHANGED vars
  <2>1. MainRight' /\ PoolRight' /\ Ordered' = Ordered
    BY <1>3 DEF vars, mainVars, dispatchVars, IInv, MainRight, Computed, PoolRight, Ordered
  <2>2. QueuesRight' /\ Others' /\ TableRight'
    BY <1>3 DEF vars, dispatchVars, writerVars, IInv, QueuesRight, Others, TableRight
  <2>3. Idle => Idle'
    BY <1>3 DEF vars, mainVars, dispatchVars, writerVars, Idle
  <2>4. UNCHANGED <<table, running, batch, ch, picked, orderCh>>
    BY <1>3 DEF vars, dispatchVars, writerVars
  <2>5. CASE running
    BY <2>1, <2>2, <2>4, <2>5, StepKeeps
  <2>6. CASE ~running
    BY <2>1, <2>2, <2>3, <2>4, <2>6 DEF IInv
  <2> QED
    BY <2>5, <2>6
<1>4. CASE AlreadyGenerated
  BY <1>3, <1>4 DEF AlreadyGenerated
<1>5. CASE Main
  BY <1>5, StepGenerate, StepSendOrder, StepSendJob, StepCloseJobs DEF Main
<1>6. CASE Pool
  BY <1>6, StepTakeJob, StepSerialize DEF Pool
<1>7. CASE Collector
  BY <1>7, StepPickNext, StepForward, StepCloseCh DEF Collector
<1>8. CASE Writer
  BY <1>8, StepReceive, StepFlushRest, StepPersistBatch, StepPersistRow, StepFinish DEF Writer
<1>9. CASE FallBack
  BY <1>9, StepFlushRest
<1> QED
  BY <1>1, <1>2, <1>3, <1>4, <1>5, <1>6, <1>7, <1>8, <1>9 DEF Next

LEMMA Invariant == Spec => []IInv
  BY InitInv, StepInv, PTL DEF Spec

----------------------------------------------------------------------------
(* What the service promises.                                              *)

\* The type invariant: among others, that no channel and no insert exceeds
\* its size.
THEOREM TypeCorrect == Spec => []TypeOK
<1>1. IInv => TypeOK
  <2> SUFFICES ASSUME IInv  PROVE TypeOK
    OBVIOUS
  <2>1. Jobs \subseteq WitnessRows
    BY EntryIs DEF Jobs
  <2>2. totals \in Totals
    BY TotalsAre DEF IInv, MainRight
  <2>3. job \in WitnessRows \cup {None}
    <3>1. CASE Computed
      <4>1. next \in Heights /\ job = Entry(next)
        BY <3>1, StartBatchIs DEF IInv, MainRight, Heights
      <4> QED
        BY <4>1, EntryIs
    <3>2. CASE ~Computed
      BY <3>2 DEF IInv, MainRight
    <3> QED
      BY <3>1, <3>2
  <2>4. jobCh \in Seq(WitnessRows)
    <3>1. jobCh \in Seq(Jobs)
      BY DEF IInv, PoolRight
    <3>2. jobCh = [i \in 1 .. Len(jobCh) |-> jobCh[i]] /\ Len(jobCh) \in Nat
      BY <3>1
    <3>3. \A i \in 1 .. Len(jobCh) : jobCh[i] \in WitnessRows
      BY <2>1, <3>1, ElementOfSeq
    <3> QED
      BY <3>2, <3>3
  <2>5. /\ held \in [Workers -> WitnessRows \cup {None}]
        /\ done \in [Heights -> WitnessRows \cup {None}]
    BY <2>1 DEF IInv, PoolRight
  <2>6. table \in [Heights -> WitnessRows \cup {None}]
    BY EntryIs DEF IInv, TableRight, FirstRows
  <2> QED
    BY <2>2, <2>3, <2>4, <2>5, <2>6
    DEF IInv, MainRight, PoolRight, QueuesRight, Others, TypeOK
<1> QED
  BY <1>1, Invariant, PTL

\* Consecutive rows chain, in totals and in account numbers, across restarts
\* and across the boundaries of the tiers.
THEOREM RowsChain == Spec => []BatchesChain
<1>1. IInv => BatchesChain
  <2> SUFFICES ASSUME IInv, NEW h \in Stored, h + 1 \in Stored
               PROVE  /\ table[h+1].beforeCommitment = table[h].afterCommitment
                      /\ table[h+1].min = table[h].max + 1
    BY DEF BatchesChain
  <2>1. PICK n \in 0 .. BatchNumber : table = FirstRows(n)
    BY DEF IInv, TableRight
  <2>2. h \in Heights /\ h + 1 \in Heights /\ table[h] = Entry(h) /\ table[h+1] = Entry(h+1)
    BY <2>1, FirstRowsCount DEF Stored
  <2>3. MinAccount(h + 1) = MaxAccount(h) + 1
    BY <2>2, AccountsChain
  <2> QED
    BY <2>2, <2>3, EntryIs
<1> QED
  BY <1>1, Invariant, PTL

\* The last row is there only with all the others, and the totals it commits
\* to count every batch once.
THEOREM LastIsComplete == Spec => []CompleteTotals
<1>1. IInv => CompleteTotals
  <2> SUFFICES ASSUME IInv, BatchNumber - 1 \in Stored
               PROVE  /\ Stored = Heights
                      /\ table[BatchNumber - 1].afterCommitment = Commitment([h \in Heights |-> 1])
    BY DEF CompleteTotals
  <2>1. PICK n \in 0 .. BatchNumber : table = FirstRows(n)
    BY DEF IInv, TableRight
  <2>2. /\ Stored = 0 .. n - 1 /\ n \in Nat /\ BatchNumber \in Nat
        /\ \A i \in 0 .. n - 1 : i \in Heights /\ table[i] = Entry(i)
    <3>1. Stored = 0 .. n - 1
      BY <2>1, FirstRowsCount DEF Stored
    <3>2. \A i \in 0 .. n - 1 : i \in Heights /\ table[i] = Entry(i)
      BY <2>1, FirstRowsCount
    <3>3. n \in Nat /\ BatchNumber \in Nat
      BY StartBatchIs
    <3> QED
      BY <3>1, <3>2, <3>3
  <2>3. n = BatchNumber
    BY <2>2
  <2>4. Stored = Heights /\ BatchNumber - 1 \in Heights /\ BatchNumber - 1 + 1 = BatchNumber
    BY <2>2, <2>3 DEF Heights
  <2>5. table[BatchNumber - 1].afterCommitment = Commitment(TotalsBefore(BatchNumber))
    BY <2>2, <2>3, <2>4, EntryIs
  <2>6. TotalsBefore(BatchNumber) = [h \in Heights |-> 1]
    <3>1. \A h \in Heights : h < BatchNumber
      BY <2>2 DEF Heights
    <3> QED
      BY <3>1 DEF TotalsBefore
  <2> QED
    BY <2>4, <2>5, <2>6
<1> QED
  BY <1>1, Invariant, PTL

----------------------------------------------------------------------------
(* The table is the log that is promised.                                  *)

\* The first n witnesses of an uninterrupted run.
FirstEntries(n) == [k \in 1 .. n |-> Entry(k - 1)]

LEMMA TableLogIs ==
    ASSUME NEW n \in 0 .. BatchNumber, table = FirstRows(n)
    PROVE  Cardinality(Stored) = n /\ TableLog = FirstEntries(n)
<1>1. Cardinality(Stored) = n /\ \A i \in 0 .. n - 1 : table[i] = Entry(i)
  BY FirstRowsCount DEF Stored
<1>2. \A k \in 1 .. n : k - 1 \in 0 .. n - 1
  BY StartBatchIs
<1> QED
  BY <1>1, <1>2 DEF TableLog, FirstEntries

LEMMA NextTableLogIs ==
    ASSUME NEW n \in 0 .. BatchNumber, table' = FirstRows(n)
    PROVE  Cardinality(Stored)' = n /\ TableLog' = FirstEntries(n)
<1>1. Cardinality(Stored)' = n /\ \A i \in 0 .. n - 1 : table'[i] = Entry(i)
  BY FirstRowsCount DEF Stored
<1>2. \A k \in 1 .. n : k - 1 \in 0 .. n - 1
  BY StartBatchIs
<1> QED
  BY <1>1, <1>2 DEF TableLog, FirstEntries

\* No step removes a row.
LEMMA RowsStay ==
    ASSUME [Next]_vars
    PROVE  table' = table \/ \A h \in Heights : table[h] # None => table'[h] # None
<1>1. ASSUME NEW rows, CreateBatchWitness(rows)
      PROVE  \A h \in Heights : table[h] # None => table'[h] # None
  BY <1>1 DEF CreateBatchWitness
<1>2. CASE PersistBatch \/ PersistRow
  BY <1>1, <1>2 DEF PersistBatch, PersistRow
<1>3. CASE Main \/ Pool
  BY <1>3 DEF Main, Generate, SendOrder, SendJob, CloseJobs, Pool, TakeJob, Serialize
<1>4. CASE Collector \/ Receive \/ FlushRest \/ Finish \/ FallBack
  BY <1>4 DEF Collector, PickNext, Forward, CloseCh, Receive, FlushRest, Finish, FallBack
<1>5. CASE Start \/ AlreadyGenerated \/ Crash \/ UNCHANGED vars
  BY <1>5 DEF Start, AlreadyGenerated, Crash, vars
<1> QED
  BY <1>2, <1>3, <1>4, <1>5 DEF Next, Writer

LEMMA InitLog == Init => Log!LogInit
<1> SUFFICES ASSUME Init  PROVE TableLog = <<>>
  BY DEF Log!LogInit
<1>1. BatchNumber \in Nat
  BY StartBatchIs
<1>2. table = FirstRows(0)
  <2>1. \A h \in Heights : ~ (h < 0)
    BY <1>1 DEF Heights
  <2> QED
    BY <2>1 DEF Init, FirstRows
<1>3. TableLog = FirstEntries(0)
  BY <1>1, <1>2, TableLogIs
<1> QED
  BY <1>3 DEF FirstEntries

LEMMA StepLog == IInv /\ IInv' /\ [Next]_vars => [Log!LogNext]_TableLog
<1> SUFFICES ASSUME IInv, IInv', [Next]_vars  PROVE Log!LogNext \/ TableLog' = TableLog
  OBVIOUS
<1>1. PICK m \in 0 .. BatchNumber : table = FirstRows(m)
  BY DEF IInv, TableRight
<1>2. PICK n \in 0 .. BatchNumber : table' = FirstRows(n)
  BY DEF IInv, TableRight
<1>3. Cardinality(Stored) = m /\ TableLog = FirstEntries(m) /\ TableLog' = FirstEntries(n)
  BY <1>1, <1>2, TableLogIs, NextTableLogIs
<1>4. BatchNumber \in Nat /\ m \in Nat /\ n \in Nat
  BY StartBatchIs
<1>5. {h \in Heights : table[h] # None} = 0 .. m - 1
  BY <1>1, FirstRowsCount
<1>6. {h \in Heights : table'[h] # None} = 0 .. n - 1
  BY <1>2, FirstRowsCount
<1>7. m <= n
  <2>1. \A h \in 0 .. m - 1 : h \in 0 .. n - 1
    BY <1>5, <1>6, RowsStay
  <2>2. m = 0 \/ m - 1 \in 0 .. m - 1
    BY <1>4
  <2> QED
    BY <1>4, <2>1, <2>2
<1>8. CASE m = n
  BY <1>3, <1>8
<1>9. CASE m # n
  <2> DEFINE entries == [k \in 1 .. BatchNumber |-> Entry(k - 1)]
  <2>1. n \in m + 1 .. BatchNumber
    BY <1>4, <1>7, <1>9
  <2>2. Len(TableLog) = m /\ Len(entries) = BatchNumber
    BY <1>3, <1>4 DEF FirstEntries
  <2>3. SubSeq(entries, 1, n) = FirstEntries(n)
    BY <1>4, <2>1 DEF FirstEntries
  <2> HIDE DEF entries
  <2>4. TableLog' = SubSeq(entries, 1, n) /\ n \in Len(TableLog) + 1 .. Len(entries)
    BY <1>3, <2>1, <2>2, <2>3
  <2>5. Log!Extend(n)
    BY <2>4 DEF Log!Extend, entries
  <2> QED
    BY <2>4, <2>5 DEF Log!LogNext, entries
<1> QED
  BY <1>8, <1>9

\* The table always holds the witnesses of the first batches of an
\* uninterrupted run, in order and each once.
THEOREM TableIsLog == Spec => ImplementsLog
  BY InitInv, StepInv, InitLog, StepLog, PTL DEF Spec, ImplementsLog, Log!LogSpec

=============================================================================
