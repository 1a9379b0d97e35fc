---------------------- MODULE CollateralTiers_proofs ----------------------
(***************************************************************************)
(* Theorems about CollateralTiers, for tables of any number of tiers, any  *)
(* boundaries and ratios, and any value: the host's value of a collateral, *)
(* and every value that the circuit can be made to accept, is the value    *)
(* that the tiers define.                                                  *)
(***************************************************************************)
EXTENDS CollateralTiers, NumberFacts, SequenceTheorems

----------------------------------------------------------------------------
(* Sums of sequences.                                                      *)

\* f gives the sums of the first elements of h, up to n of them.
SumsUpTo(f, h, n) == f = [i \in 0 .. n |-> IF i = 0 THEN 0 ELSE f[i-1] + h[i]]

\* The recursion of PrefixSums has a solution.
LEMMA SumsExist ==
    ASSUME NEW h \in Seq(Int), NEW n \in Nat
    PROVE  \E f : SumsUpTo(f, h, n)
<1> DEFINE S == {m \in Nat : ~ \E f : SumsUpTo(f, h, m)}
<1> SUFFICES ASSUME S # {}  PROVE FALSE
  OBVIOUS
<1>1. PICK m \in S : \A k \in S : m <= k
  BY LeastNat
<1>2. m # 0
  <2> DEFINE g == [i \in 0 .. 0 |-> 0]
  <2>1. SumsUpTo(g, h, 0)
    BY DEF SumsUpTo
  <2> QED
    BY <2>1, <1>1
<1>3. m - 1 \in Nat /\ m - 1 \notin S
  BY <1>1, <1>2
<1>4. PICK f : SumsUpTo(f, h, m - 1)
  BY <1>3
<1> DEFINE g == [i \in 0 .. m |-> IF i = m THEN f[m-1] + h[m] ELSE f[i]]
<1>5. SumsUpTo(g, h, m)
  BY <1>2, <1>3, <1>4 DEF SumsUpTo
<1> QED
  BY <1>5, <1>1

\* So PrefixSums satisfies its recursion, and the sums are integers.
LEMMA PrefixSumsAre ==
    ASSUME NEW h \in Seq(Int)
    PROVE  /\ PrefixSums(h)[0] = 0
           /\ \A i \in 1 .. Len(h) : PrefixSums(h)[i] = PrefixSums(h)[i-1] + h[i]
           /\ \A i \in 0 .. Len(h) : PrefixSums(h)[i] \in Int
<1> DEFINE P == PrefixSums(h)
<1>1. Len(h) \in Nat /\ \A i \in 1 .. Len(h) : h[i] \in Int
  BY LenProperties, SMTT(30)
<1>2. \E f : f = [i \in 0 .. Len(h) |-> IF i = 0 THEN 0 ELSE f[i-1] + h[i]]
  BY SumsExist, <1>1 DEF SumsUpTo
<1>3. P = [i \in 0 .. Len(h) |-> IF i = 0 THEN 0 ELSE P[i-1] + h[i]]
  BY <1>2, Zenon DEF PrefixSums
<1> HIDE DEF P
<1>4. P[0] = 0 /\ \A i \in 1 .. Len(h) : P[i] = P[i-1] + h[i]
  BY <1>1, <1>3
<1> DEFINE S == {i \in Nat : i <= Len(h) /\ P[i] \notin Int}
<1>5. S = {}
  <2> SUFFICES ASSUME S # {}  PROVE FALSE
    OBVIOUS
  <2>1. PICK m \in S : \A k \in S : m <= k
    BY LeastNat, <1>1
  <2>2. m \in 1 .. Len(h) /\ m - 1 \in Nat /\ m - 1 \notin S
    BY <1>1, <1>4, <2>1
  <2>3. P[m-1] \in Int /\ h[m] \in Int /\ P[m] = P[m-1] + h[m]
    BY <1>1, <1>4, <2>2
  <2>4. P[m] \in Int
    BY <2>3
  <2> QED
    BY <2>1, <2>4
<1> QED
  <2>1. \A i \in 0 .. Len(h) : P[i] \in Int
    BY <1>1, <1>5
  <2> QED
    BY <1>4, <2>1 DEF P

\* Sequences that agree at first have the same first sums.
LEMMA PrefixSumsAgree ==
    ASSUME NEW g \in Seq(Int), NEW h \in Seq(Int), NEW n \in Nat,
           n <= Len(g), n <= Len(h), \A i \in 1 .. n : g[i] = h[i]
    PROVE  \A i \in 0 .. n : PrefixSums(g)[i] = PrefixSums(h)[i]
<1> DEFINE S == {i \in Nat : i <= n /\ PrefixSums(g)[i] # PrefixSums(h)[i]}
<1> SUFFICES ASSUME S # {}  PROVE FALSE
  OBVIOUS
<1>1. PICK m \in S : \A k \in S : m <= k
  BY LeastNat
<1>2. Len(g) \in Nat /\ Len(h) \in Nat
  BY LenProperties
<1>3. m # 0 /\ m - 1 \in 0 .. n /\ m - 1 \notin S
  BY <1>1, PrefixSumsAre
<1>4. PrefixSums(g)[m] = PrefixSums(g)[m-1] + g[m] /\ PrefixSums(h)[m] = PrefixSums(h)[m-1] + h[m]
  BY <1>2, <1>3, PrefixSumsAre
<1> QED
  BY <1>1, <1>3, <1>4

\* After the last element that is not zero the sums stay the same.
LEMMA PrefixSumsStay ==
    ASSUME NEW h \in Seq(Int), NEW n \in 0 .. Len(h),
           \A i \in n + 1 .. Len(h) : h[i] = 0
    PROVE  \A i \in n .. Len(h) : PrefixSums(h)[i] = PrefixSums(h)[n]
<1> DEFINE S == {i \in Nat : n <= i /\ i <= Len(h) /\ PrefixSums(h)[i] # PrefixSums(h)[n]}
<1> SUFFICES ASSUME S # {}  PROVE FALSE
  OBVIOUS
<1>1. Len(h) \in Nat
  BY LenProperties
<1>2. PICK m \in S : \A k \in S : m <= k
  BY LeastNat, <1>1
<1>3. m # n /\ m - 1 \in n .. Len(h) /\ m - 1 \notin S /\ m \in 1 .. Len(h)
  BY <1>1, <1>2
<1>4. PrefixSums(h)[m] = PrefixSums(h)[m-1] + 0
  <2>1. PrefixSums(h)[m] = PrefixSums(h)[m-1] + h[m]
    BY <1>3, PrefixSumsAre
  <2>2. m \in n + 1 .. Len(h)
    BY <1>1, <1>3
  <2> QED
    BY <2>1, <2>2
<1>5. PrefixSums(h)[m-1] \in Int
  BY <1>1, <1>3, PrefixSumsAre
<1> QED
  BY <1>2, <1>3, <1>4, <1>5

\* Sums of elements that a function's growth bounds are bounded by it.
LEMMA PrefixSumsBelow ==
    ASSUME NEW h \in Seq(Int), NEW c \in [0 .. Len(h) -> Int], c[0] = 0,
           \A i \in 1 .. Len(h) : h[i] <= c[i] - c[i-1]
    PROVE  \A i \in 0 .. Len(h) : PrefixSums(h)[i] <= c[i]
<1> DEFINE S == {i \in Nat : i <= Len(h) /\ ~ (PrefixSums(h)[i] <= c[i])}
<1> SUFFICES ASSUME S # {}  PROVE FALSE
  OBVIOUS
<1>1. Len(h) \in Nat
  BY LenProperties
<1>2. PICK m \in S : \A k \in S : m <= k
  BY LeastNat, <1>1
<1>3. m # 0 /\ m - 1 \in 0 .. Len(h) /\ m - 1 \notin S /\ m \in 1 .. Len(h)
  BY <1>1, <1>2, PrefixSumsAre
<1>4. PrefixSums(h)[m] = PrefixSums(h)[m-1] + h[m] /\ PrefixSums(h)[m-1] \in Int /\ h[m] \in Int
  BY <1>1, <1>3, PrefixSumsAre, LenProperties
<1>5. c[m] \in Int /\ c[m-1] \in Int /\ h[m] <= c[m] - c[m-1]
  <2>1. \A i \in 0 .. Len(h) : c[i] \in Int
    OBVIOUS
  <2>2. m \in 0 .. Len(h)
    BY <1>1, <1>3
  <2> HIDE DEF S
  <2> QED
    BY <1>3, <2>1, <2>2
<1>6. PrefixSums(h)[m-1] <= c[m-1] /\ ~ (PrefixSums(h)[m] <= c[m])
  BY <1>1, <1>2, <1>3
<1> HIDE DEF S
<1> QED
  BY <1>4, <1>5, <1>6

----------------------------------------------------------------------------
(* Tables of tiers.                                                        *)

Tables == [1 .. TierCount -> [boundary : Nat, ratio : Nat, precomputed : Int]]

\* A function on the tiers is a sequence.
LEMMA TierSequence ==
    ASSUME NEW f \in [1 .. TierCount -> Int]
    PROVE  f \in Seq(Int) /\ Len(f) = TierCount
BY TierCountAssumption

\* A table's fields, and a tier's lower end, are natural numbers.
LEMMA TableFields ==
    ASSUME NEW tiers \in Tables, NEW i \in 1 .. TierCount
    PROVE  /\ tiers[i] \in [boundary : Nat, ratio : Nat, precomputed : Int]
           /\ tiers[i].boundary \in Nat /\ tiers[i].ratio \in Nat
           /\ Lower(tiers, i) \in Nat
           /\ i > 1 => i - 1 \in 1 .. TierCount /\ Lower(tiers, i) = tiers[i-1].boundary
           /\ Lower(tiers, 1) = 0
BY TierCountAssumption DEF Tables, Lower

\* The boundaries of a table do not fall.
Rising(tiers) == \A i \in 1 .. TierCount : Lower(tiers, i) <= tiers[i].boundary

\* So it is in a table that the circuit accepts.
LEMMA ValidRising ==
    ASSUME NEW tiers, TiersValid(tiers)
    PROVE  Rising(tiers)
BY DEF TiersValid, Rising

\* A boundary is at most every later one.
LEMMA BoundariesRise ==
    ASSUME NEW tiers \in Tables, Rising(tiers),
           NEW i \in 1 .. TierCount, NEW j \in 1 .. TierCount, i <= j
    PROVE  tiers[i].boundary <= tiers[j].boundary
<1> DEFINE S == {k \in Nat : i <= k /\ k <= TierCount /\ ~ (tiers[i].boundary <= tiers[k].boundary)}
<1> SUFFICES ASSUME S # {}  PROVE FALSE
  BY TierCountAssumption
<1>1. PICK m \in S : \A k \in S : m <= k
  BY LeastNat
<1>2. m \in 1 .. TierCount /\ i \in Nat /\ tiers[i].boundary \in Nat
  BY <1>1, TierCountAssumption, TableFields
<1>3. m # i /\ m > 1
  BY <1>1, <1>2
<1>4. m - 1 \in Nat /\ m - 1 \notin S /\ i <= m - 1 /\ m - 1 \in 1 .. TierCount
  BY <1>1, <1>2, <1>3, TierCountAssumption
<1>5. tiers[i].boundary <= tiers[m-1].boundary
  BY <1>2, <1>4
<1>6. tiers[m-1].boundary <= tiers[m].boundary
  BY <1>2, <1>3, TableFields DEF Rising
<1>7. tiers[m].boundary \in Nat /\ tiers[m-1].boundary \in Nat
  BY <1>2, <1>4, TableFields
<1> QED
  BY <1>1, <1>2, <1>5, <1>6, <1>7

\* A part counts for an integer.
LEMMA HaircutInt ==
    ASSUME NEW x \in Int, NEW r \in Nat
    PROVE  Haircut(x, r) \in Int
BY DEF Haircut, PercentageMultiplier

\* The whole tiers of a table, and the parts of a value, are sequences.
LEMMA WholeAndParts ==
    ASSUME NEW tiers \in Tables, NEW value \in Nat
    PROVE  /\ Len(tiers) = TierCount
           /\ WholeTiers(tiers) \in [1 .. TierCount -> Int]
           /\ PartsOf(tiers, value) \in [1 .. TierCount -> Int]
<1>1. Len(tiers) = TierCount
  BY TierCountAssumption DEF Tables
<1>2. ASSUME NEW i \in 1 .. TierCount
      PROVE  Haircut(tiers[i].boundary - Lower(tiers, i), tiers[i].ratio) \in Int
  <2>1. tiers[i].boundary - Lower(tiers, i) \in Int /\ tiers[i].ratio \in Nat
    BY TableFields
  <2> QED
    BY <2>1, HaircutInt
<1>3. ASSUME NEW i \in 1 .. TierCount
      PROVE  (PartWithin(tiers, value, i) * tiers[i].ratio) \div PercentageMultiplier \in Int
  <2>1. PartWithin(tiers, value, i) \in Int /\ tiers[i].ratio \in Nat
    BY TableFields DEF PartWithin, Between
  <2>2. Haircut(PartWithin(tiers, value, i), tiers[i].ratio) \in Int
    BY <2>1, HaircutInt
  <2> QED
    BY <2>2 DEF Haircut
<1> QED
  BY <1>1, <1>2, <1>3 DEF WholeTiers, PartsOf

\* Within a tier the defined value is that of the whole tiers below and of
\* the part above its lower end.
LEMMA DefinedInTier ==
    ASSUME NEW tiers \in Tables, Rising(tiers), NEW value \in Nat,
           NEW i \in 1 .. TierCount, value <= tiers[i].boundary,
           Lower(tiers, i) < value \/ i = 1
    PROVE  DefinedValue(tiers, value) =
               PrecomputedValues(tiers)[i-1] + Haircut(value - Lower(tiers, i), tiers[i].ratio)
<1> DEFINE whole == WholeTiers(tiers)
           parts == PartsOf(tiers, value)
<1>1. /\ whole \in Seq(Int) /\ Len(whole) = TierCount
      /\ parts \in Seq(Int) /\ Len(parts) = TierCount
  BY WholeAndParts, TierSequence
<1>2. i \in Nat /\ i - 1 \in Nat /\ i \in 0 .. TierCount /\ TierCount \in Nat
  BY TierCountAssumption
<1>3. ASSUME NEW j \in 1 .. i - 1  PROVE parts[j] = whole[j]
  <2>1. j \in 1 .. TierCount /\ i - 1 \in 1 .. TierCount /\ j <= i - 1 /\ i > 1
    BY <1>2
  <2>2. tiers[j].boundary <= tiers[i-1].boundary /\ tiers[i-1].boundary = Lower(tiers, i)
    BY <2>1, BoundariesRise, TableFields
  <2>3. Lower(tiers, j) <= tiers[j].boundary
    BY <2>1 DEF Rising
  <2>4. ~ (value <= Lower(tiers, j)) /\ ~ (value <= tiers[j].boundary)
    BY <2>1, <2>2, <2>3, TableFields
  <2>5. PartWithin(tiers, value, j) = tiers[j].boundary - Lower(tiers, j)
    BY <2>4 DEF PartWithin, Between
  <2>6. Len(tiers) = TierCount
    BY WholeAndParts
  <2> QED
    BY <2>1, <2>5, <2>6 DEF PartsOf, WholeTiers, Haircut
<1>4. ASSUME NEW j \in i + 1 .. TierCount  PROVE parts[j] = 0
  <2>1. j \in 1 .. TierCount /\ j - 1 \in 1 .. TierCount /\ i <= j - 1 /\ j > 1
    BY <1>2
  <2>2. tiers[i].boundary <= tiers[j-1].boundary /\ tiers[j-1].boundary = Lower(tiers, j)
    BY <2>1, BoundariesRise, TableFields
  <2>3. value <= Lower(tiers, j)
    BY <2>1, <2>2, TableFields
  <2>4. parts[j] = (0 * tiers[j].ratio) \div PercentageMultiplier /\ tiers[j].ratio \in Nat
    BY <2>1, <2>3, TableFields DEF PartsOf, PartWithin, Between
  <2> QED
    BY <2>4 DEF PercentageMultiplier
<1>5. parts[i] = Haircut(value - Lower(tiers, i), tiers[i].ratio)
  <2>1. CASE Lower(tiers, i) < value
    <3>1. PartWithin(tiers, value, i) = value - Lower(tiers, i)
      BY <2>1, TableFields DEF PartWithin, Between
    <3> QED
      BY <3>1 DEF PartsOf, Haircut
  <2>2. CASE ~ (Lower(tiers, i) < value)
    <3>1. value = 0 /\ Lower(tiers, i) = 0
      BY <2>2, TableFields
    <3>2. PartWithin(tiers, value, i) = value - Lower(tiers, i)
      BY <3>1 DEF PartWithin, Between
    <3> QED
      BY <3>2 DEF PartsOf, Haircut
  <2> QED
    BY <2>1, <2>2
<1> HIDE DEF whole, parts
<1>6. PrefixSums(parts)[i-1] = PrefixSums(whole)[i-1]
  <2>1. i - 1 <= Len(parts) /\ i - 1 <= Len(whole) /\ i - 1 \in 0 .. i - 1
    BY <1>1, <1>2
  <2> QED
    BY <1>1, <1>2, <1>3, <2>1, PrefixSumsAgree
<1>7. PrefixSums(parts)[i] = PrefixSums(parts)[i-1] + parts[i]
  BY <1>1, PrefixSumsAre
<1>8. PrefixSums(parts)[TierCount] = PrefixSums(parts)[i]
  <2>1. i \in 0 .. Len(parts) /\ TierCount \in i .. Len(parts)
    BY <1>1, <1>2
  <2>2. \A j \in i + 1 .. Len(parts) : parts[j] = 0
    BY <1>1, <1>4
  <2>3. \A k \in i .. Len(parts) : PrefixSums(parts)[k] = PrefixSums(parts)[i]
    BY <1>1, <2>1, <2>2, PrefixSumsStay
  <2> QED
    BY <2>1, <2>3
<1> QED
  BY <1>5, <1>6, <1>7, <1>8 DEF DefinedValue, PrecomputedValues, whole, parts

\* Above the last boundary the defined value is that of all whole tiers.
LEMMA DefinedBeyond ==
    ASSUME NEW tiers \in Tables, Rising(tiers), NEW value \in Nat,
           tiers[TierCount].boundary < value
    PROVE  DefinedValue(tiers, value) = PrecomputedValues(tiers)[TierCount]
<1> DEFINE whole == WholeTiers(tiers)
           parts == PartsOf(tiers, value)
<1>1. /\ whole \in Seq(Int) /\ Len(whole) = TierCount
      /\ parts \in Seq(Int) /\ Len(parts) = TierCount
  BY WholeAndParts, TierSequence
<1>2. TierCount \in Nat /\ TierCount \in 1 .. TierCount
  BY TierCountAssumption
<1>3. ASSUME NEW j \in 1 .. TierCount  PROVE parts[j] = whole[j]
  <2>1. tiers[j].boundary <= tiers[TierCount].boundary
    BY <1>2, BoundariesRise
  <2>2. Lower(tiers, j) <= tiers[j].boundary
    BY DEF Rising
  <2>3. ~ (value <= Lower(tiers, j)) /\ ~ (value <= tiers[j].boundary)
    BY <1>2, <2>1, <2>2, TableFields
  <2>4. PartWithin(tiers, value, j) = tiers[j].boundary - Lower(tiers, j)
    BY <2>3 DEF PartWithin, Between
  <2>5. Len(tiers) = TierCount
    BY WholeAndParts
  <2> QED
    BY <2>4, <2>5 DEF PartsOf, WholeTiers, Haircut
<1> HIDE DEF whole, parts
<1>4. PrefixSums(parts)[TierCount] = PrefixSums(whole)[TierCount]
  BY <1>1, <1>2, <1>3, PrefixSumsAgree
<1> QED
  BY <1>4 DEF DefinedValue, PrecomputedValues, whole, parts

----------------------------------------------------------------------------
(* The circuit.                                                            *)

\* The circuit's table has the boundaries and ratios it was given, and the
\* sums over its whole tiers.
LEMMA CircuitFields ==
    ASSUME NEW tiers \in Tables, NEW i \in 1 .. TierCount
    PROVE  /\ CircuitTiers(tiers)[i].boundary = tiers[i].boundary
           /\ CircuitTiers(tiers)[i].ratio = tiers[i].ratio
           /\ CircuitTiers(tiers)[i].precomputed = PrecomputedValues(tiers)[i]
           /\ Lower(CircuitTiers(tiers), i) = Lower(tiers, i)
           /\ Below(CircuitTiers(tiers), i) = PrecomputedValues(tiers)[i-1]
<1>1. ASSUME NEW j \in 1 .. TierCount
      PROVE  /\ CircuitTiers(tiers)[j].boundary = tiers[j].boundary
             /\ CircuitTiers(tiers)[j].ratio = tiers[j].ratio
             /\ CircuitTiers(tiers)[j].precomputed = PrecomputedValues(tiers)[j]
  BY DEF CircuitTiers, Tables
<1>2. PrecomputedValues(tiers)[0] = 0
  BY WholeAndParts, TierSequence, PrefixSumsAre DEF PrecomputedValues
<1>3. i > 1 => i - 1 \in 1 .. TierCount
  BY TableFields
<1> QED
  BY <1>1, <1>2, <1>3 DEF Lower, Below

\* The circuit can be made to accept no tier and flag for a value, honest or
\* not, but those that give the value that the tiers define.
THEOREM AcceptedIsDefined ==
    ASSUME NEW tiers \in Tables, TiersValid(tiers), NEW value \in Nat, NEW choice,
           ChoiceValid(CircuitTiers(tiers), value, choice)
    PROVE  ChoiceValue(CircuitTiers(tiers), value, choice) = DefinedValue(tiers, value)
<1> DEFINE i == choice.index + 1
<1>1. i \in 1 .. TierCount /\ choice.index \in Nat
  BY TierCountAssumption DEF ChoiceValid
<1>2. CASE choice.flag = 1
  <2>1. i = TierCount /\ tiers[TierCount].boundary < value
    BY <1>1, <1>2, CircuitFields, TierCountAssumption DEF ChoiceValid
  <2>2. DefinedValue(tiers, value) = PrecomputedValues(tiers)[i]
    BY <2>1, DefinedBeyond, ValidRising
  <2> QED
    BY <1>1, <1>2, <2>2, CircuitFields DEF ChoiceValue
<1>3. CASE choice.flag # 1
  <2>1. value <= tiers[i].boundary /\ (value # 0 => Lower(tiers, i) < value)
    BY <1>1, <1>3, CircuitFields DEF ChoiceValid
  <2>2. value = 0 => i = 1
    BY <1>1 DEF ChoiceValid
  <2>3. DefinedValue(tiers, value) =
            PrecomputedValues(tiers)[i-1] + Haircut(value - Lower(tiers, i), tiers[i].ratio)
    BY <1>1, <2>1, <2>2, DefinedInTier, ValidRising
  <2> QED
    BY <1>1, <1>3, <2>3, CircuitFields DEF ChoiceValue
<1> QED
  BY <1>2, <1>3

----------------------------------------------------------------------------
(* The host.                                                               *)

\* The first tier whose boundary a value does not exceed.
LEMMA FirstTierIs ==
    ASSUME NEW tiers \in Tables, NEW value \in Nat, TiersFor(tiers, value) # {}
    PROVE  LET i == FirstTier(tiers, value) IN
           /\ i \in 1 .. TierCount /\ value <= tiers[i].boundary
           /\ Lower(tiers, i) < value \/ i = 1
<1> DEFINE T == TiersFor(tiers, value)
           first == FirstTier(tiers, value)
<1>1. T \subseteq Nat
  BY DEF TiersFor
<1>2. \E i \in T : \A j \in T : i <= j
  BY <1>1, LeastNat
<1>3. first \in T /\ \A j \in T : first <= j
  BY <1>2 DEF FirstTier
<1>4. first \in 1 .. TierCount /\ value <= tiers[first].boundary
  BY <1>3 DEF TiersFor
<1>5. ASSUME first # 1  PROVE Lower(tiers, first) < value
  <2>1. first - 1 \in 1 .. TierCount /\ Lower(tiers, first) = tiers[first-1].boundary
    BY <1>4, <1>5, TableFields
  <2>2. first - 1 \notin T
    BY <1>3, <1>4
  <2>3. ~ (value <= tiers[first-1].boundary)
    BY <2>1, <2>2 DEF TiersFor
  <2> QED
    BY <2>1, <2>3, TableFields
<1> QED
  BY <1>4, <1>5

\* Where the host's precomputed values are the circuit's, the host values
\* every collateral as the tiers define it, whatever the ratios are.
THEOREM HostIsDefined ==
    ASSUME NEW tiers \in Tables, Rising(tiers), tiers = CircuitTiers(tiers),
           NEW value \in Nat
    PROVE  HostValue(tiers, value) = DefinedValue(tiers, value)
<1>1. CASE TiersFor(tiers, value) = {}
  <2>1. TierCount \in 1 .. TierCount
    BY TierCountAssumption
  <2>2. tiers[TierCount].boundary < value
    BY <1>1, <2>1, TableFields DEF TiersFor
  <2>3. tiers[TierCount].precomputed = PrecomputedValues(tiers)[TierCount]
    BY <2>1, CircuitFields
  <2> QED
    BY <1>1, <2>2, <2>3, DefinedBeyond DEF HostValue
<1>2. CASE TiersFor(tiers, value) # {}
  <2> DEFINE i == FirstTier(tiers, value)
  <2>1. /\ i \in 1 .. TierCount /\ value <= tiers[i].boundary
        /\ Lower(tiers, i) < value \/ i = 1
    BY <1>2, FirstTierIs
  <2>2. HostValue(tiers, value) = Below(tiers, i) + Haircut(value - Lower(tiers, i), tiers[i].ratio)
    BY <1>2 DEF HostValue
  <2> HIDE DEF i
  <2>3. Below(tiers, i) = PrecomputedValues(tiers)[i-1]
    BY <2>1, CircuitFields
  <2> QED
    BY <2>1, <2>2, <2>3, DefinedInTier
<1> QED
  BY <1>1, <1>2

\* The tier and flag that the prover fills in are accepted, for every value
\* up to the greatest boundary.
THEOREM HostTierAccepted ==
    ASSUME NEW tiers \in Tables, TiersValid(tiers), NEW value \in Nat,
           value <= MaxTierBoundaryValue
    PROVE  ChoiceValid(CircuitTiers(tiers), value, HostTier(tiers, value))
<1>1. CASE TiersFor(tiers, value) = {}
  <2>1. TierCount \in 1 .. TierCount /\ TierCount \in Nat
    BY TierCountAssumption
  <2>2. tiers[TierCount].boundary < value
    BY <1>1, <2>1, TableFields DEF TiersFor
  <2>3. Lower(tiers, TierCount) <= tiers[TierCount].boundary
    BY <2>1 DEF TiersValid
  <2>4. value # 0 /\ Lower(tiers, TierCount) < value
    BY <2>1, <2>2, <2>3, TableFields
  <2>5. HostTier(tiers, value) = [index |-> TierCount - 1, flag |-> 1]
    BY <1>1 DEF HostTier
  <2>6. (TierCount - 1) + 1 = TierCount /\ TierCount - 1 \in 0 .. TierCount - 1
    BY <2>1
  <2> QED
    BY <2>1, <2>2, <2>4, <2>5, <2>6, CircuitFields DEF ChoiceValid
<1>2. CASE TiersFor(tiers, value) # {}
  <2> DEFINE i == FirstTier(tiers, value)
  <2>1. /\ i \in 1 .. TierCount /\ value <= tiers[i].boundary
        /\ Lower(tiers, i) < value \/ i = 1
    BY <1>2, FirstTierIs
  <2>2. HostTier(tiers, value) = [index |-> i - 1, flag |-> 0]
    BY <1>2 DEF HostTier
  <2> HIDE DEF i
  <2>3. (i - 1) + 1 = i /\ i - 1 \in 0 .. TierCount - 1
    BY <2>1, TierCountAssumption
  <2>4. value = 0 => i = 1
    BY <2>1, TableFields
  <2>5. value # 0 => Lower(tiers, i) < value
    BY <2>1, TableFields
  <2> QED
    BY <2>1, <2>2, <2>3, <2>4, <2>5, CircuitFields DEF ChoiceValid
<1> QED
  BY <1>1, <1>2

----------------------------------------------------------------------------
(* A value is never worth more than itself.                                *)

\* Neither is a part of it.
LEMMA HaircutBelow ==
    ASSUME NEW x \in Nat, NEW r \in Nat, r <= PercentageMultiplier
    PROVE  Haircut(x, r) <= x
<1>1. x * r <= x * 100
  BY DEF PercentageMultiplier
<1>2. x * r \in Nat
  OBVIOUS
<1>3. \A y \in Nat : y <= x * 100 => y \div 100 <= x
  OBVIOUS
<1> QED
  BY <1>1, <1>2, <1>3 DEF Haircut, PercentageMultiplier

\* For a table that the circuit accepts the defined value of a collateral is
\* at most the collateral.
THEOREM DefinedAtMostValue ==
    ASSUME NEW tiers \in Tables, TiersValid(tiers), NEW value \in Nat
    PROVE  DefinedValue(tiers, value) <= value
<1> DEFINE parts == PartsOf(tiers, value)
           cap == [i \in 0 .. TierCount |->
                      IF i = 0 THEN 0
                      ELSE IF value <= tiers[i].boundary THEN value ELSE tiers[i].boundary]
<1>1. parts \in Seq(Int) /\ Len(parts) = TierCount /\ TierCount \in Nat \ {0}
  BY WholeAndParts, TierSequence, TierCountAssumption
<1>2. cap \in [0 .. TierCount -> Int] /\ cap[0] = 0 /\ cap[TierCount] <= value
  <2>1. ASSUME NEW i \in 0 .. TierCount  PROVE cap[i] \in Int
    BY TableFields, <1>1
  <2> QED
    BY <2>1, <1>1
<1>3. ASSUME NEW i \in 1 .. TierCount  PROVE parts[i] <= cap[i] - cap[i-1]
  <2>1. Lower(tiers, i) <= tiers[i].boundary /\ tiers[i].ratio <= PercentageMultiplier
    BY DEF TiersValid
  <2>2. cap[i-1] = IF value <= Lower(tiers, i) THEN value ELSE Lower(tiers, i)
    <3>1. CASE i = 1
      <4>1. cap[i-1] = 0 /\ Lower(tiers, i) = 0
        BY <3>1, <1>2, TableFields
      <4> QED
        BY <4>1
    <3>2. CASE i # 1
      BY <1>1, <3>2, TableFields
    <3> QED
      BY <3>1, <3>2
  <2>3. cap[i] = IF value <= tiers[i].boundary THEN value ELSE tiers[i].boundary
    BY <1>1
  <2>4. PartWithin(tiers, value, i) = cap[i] - cap[i-1] /\ PartWithin(tiers, value, i) \in Nat
    <3> HIDE DEF cap
    <3> QED
      BY <2>1, <2>2, <2>3, TableFields DEF PartWithin, Between
  <2>5. parts[i] = Haircut(PartWithin(tiers, value, i), tiers[i].ratio)
    BY DEF PartsOf, Haircut
  <2> HIDE DEF cap, parts
  <2> QED
    BY <2>1, <2>4, <2>5, TableFields, HaircutBelow
<1> HIDE DEF parts, cap
<1>4. PrefixSums(parts)[TierCount] <= cap[TierCount]
  <2>1. cap \in [0 .. Len(parts) -> Int] /\ TierCount \in 0 .. Len(parts)
    BY <1>1, <1>2
  <2>2. \A i \in 1 .. Len(parts) : parts[i] <= cap[i] - cap[i-1]
    BY <1>1, <1>3
  <2> QED
    BY <1>1, <1>2, <2>1, <2>2, PrefixSumsBelow
<1>5. PrefixSums(parts)[TierCount] \in Int
  BY <1>1, PrefixSumsAre
<1>6. cap[TierCount] \in Int
  BY <1>1, <1>2
<1> QED
  BY <1>2, <1>4, <1>5, <1>6 DEF DefinedValue, parts

----------------------------------------------------------------------------
(* Tables that are parsed.                                                 *)

\* Tiers before they are padded: a sequence of boundaries and ratios.
LEMMA RawFields ==
    ASSUME NEW n \in Nat, NEW raw \in [1 .. n -> [boundary : Nat, ratio : Nat]]
    PROVE  /\ Len(raw) = n
           /\ WholeTiers(raw) \in Seq(Int) /\ Len(WholeTiers(raw)) = n
           /\ \A i \in 1 .. n : raw[i].boundary \in Nat /\ raw[i].ratio \in Nat
           /\ \A i \in 0 .. n : PrecomputedValues(raw)[i] \in Int
<1>1. Len(raw) = n
  OBVIOUS
<1>2. \A i \in 1 .. n : raw[i].boundary \in Nat /\ raw[i].ratio \in Nat
  OBVIOUS
<1>3. ASSUME NEW i \in 1 .. n
      PROVE  Haircut(raw[i].boundary - Lower(raw, i), raw[i].ratio) \in Int
  <2>1. i > 1 => i - 1 \in 1 .. n
    OBVIOUS
  <2>2. Lower(raw, i) \in Nat
    BY <1>2, <2>1 DEF Lower
  <2>3. raw[i].boundary - Lower(raw, i) \in Int
    BY <1>2, <2>2
  <2> QED
    BY <1>2, <2>3, HaircutInt
<1>4. WholeTiers(raw) \in [1 .. n -> Int]
  BY <1>1, <1>3 DEF WholeTiers
<1>5. WholeTiers(raw) \in Seq(Int) /\ Len(WholeTiers(raw)) = n
  BY <1>4
<1>6. \A i \in 0 .. n : PrecomputedValues(raw)[i] \in Int
  BY <1>5, PrefixSumsAre DEF PrecomputedValues
<1> QED
  BY <1>1, <1>2, <1>5, <1>6

\* The fields of the padded table.
LEMMA PaddedFields ==
    ASSUME NEW n \in 0 .. TierCount, NEW raw \in [1 .. n -> [boundary : Nat, ratio : Nat]],
           NEW i \in 1 .. TierCount
    PROVE  LET tier == PaddingTierRatios(raw)[i] IN
           /\ tier \in [boundary : Nat, ratio : Nat, precomputed : Int]
           /\ i <= n => /\ tier.boundary = raw[i].boundary /\ tier.ratio = raw[i].ratio
                        /\ tier.precomputed = PrecomputedValues(raw)[i]
           /\ i > n => tier.ratio = 0 /\ tier.precomputed = PrecomputedValues(raw)[n]
<1>1. n \in Nat /\ n <= TierCount /\ TierCount \in Nat
  BY TierCountAssumption
<1>2. Len(raw) = n
  BY <1>1, RawFields
<1>3. CASE i <= n
  <2>1. i \in 1 .. n /\ i \in 0 .. n
    BY <1>1, <1>3
  <2>2. /\ raw[i].boundary \in Nat /\ raw[i].ratio \in Nat
        /\ PrecomputedValues(raw)[i] \in Int
    BY <1>1, <2>1, RawFields
  <2>3. PaddingTierRatios(raw)[i] =
            [boundary |-> raw[i].boundary, ratio |-> raw[i].ratio,
             precomputed |-> PrecomputedValues(raw)[i]]
    BY <1>2, <1>3 DEF PaddingTierRatios
  <2> QED
    BY <1>1, <1>3, <2>2, <2>3
<1>4. CASE i > n
  <2>1. PrecomputedValues(raw)[n] \in Int
    BY <1>1, RawFields
  <2>2. PaddingTierRatios(raw)[i] =
            [boundary |-> MaxTierBoundaryValue, ratio |-> 0,
             precomputed |-> PrecomputedValues(raw)[n]]
    BY <1>1, <1>2, <1>4 DEF PaddingTierRatios
  <2> QED
    BY <1>1, <1>4, <2>1, <2>2, BoundaryAssumption
<1> QED
  BY <1>1, <1>3, <1>4

\* The padding, whose ratio is zero, adds nothing to the sums: the circuit,
\* which computes them over the whole table, comes to the host's.
LEMMA PaddedIsCircuit ==
    ASSUME NEW n \in 0 .. TierCount, NEW raw \in [1 .. n -> [boundary : Nat, ratio : Nat]]
    PROVE  /\ PaddingTierRatios(raw) \in Tables
           /\ PaddingTierRatios(raw) = CircuitTiers(PaddingTierRatios(raw))
<1> DEFINE tiers == PaddingTierRatios(raw)
           part == WholeTiers(raw)
           whole == WholeTiers(tiers)
<1>1. n \in Nat /\ n <= TierCount /\ TierCount \in Nat
  BY TierCountAssumption
<1>2. tiers = [i \in 1 .. TierCount |-> tiers[i]]
  BY DEF PaddingTierRatios
<1>3. \A i \in 1 .. TierCount : tiers[i] \in [boundary : Nat, ratio : Nat, precomputed : Int]
  BY PaddedFields
<1>4. tiers \in Tables
  <2> HIDE DEF tiers
  <2> QED
    BY <1>2, <1>3 DEF Tables
<1>5. part \in Seq(Int) /\ Len(part) = n /\ Len(raw) = n
  BY <1>1, RawFields
<1>6. whole \in Seq(Int) /\ Len(whole) = TierCount /\ Len(tiers) = TierCount
  BY <1>4, WholeAndParts, TierSequence
<1>6a. \A j \in 1 .. TierCount :
          j <= n => tiers[j].boundary = raw[j].boundary /\ tiers[j].ratio = raw[j].ratio
  BY PaddedFields
<1>7. ASSUME NEW i \in 1 .. n  PROVE whole[i] = part[i]
  <2>1. i \in 1 .. TierCount /\ i <= n /\ (i > 1 => i - 1 \in 1 .. TierCount /\ i - 1 <= n)
    BY <1>1
  <2> HIDE DEF tiers
  <2>2. tiers[i].boundary = raw[i].boundary /\ tiers[i].ratio = raw[i].ratio
    BY <2>1, <1>6a
  <2>3. i > 1 => tiers[i-1].boundary = raw[i-1].boundary
    BY <2>1, <1>6a
  <2>4. Lower(tiers, i) = Lower(raw, i)
    BY <2>1, <2>3 DEF Lower
  <2> QED
    BY <1>5, <1>6, <2>1, <2>2, <2>4 DEF WholeTiers
<1>8. ASSUME NEW i \in n + 1 .. TierCount  PROVE whole[i] = 0
  <2>1. i \in 1 .. TierCount /\ i > n
    BY <1>1
  <2>2. tiers[i].ratio = 0
    BY <2>1, PaddedFields
  <2>3. tiers[i].boundary - Lower(tiers, i) \in Int
    BY <1>4, <2>1, TableFields
  <2>4. \A x \in Int : Haircut(x, 0) = 0
    BY DEF Haircut, PercentageMultiplier
  <2> HIDE DEF tiers
  <2> QED
    BY <1>6, <2>1, <2>2, <2>3, <2>4 DEF WholeTiers
<1> HIDE DEF part, whole
<1>9. \A i \in 0 .. n : PrefixSums(whole)[i] = PrefixSums(part)[i]
  <2>1. n <= Len(whole) /\ n <= Len(part)
    BY <1>1, <1>5, <1>6
  <2> QED
    BY <1>1, <1>5, <1>6, <1>7, <2>1, PrefixSumsAgree
<1>10. \A i \in n .. TierCount : PrefixSums(whole)[i] = PrefixSums(whole)[n]
  BY <1>1, <1>6, <1>8, PrefixSumsStay
<1>11. ASSUME NEW i \in 1 .. TierCount
       PROVE  tiers[i].precomputed = PrecomputedValues(tiers)[i]
  <2>1. PrecomputedValues(tiers) = PrefixSums(whole) /\ PrecomputedValues(raw) = PrefixSums(part)
    BY DEF PrecomputedValues, whole, part
  <2>2. CASE i <= n
    <3>1. tiers[i].precomputed = PrefixSums(part)[i]
      BY <2>1, <2>2, PaddedFields
    <3>2. i \in 0 .. n
      BY <2>2
    <3> QED
      BY <1>9, <2>1, <3>1, <3>2
  <2>3. CASE i > n
    <3>1. tiers[i].precomputed = PrefixSums(part)[n]
      BY <2>1, <2>3, PaddedFields
    <3>2. i \in n .. TierCount /\ n \in 0 .. n
      BY <1>1, <2>3
    <3> QED
      BY <1>9, <1>10, <2>1, <3>1, <3>2
  <2> QED
    BY <1>1, <2>2, <2>3
<1> HIDE DEF tiers
<1>12. ASSUME NEW i \in 1 .. TierCount
       PROVE  tiers[i] = [tiers[i] EXCEPT !.precomputed = PrecomputedValues(tiers)[i]]
  BY <1>3, <1>11
<1>13. tiers = CircuitTiers(tiers)
  BY <1>2, <1>12, Zenon DEF CircuitTiers
<1> QED
  BY <1>4, <1>13 DEF tiers

\* Every string that parses and fits becomes a table in which the circuit
\* finds the precomputed values that it computes itself.
THEOREM ParsedIsCircuit ==
    ASSUME NEW enc \in TierStrings, ~TooManyTiers(enc)
    PROVE  /\ ParseTiersRatio(enc) \in Tables
           /\ ParseTiersRatio(enc) = CircuitTiers(ParseTiersRatio(enc))
<1> DEFINE n == Len(enc)
           raw == [i \in 1 .. n |->
                      [boundary |-> enc[i].high * ValueMultiplier, ratio |-> enc[i].ratio % RatioValues]]
<1>1. n \in 0 .. TierCount
  BY TierCountAssumption, LenProperties DEF TooManyTiers, TierStrings
<1>2. ASSUME NEW i \in 1 .. n
      PROVE  enc[i].high * ValueMultiplier \in Nat /\ enc[i].ratio % RatioValues \in Nat
  <2>1. enc[i] \in [low : Nat, high : Nat, ratio : Nat]
    BY ElementOfSeq DEF TierStrings
  <2>2. \A x \in Nat : x * ValueMultiplier \in Nat /\ x % RatioValues \in Nat
    BY MultiplierAssumption DEF RatioValues
  <2> QED
    BY <2>1, <2>2
<1>3. raw \in [1 .. n -> [boundary : Nat, ratio : Nat]]
  BY <1>2
<1>4. ParseTiersRatio(enc) = PaddingTierRatios(raw)
  BY DEF ParseTiersRatio
<1> HIDE DEF n, raw
<1> QED
  BY <1>1, <1>3, <1>4, PaddedIsCircuit

\* A string that is consistent becomes a table in which the host values every
\* collateral as the string says, ratios above 100 included.
THEOREM ParsedAsConfigured ==
    ASSUME NEW enc \in TierStrings, ~TooManyTiers(enc), TiersParse(enc), Consistent(enc),
           NEW value \in Nat
    PROVE  HostValue(ParseTiersRatio(enc), value) = ConfiguredValue(enc, value)
<1> DEFINE n == Len(enc)
           tiers == ParseTiersRatio(enc)
           parts == PartsOf(tiers, value)
           said == ConfiguredParts(enc, value)
<1>1. n \in Nat /\ n <= TierCount /\ TierCount \in Nat /\ n \in 0 .. TierCount
  BY TierCountAssumption, LenProperties DEF TooManyTiers, TierStrings
<1>2. tiers \in Tables /\ tiers = CircuitTiers(tiers)
  BY ParsedIsCircuit
<1>3. \A i \in 1 .. n : enc[i].low \in Nat /\ enc[i].high \in Nat /\ enc[i].ratio \in Nat
  <2>1. \A i \in 1 .. n : enc[i] \in [low : Nat, high : Nat, ratio : Nat]
    BY ElementOfSeq DEF TierStrings
  <2> QED
    BY <2>1
<1>4. ASSUME NEW i \in 1 .. n
      PROVE  tiers[i].boundary = enc[i].high * ValueMultiplier /\ tiers[i].ratio = enc[i].ratio
  <2>1. tiers[i].boundary = enc[i].high * ValueMultiplier /\ tiers[i].ratio = enc[i].ratio % RatioValues
    BY <1>1 DEF ParseTiersRatio, PaddingTierRatios
  <2>2. enc[i].ratio \in 0 .. RatioValues - 1
    BY <1>3 DEF Consistent, RatioValues
  <2>3. enc[i].ratio % RatioValues = enc[i].ratio
    BY <2>2 DEF RatioValues
  <2> QED
    BY <2>1, <2>3
<1>5. ASSUME NEW i \in n + 1 .. TierCount
      PROVE  tiers[i].boundary = MaxTierBoundaryValue /\ tiers[i].ratio = 0
  BY <1>1 DEF ParseTiersRatio, PaddingTierRatios
<1> HIDE DEF tiers
<1>6. ASSUME NEW i \in 1 .. n  PROVE Lower(tiers, i) = enc[i].low * ValueMultiplier
  <2>1. CASE i = 1
    BY <2>1, MultiplierAssumption DEF Lower, Consistent
  <2>2. CASE i # 1
    <3>1. i - 1 \in 1 .. n
      BY <1>1, <2>2
    <3>2. Lower(tiers, i) = enc[i-1].high * ValueMultiplier
      BY <1>4, <2>2, <3>1 DEF Lower
    <3> QED
      BY <2>2, <3>2 DEF Consistent
  <2> QED
    BY <2>1, <2>2
<1>7. Rising(tiers)
  <2> SUFFICES ASSUME NEW i \in 1 .. TierCount  PROVE Lower(tiers, i) <= tiers[i].boundary
    BY DEF Rising
  <2>1. CASE i <= n
    <3>1. i \in 1 .. n
      BY <1>1, <2>1
    <3>2. enc[i].low <= enc[i].high
      BY <3>1 DEF TiersParse
    <3>3. \A k, m \in Nat : k <= m => k * ValueMultiplier <= m * ValueMultiplier
      BY MultiplierAssumption
    <3> QED
      BY <1>3, <1>4, <1>6, <3>1, <3>2, <3>3
  <2>2. CASE ~ (i <= n)
    <3>1. i \in n + 1 .. TierCount /\ tiers[i].boundary = MaxTierBoundaryValue
      BY <1>1, <1>5, <2>2
    <3>2. CASE i = 1
      BY <3>1, <3>2, BoundaryAssumption DEF Lower
    <3>3. CASE i # 1 /\ i - 1 <= n
      <4>1. i - 1 \in 1 .. n
        BY <1>1, <2>2, <3>3
      <4>2. Lower(tiers, i) = enc[i-1].high * ValueMultiplier
        BY <1>4, <3>3, <4>1 DEF Lower
      <4> QED
        BY <3>1, <4>1, <4>2 DEF TiersParse
    <3>4. CASE i # 1 /\ ~ (i - 1 <= n)
      <4>1. i - 1 \in n + 1 .. TierCount
        BY <1>1, <3>4
      <4>2. Lower(tiers, i) = MaxTierBoundaryValue
        BY <1>5, <3>4, <4>1 DEF Lower
      <4> QED
        BY <3>1, <4>2, BoundaryAssumption
    <3> QED
      BY <3>2, <3>3, <3>4
  <2> QED
    BY <2>1, <2>2
<1>8. parts \in Seq(Int) /\ Len(parts) = TierCount
  BY <1>2, WholeAndParts, TierSequence
<1>9. ASSUME NEW i \in 1 .. n
      PROVE  said[i] = parts[i] /\ said[i] \in Int
  <2>1. i \in 1 .. TierCount
    BY <1>1
  <2>2. said[i] = Haircut(Between(Lower(tiers, i), tiers[i].boundary, value), tiers[i].ratio)
    BY <1>4, <1>6 DEF ConfiguredParts
  <2>3. parts[i] = Haircut(Between(Lower(tiers, i), tiers[i].boundary, value), tiers[i].ratio)
    BY <2>1 DEF PartsOf, PartWithin, Haircut
  <2>4. parts[i] \in Int
    BY <1>2, <2>1, WholeAndParts
  <2> QED
    BY <2>2, <2>3, <2>4
<1>10. said \in Seq(Int) /\ Len(said) = n
  <2>1. said = [i \in 1 .. n |-> said[i]]
    BY DEF ConfiguredParts
  <2> HIDE DEF said
  <2> QED
    BY <1>1, <1>9, <2>1
<1>11. ASSUME NEW i \in n + 1 .. TierCount  PROVE parts[i] = 0
  <2>1. i \in 1 .. TierCount /\ tiers[i].ratio = 0
    BY <1>1, <1>5
  <2>2. PartWithin(tiers, value, i) \in Int
    BY <1>2, <2>1, TableFields DEF PartWithin, Between
  <2>3. parts[i] = (PartWithin(tiers, value, i) * 0) \div PercentageMultiplier
    BY <2>1 DEF PartsOf
  <2> QED
    BY <2>2, <2>3 DEF PercentageMultiplier
<1> HIDE DEF parts, said
<1>12. PrefixSums(parts)[TierCount] = PrefixSums(parts)[n]
  <2>1. TierCount \in n .. Len(parts) /\ n \in 0 .. Len(parts)
    BY <1>1, <1>8
  <2>2. \A i \in n + 1 .. Len(parts) : parts[i] = 0
    BY <1>8, <1>11
  <2>3. \A i \in n .. Len(parts) : PrefixSums(parts)[i] = PrefixSums(parts)[n]
    BY <1>8, <2>1, <2>2, PrefixSumsStay
  <2> QED
    BY <2>1, <2>3
<1>13. PrefixSums(said)[n] = PrefixSums(parts)[n]
  <2>1. n <= Len(said) /\ n <= Len(parts) /\ n \in 0 .. n
    BY <1>1, <1>8, <1>10
  <2> QED
    BY <1>1, <1>8, <1>9, <1>10, <2>1, PrefixSumsAgree
<1>14. HostValue(tiers, value) = DefinedValue(tiers, value)
  BY <1>2, <1>7, HostIsDefined
<1> QED
  BY <1>12, <1>13, <1>14 DEF DefinedValue, ConfiguredValue, parts, said, tiers

----------------------------------------------------------------------------
(* Commitments.                                                            *)

\* As long as the boundary of the first of two tiers is below the greatest
\* boundary, the field element that packs them determines both tiers.  Where
\* it is the greatest boundary this fails, see CommitmentFixesTiers.
THEOREM PackedIsUnique ==
    ASSUME NEW s \in [boundary : Nat, ratio : 0 .. RatioValues - 1],
           NEW t \in [boundary : Nat, ratio : 0 .. RatioValues - 1],
           NEW p \in [boundary : Nat, ratio : 0 .. RatioValues - 1],
           NEW q \in [boundary : Nat, ratio : 0 .. RatioValues - 1],
           s.boundary < MaxTierBoundaryValue, p.boundary < MaxTierBoundaryValue,
           PackTwo(s, t) = PackTwo(p, q)
    PROVE  s = p /\ t = q
<1> DEFINE Pack(z) == z.ratio + z.boundary * RatioValues
           base == RatioValues * MaxTierBoundaryValue
<1>1. RatioValues = 256 /\ RatioValues \in Nat /\ MaxTierBoundaryValue \in Nat /\ base \in Nat
  BY BoundaryAssumption DEF RatioValues
<1>2. ASSUME NEW z \in [boundary : Nat, ratio : 0 .. RatioValues - 1]
      PROVE  Pack(z) \in Nat
  BY <1>1
<1>3. ASSUME NEW z \in [boundary : Nat, ratio : 0 .. RatioValues - 1],
             z.boundary < MaxTierBoundaryValue
      PROVE  Pack(z) \in 0 .. base - 1
  <2>1. z.boundary + 1 <= MaxTierBoundaryValue /\ z.boundary \in Nat
    BY <1>1, <1>3
  <2>2. (z.boundary + 1) * 256 <= MaxTierBoundaryValue * 256
    BY <1>1, <2>1
  <2>3. Pack(z) <= base - 1
    BY <1>1, <2>1, <2>2
  <2> QED
    BY <1>1, <1>2, <2>3
<1>4. ASSUME NEW z \in [boundary : Nat, ratio : 0 .. RatioValues - 1],
             NEW w \in [boundary : Nat, ratio : 0 .. RatioValues - 1], Pack(z) = Pack(w)
      PROVE  z = w
  <2>1. /\ z.ratio \in 0 .. 255 /\ z.boundary \in Nat
        /\ w.ratio \in 0 .. 255 /\ w.boundary \in Nat
    BY <1>1
  <2>2. z.ratio + z.boundary * 256 = w.ratio + w.boundary * 256
    BY <1>1, <1>4
  <2>3. z.ratio = w.ratio /\ z.boundary = w.boundary
    BY <2>1, <2>2
  <2> QED
    BY <2>3
<1>5. Pack(s) + Pack(t) * base = Pack(p) + Pack(q) * base
  <2>1. \A x \in Nat : x * RatioValues * MaxTierBoundaryValue = x * base
    BY <1>1
  <2>2. PackTwo(s, t) = Pack(s) + Pack(t) * RatioValues * MaxTierBoundaryValue
    BY DEF PackTwo
  <2>3. PackTwo(p, q) = Pack(p) + Pack(q) * RatioValues * MaxTierBoundaryValue
    BY DEF PackTwo
  <2>4. Pack(t) \in Nat /\ Pack(q) \in Nat
    BY <1>2
  <2> HIDE DEF Pack, base
  <2> QED
    BY <2>1, <2>2, <2>3, <2>4
<1>6. Pack(s) \in 0 .. base - 1 /\ Pack(p) \in 0 .. base - 1 /\ Pack(t) \in Nat /\ Pack(q) \in Nat
  BY <1>2, <1>3
<1>7. Pack(s) = Pack(p) /\ Pack(t) = Pack(q)
  <2> HIDE DEF Pack, base
  <2>1. \A x, u \in 0 .. base - 1 : \A y, v \in Nat :
            x + y * base = u + v * base => x = u /\ y = v
    <3> SUFFICES ASSUME NEW x \in 0 .. base - 1, NEW u \in 0 .. base - 1,
                        NEW y \in Nat, NEW v \in Nat, x + y * base = u + v * base
                 PROVE  x = u /\ y = v
      OBVIOUS
    <3> QED
      BY <1>1, Digits
  <2> QED
    BY <1>5, <1>6, <2>1, Zenon
<1> QED
  BY <1>4, <1>7

\* The numbers of a tier, as commitments hold them.
Holds(tier) == tier.boundary \in 0 .. MaxTierBoundaryValue /\ tier.ratio \in 0 .. RatioValues - 1

\* If the first tier is below the greatest boundary in both pairs, both tiers
\* of the pairs are the same.
LEMMA PairsBelow ==
    ASSUME NEW s, NEW t, NEW p, NEW q, Holds(s), Holds(t), Holds(p), Holds(q),
           s.boundary # MaxTierBoundaryValue, p.boundary # MaxTierBoundaryValue,
           PackTwo(s, t) = PackTwo(p, q)
    PROVE  /\ s.boundary = p.boundary /\ s.ratio = p.ratio
           /\ t.boundary = q.boundary /\ t.ratio = q.ratio
<1> DEFINE two(x) == [boundary |-> x.boundary, ratio |-> x.ratio]
           Twos == [boundary : Nat, ratio : 0 .. RatioValues - 1]
<1>1. \A x : Holds(x) => two(x) \in Twos /\ two(x).boundary = x.boundary /\ two(x).ratio = x.ratio
  BY BoundaryAssumption DEF Holds
<1>2. two(s).boundary < MaxTierBoundaryValue /\ two(p).boundary < MaxTierBoundaryValue
  BY BoundaryAssumption DEF Holds
<1>3. PackTwo(two(s), two(t)) = PackTwo(two(p), two(q))
  <2>1. PackTwo(two(s), two(t)) = PackTwo(s, t) /\ PackTwo(two(p), two(q)) = PackTwo(p, q)
    BY DEF PackTwo
  <2> QED
    BY <2>1
<1> HIDE DEF two
<1>4. two(s) = two(p) /\ two(t) = two(q)
  BY <1>1, <1>2, <1>3, PackedIsUnique
<1> QED
  BY <1>1, <1>4

\* Where the greatest boundary is in one of a loaded table's tiers, it is the
\* padding, and so is what follows.
Tops(s, t) ==
    /\ s.boundary = MaxTierBoundaryValue =>
           s.ratio = 0 /\ t.boundary = MaxTierBoundaryValue
    /\ t.boundary = MaxTierBoundaryValue => t.ratio = 0

\* Then no pair with a lower boundary packs to the same.
LEMMA PairsTop ==
    ASSUME NEW s, NEW t, NEW p, NEW q, Holds(s), Holds(t), Holds(p), Holds(q), Tops(s, t), Tops(p, q),
           s.boundary = MaxTierBoundaryValue,
           PackTwo(s, t) = PackTwo(p, q)
    PROVE  p.boundary = MaxTierBoundaryValue
<1> DEFINE M == MaxTierBoundaryValue
           base == RatioValues * M
           low == p.ratio + p.boundary * RatioValues
           high == q.ratio + q.boundary * RatioValues
<1>1. M \in Nat /\ M > 0 /\ RatioValues = 256
  <2>1. M # 0
    BY GreatestAssumption, MultiplierAssumption
  <2> QED
    BY <2>1, BoundaryAssumption DEF RatioValues
<1>2. s.ratio = 0 /\ s.boundary = M /\ t.boundary = M /\ t.ratio = 0
  BY DEF Tops
<1>3. /\ p.ratio \in 0 .. 255 /\ p.boundary \in Nat /\ p.boundary <= M
      /\ q.ratio \in 0 .. 255 /\ q.boundary \in Nat /\ q.boundary <= M
  BY <1>1 DEF Holds
<1> SUFFICES ASSUME p.boundary # M  PROVE FALSE
  OBVIOUS
<1>4. base \in Nat /\ base = 256 * M /\ base > 0 /\ low \in Nat /\ high \in Nat
  BY <1>1, <1>3
<1>5. low \in 0 .. base - 1
  <2>1. p.boundary + 1 <= M
    BY <1>1, <1>3
  <2> QED
    BY <1>1, <1>3, <1>4, <2>1
<1>6. PackTwo(s, t) = 0 + (1 + base) * base
  <2>1. \A x \in Nat : x * RatioValues * M = x * base
    BY <1>1
  <2>2. PackTwo(s, t) = 0 + M * RatioValues + (0 + M * RatioValues) * RatioValues * M
    BY <1>2 DEF PackTwo
  <2>3. M * RatioValues = base /\ 0 + M * RatioValues = base
    BY <1>1
  <2>4. (1 + base) * base = base + base * base
    BY <1>4
  <2>5. (0 + M * RatioValues) * RatioValues * M = base * base
    BY <1>4, <2>1, <2>3
  <2> HIDE DEF base
  <2> QED
    BY <1>4, <2>2, <2>3, <2>4, <2>5
<1>7. PackTwo(p, q) = low + high * base
  <2>1. \A x \in Nat : x * RatioValues * M = x * base
    BY <1>1
  <2>2. PackTwo(p, q) = low + high * RatioValues * M
    BY DEF PackTwo
  <2> HIDE DEF base, low, high
  <2> QED
    BY <1>4, <2>1, <2>2
<1> HIDE DEF low, high
<1>8. low = 0 /\ high = 1 + base
  <2>1. 0 \in 0 .. base - 1 /\ 1 + base \in Nat
    BY <1>4
  <2>2. low + high * base = 0 + (1 + base) * base
    BY <1>6, <1>7
  <2> HIDE DEF base
  <2> QED
    BY <1>4, <1>5, <2>1, <2>2, Digits
<1>9. q.boundary = M /\ q.ratio = 1
  <2>1. q.ratio + q.boundary * 256 = 1 + M * 256
    BY <1>1, <1>4, <1>8 DEF high
  <2> QED
    BY <1>1, <1>3, <2>1
<1> QED
  BY <1>9 DEF Tops

\* For two pairs of tiers of loaded tables, without further conditions.
LEMMA PairsLoaded ==
    ASSUME NEW s, NEW t, NEW p, NEW q, Holds(s), Holds(t), Holds(p), Holds(q), Tops(s, t), Tops(p, q),
           PackTwo(s, t) = PackTwo(p, q)
    PROVE  /\ s.boundary = p.boundary /\ s.ratio = p.ratio
           /\ t.boundary = q.boundary /\ t.ratio = q.ratio
<1>1. CASE s.boundary = MaxTierBoundaryValue
  BY <1>1, PairsTop DEF Tops
<1>2. CASE p.boundary = MaxTierBoundaryValue
  BY <1>2, PairsTop DEF Tops
<1>3. CASE s.boundary # MaxTierBoundaryValue /\ p.boundary # MaxTierBoundaryValue
  BY <1>3, PairsBelow
<1> QED
  BY <1>1, <1>2, <1>3

\* Two tables that commit to the same are the same, if both can be loaded or
\* neither has the greatest boundary where it does not fit.
THEOREM PackedFixes ==
    ASSUME NEW s, NEW t, Packed(s) = Packed(t),
           \A i \in 1 .. TierCount : Holds(s[i]) /\ Holds(t[i]),
           (Loadable(s) /\ Loadable(t)) \/ (~GreatestFirst(s) /\ ~GreatestFirst(t))
    PROVE  \A i \in 1 .. TierCount : s[i].boundary = t[i].boundary /\ s[i].ratio = t[i].ratio
<1>1. ASSUME NEW x, Loadable(x), NEW i \in 1 .. TierCount, i + 1 \in 1 .. TierCount
      PROVE  Tops(x[i], x[i+1])
  <2>1. PICK n \in 0 .. TierCount :
            /\ \A j \in 1 .. n : x[j].boundary % ValueMultiplier = 0
            /\ \A j \in n + 1 .. TierCount : x[j].boundary = MaxTierBoundaryValue /\ x[j].ratio = 0
    BY <1>1 DEF Loadable
  <2>2. \A j \in 1 .. TierCount : x[j].boundary = MaxTierBoundaryValue => j \in n + 1 .. TierCount
    BY <2>1, TierCountAssumption, GreatestAssumption
  <2>3. x[i].boundary = MaxTierBoundaryValue => i + 1 \in n + 1 .. TierCount
    BY <1>1, <2>2, TierCountAssumption
  <2> QED
    BY <1>1, <2>1, <2>2, <2>3 DEF Tops
<1>2. ASSUME NEW j \in 1 .. TierCount \div 2
      PROVE  LET i == 2*j - 1 IN
             /\ s[i].boundary = t[i].boundary /\ s[i].ratio = t[i].ratio
             /\ s[2*j].boundary = t[2*j].boundary /\ s[2*j].ratio = t[2*j].ratio
  <2> DEFINE i == 2*j - 1
  <2>1. i \in 1 .. TierCount /\ i + 1 = 2*j /\ 2*j \in 1 .. TierCount /\ i % 2 = 1
    BY TierCountAssumption
  <2>2. PackTwo(s[i], s[2*j]) = PackTwo(t[i], t[2*j])
    <3>1. Packed(s)[j] = Packed(t)[j]
      OBVIOUS
    <3> QED
      BY <3>1 DEF Packed
  <2>3. Holds(s[i]) /\ Holds(s[2*j]) /\ Holds(t[i]) /\ Holds(t[2*j])
    BY <2>1
  <2> HIDE DEF i
  <2>4. CASE Loadable(s) /\ Loadable(t)
    <3>1. Tops(s[i], s[2*j]) /\ Tops(t[i], t[2*j])
      BY <1>1, <2>1, <2>4
    <3> QED
      BY <2>2, <2>3, <3>1, PairsLoaded DEF i
  <2>5. CASE ~GreatestFirst(s) /\ ~GreatestFirst(t)
    <3>1. s[i].boundary # MaxTierBoundaryValue /\ t[i].boundary # MaxTierBoundaryValue
      BY <2>1, <2>5 DEF GreatestFirst
    <3> QED
      BY <2>2, <2>3, <3>1, PairsBelow DEF i
  <2> QED
    BY <2>4, <2>5
<1>3. ASSUME NEW i \in 1 .. TierCount
      PROVE  \E j \in 1 .. TierCount \div 2 : i = 2*j - 1 \/ i = 2*j
  <2> DEFINE half == (i + 1) \div 2
  <2>1. half \in 1 .. TierCount \div 2
    BY TierCountAssumption, EvenAssumption
  <2>2. i = 2*half - 1 \/ i = 2*half
    BY TierCountAssumption
  <2> QED
    BY <2>1, <2>2
<1> QED
  BY <1>2, <1>3

\* What a string is parsed into can be loaded, in the sense of Loadable.
THEOREM ParsedLoadable ==
    ASSUME NEW enc \in TierStrings, ~TooManyTiers(enc), TiersParse(enc)
    PROVE  /\ Loadable(ParseTiersRatio(enc))
           /\ \A i \in 1 .. TierCount : Holds(ParseTiersRatio(enc)[i])
<1> DEFINE n == Len(enc)
           raw == [i \in 1 .. n |->
                      [boundary |-> enc[i].high * ValueMultiplier, ratio |-> enc[i].ratio % RatioValues]]
           tiers == PaddingTierRatios(raw)
<1>1. n \in 0 .. TierCount
  BY TierCountAssumption, LenProperties DEF TooManyTiers, TierStrings
<1>2. \A i \in 1 .. n : enc[i].high \in Nat /\ enc[i].ratio \in Nat
  <2>1. \A i \in 1 .. n : enc[i] \in [low : Nat, high : Nat, ratio : Nat]
    BY ElementOfSeq DEF TierStrings
  <2> QED
    BY <2>1
<1>3. Len(raw) = n /\ ParseTiersRatio(enc) = tiers
  BY <1>1 DEF ParseTiersRatio
<1>4. ASSUME NEW i \in 1 .. n
      PROVE  /\ tiers[i].boundary = enc[i].high * ValueMultiplier
             /\ tiers[i].ratio = enc[i].ratio % RatioValues
  <2>1. i \in 1 .. TierCount /\ i <= Len(raw)
    BY <1>1, <1>3, TierCountAssumption
  <2>2. tiers[i].boundary = raw[i].boundary /\ tiers[i].ratio = raw[i].ratio
    BY <2>1 DEF PaddingTierRatios
  <2> QED
    BY <2>2
<1>5. ASSUME NEW i \in n + 1 .. TierCount
      PROVE  i \in 1 .. TierCount /\ tiers[i].boundary = MaxTierBoundaryValue /\ tiers[i].ratio = 0
  <2>1. i \in 1 .. TierCount /\ ~ (i <= Len(raw))
    BY <1>1, <1>3, TierCountAssumption
  <2> QED
    BY <2>1 DEF PaddingTierRatios
<1> HIDE DEF raw, tiers
<1>6. \A i \in 1 .. n : tiers[i].boundary \in 0 .. MaxTierBoundaryValue /\ tiers[i].ratio \in 0 .. RatioValues - 1
  <2> SUFFICES ASSUME NEW i \in 1 .. n
               PROVE  /\ tiers[i].boundary \in 0 .. MaxTierBoundaryValue
                      /\ tiers[i].ratio \in 0 .. RatioValues - 1
    OBVIOUS
  <2>1. enc[i].high * ValueMultiplier <= MaxTierBoundaryValue
    BY DEF TiersParse
  <2>2. enc[i].high * ValueMultiplier \in Nat
    BY <1>2, MultiplierAssumption
  <2>3. enc[i].ratio % RatioValues \in 0 .. RatioValues - 1
    BY <1>2 DEF RatioValues
  <2> QED
    BY <1>4, <2>1, <2>2, <2>3, BoundaryAssumption
<1>7. ASSUME NEW i \in 1 .. TierCount  PROVE Holds(tiers[i])
  <2>1. CASE i \in 1 .. n
    BY <1>6, <2>1 DEF Holds
  <2>2. CASE i \notin 1 .. n
    <3>1. i \in n + 1 .. TierCount
      BY <1>1, <2>2, TierCountAssumption
    <3> QED
      BY <1>5, <3>1, BoundaryAssumption DEF Holds, RatioValues
  <2> QED
    BY <2>1, <2>2
<1>8. ASSUME NEW i \in 1 .. n
      PROVE  /\ tiers[i].boundary % ValueMultiplier = 0
             /\ i > 1 => Lower(tiers, i) < tiers[i].boundary
  <2>1. \A m \in Nat : (m * ValueMultiplier) % ValueMultiplier = 0
    BY MultiplierAssumption
  <2>2. \A k, m \in Nat : k < m => k * ValueMultiplier < m * ValueMultiplier
    BY MultiplierAssumption
  <2>3. ASSUME i > 1  PROVE Lower(tiers, i) < tiers[i].boundary
    <3>1. i - 1 \in 1 .. n /\ i # 1
      BY <1>1, <2>3
    <3>2. enc[i-1].high < enc[i].high
      BY <1>2, <2>3, <3>1 DEF TiersParse
    <3>3. Lower(tiers, i) = enc[i-1].high * ValueMultiplier
      BY <1>4, <3>1 DEF Lower
    <3> QED
      BY <1>2, <1>4, <2>2, <3>1, <3>2, <3>3
  <2> QED
    BY <1>2, <1>4, <2>1, <2>3
<1>9. Loadable(tiers)
  BY <1>1, <1>5, <1>8 DEF Loadable
<1> QED
  BY <1>3, <1>7, <1>9

===========================================================================
