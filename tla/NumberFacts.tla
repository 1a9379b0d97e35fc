---------------------------- MODULE NumberFacts ----------------------------
(***************************************************************************)
(* Facts about numbers: the least of a set, divisions, running sums, and   *)
(* sums over finite sets.  A proof by induction on n supposes that there   *)
(* is a counterexample, takes the least one, and finds a smaller one or a  *)
(* contradiction; over a finite set it uses SetInduction.                  *)
(***************************************************************************)
EXTENDS Integers, FiniteSetsExt, Functions, FiniteSetTheorems, WellFoundedInduction, TLAPS

\* A set of natural numbers that is not empty has a least element.
LEMMA LeastNat ==
    ASSUME NEW S, S \subseteq Nat, S # {}
    PROVE  \E m \in S : \A n \in S : m <= n
<1> DEFINE R == OpToRel(<, Nat)
<1>1. IsWellFoundedOn(R, Nat)
  BY NatLessThanWellFounded
<1>2. \A x, y \in Nat : y < x => <<y, x>> \in R
  BY DEF OpToRel
<1> HIDE DEF R
<1>3. PICK x \in S : \A y \in S : ~ (<<y, x>> \in R)
  BY <1>1, WFMin
<1>4. ASSUME NEW n \in S  PROVE x <= n
  <2>1. ~ (n < x)
    BY <1>2, <1>3
  <2> QED
    BY <2>1
<1> QED
  BY <1>4

\* A set of natural numbers that is not empty and bounded has a greatest one.
LEMMA GreatestNat ==
    ASSUME NEW S, S \subseteq Nat, S # {}, NEW bound \in Nat, \A n \in S : n <= bound
    PROVE  \E m \in S : \A n \in S : n <= m
<1> DEFINE D == {d \in Nat : bound - d \in S}
<1>1. D # {}
  <2>1. PICK n \in S : TRUE
    OBVIOUS
  <2>2. n \in Nat /\ n <= bound /\ bound - (bound - n) = n
    BY <2>1
  <2>3. bound - n \in D
    BY <2>1, <2>2
  <2> QED
    BY <2>3
<1>2. PICK d \in D : \A e \in D : d <= e
  BY <1>1, LeastNat
<1>3. ASSUME NEW n \in S  PROVE n <= bound - d
  <2>1. n \in Nat /\ n <= bound /\ bound - (bound - n) = n
    BY <1>3
  <2>2. bound - n \in D
    BY <1>3, <2>1
  <2>3. d <= bound - n /\ d \in Nat
    BY <1>2, <2>2
  <2> QED
    BY <2>1, <2>3
<1> QED
  BY <1>2, <1>3

\* The digits of a number are determined.
LEMMA Digits ==
    ASSUME NEW base \in Nat, NEW x \in 0 .. base - 1, NEW y \in Nat,
           NEW u \in 0 .. base - 1, NEW v \in Nat, x + y * base = u + v * base
    PROVE  x = u /\ y = v
<1>1. \A m, n \in Nat : m < n => (m + 1) * base <= n * base
  OBVIOUS
<1>2. \A m \in Nat : (m + 1) * base = m * base + base /\ m * base \in Nat
  OBVIOUS
<1>3. y * base \in Nat /\ v * base \in Nat
  BY <1>2
<1>4. ~ (y < v)
  <2>1. y < v => y * base + base <= v * base
    BY <1>1, <1>2
  <2> QED
    BY <1>3, <2>1
<1>5. ~ (v < y)
  <2>1. v < y => v * base + base <= y * base
    BY <1>1, <1>2
  <2> QED
    BY <1>3, <2>1
<1>6. y = v
  BY <1>4, <1>5
<1> QED
  BY <1>3, <1>6

----------------------------------------------------------------------------
(* Running sums: f[t] is the sum of d[1] to d[t-1].                        *)

SumsBefore(f, d, n) == f = [t \in 1 .. n + 1 |-> IF t = 1 THEN 0 ELSE f[t-1] + d[t-1]]

\* The recursion has a solution.
LEMMA RunningSumsExist ==
    ASSUME NEW d, NEW n \in Nat
    PROVE  \E f : SumsBefore(f, d, n)
<1> DEFINE S == {m \in Nat : ~ \E f : SumsBefore(f, d, m)}
<1> SUFFICES ASSUME S # {}  PROVE FALSE
  OBVIOUS
<1>1. PICK m \in S : \A k \in S : m <= k
  BY LeastNat
<1>2. m # 0
  <2> DEFINE g == [t \in 1 .. 1 |-> 0]
  <2>1. SumsBefore(g, d, 0)
    BY DEF SumsBefore
  <2> QED
    BY <2>1, <1>1
<1>3. m - 1 \in Nat /\ m - 1 \notin S
  BY <1>1, <1>2
<1>4. PICK f : SumsBefore(f, d, m - 1)
  BY <1>3
<1> DEFINE g == [t \in 1 .. m + 1 |-> IF t = m + 1 THEN f[m] + d[m] ELSE f[t]]
<1>5. SumsBefore(g, d, m)
  BY <1>2, <1>3, <1>4 DEF SumsBefore
<1> QED
  BY <1>5, <1>1

\* Sums of natural numbers never fall.
LEMMA RunningSums ==
    ASSUME NEW n \in Nat, NEW d, \A t \in 1 .. n : d[t] \in Nat,
           NEW f, SumsBefore(f, d, n)
    PROVE  /\ f[1] = 0
           /\ \A t \in 1 .. n : f[t+1] = f[t] + d[t]
           /\ \A t \in 1 .. n + 1 : f[t] \in Nat
           /\ \A t, u \in 1 .. n + 1 : t <= u => f[t] <= f[u]
<1>1. f[1] = 0 /\ \A t \in 1 .. n : f[t+1] = f[t] + d[t]
  BY DEF SumsBefore
<1> DEFINE S == {t \in Nat : t \in 1 .. n + 1 /\ f[t] \notin Nat}
<1>2. S = {}
  <2> SUFFICES ASSUME S # {}  PROVE FALSE
    OBVIOUS
  <2>1. PICK m \in S : \A k \in S : m <= k
    BY LeastNat
  <2>2. m # 1 /\ m - 1 \in 1 .. n /\ m - 1 \notin S
    BY <1>1, <2>1
  <2>3. f[m-1] \in Nat /\ d[m-1] \in Nat /\ f[m] = f[m-1] + d[m-1]
    BY <1>1, <2>2
  <2> QED
    BY <2>1, <2>3
<1>3. \A t \in 1 .. n + 1 : f[t] \in Nat
  BY <1>2
<1>4. ASSUME NEW t \in 1 .. n + 1, NEW u \in 1 .. n + 1, t <= u  PROVE f[t] <= f[u]
  <2> DEFINE R == {v \in Nat : t <= v /\ v <= n + 1 /\ ~ (f[t] <= f[v])}
  <2>1. R = {}
    <3> SUFFICES ASSUME R # {}  PROVE FALSE
      OBVIOUS
    <3>1. PICK m \in R : \A k \in R : m <= k
      BY LeastNat
    <3>2. m # t
      BY <1>3, <3>1
    <3>3. m - 1 \in 1 .. n /\ m - 1 \notin R /\ t <= m - 1 /\ m = (m - 1) + 1
      BY <3>1, <3>2
    <3>4. f[m] = f[m-1] + d[m-1] /\ d[m-1] \in Nat
      BY <1>1, <3>3
    <3>5. f[t] \in Nat /\ f[m-1] \in Nat /\ f[t] <= f[m-1]
      BY <1>3, <3>3
    <3> QED
      BY <3>1, <3>4, <3>5
  <2> QED
    BY <1>4, <2>1
<1> QED
  BY <1>1, <1>3, <1>4

----------------------------------------------------------------------------
(* Sums over finite sets.                                                  *)

\* What holds of the empty set, and of a set when it holds of it without any
\* one element, holds of every finite set.
LEMMA SetInduction ==
    ASSUME NEW S, IsFiniteSet(S), NEW P,
           {} \in P, \A T \in SUBSET S : T # {} /\ (\A x \in T : T \ {x} \in P) => T \in P
    PROVE  S \in P
<1> DEFINE C == {Cardinality(T) : T \in (SUBSET S) \ P}
<1> SUFFICES ASSUME S \notin P  PROVE FALSE
  OBVIOUS
<1>1. \A T \in SUBSET S : IsFiniteSet(T) /\ Cardinality(T) \in Nat
  BY FS_Subset, FS_CardinalityType
<1>2. PICK m \in C : \A n \in C : m <= n
  <2>1. C \subseteq Nat /\ C # {}
    BY <1>1
  <2> QED
    BY <2>1, LeastNat
<1>3. PICK T \in (SUBSET S) \ P : Cardinality(T) = m
  BY <1>2
<1>4. ASSUME NEW x \in T  PROVE T \ {x} \in P
  <2>1. Cardinality(T \ {x}) = m - 1 /\ m \in Nat
    BY <1>1, <1>3, FS_RemoveElement
  <2>2. T \ {x} \in SUBSET S
    OBVIOUS
  <2>3. Cardinality(T \ {x}) \notin C
    BY <1>2, <2>1
  <2> QED
    BY <2>2, <2>3
<1> QED
  BY <1>3, <1>4

\* The recursion of SumFunctionOnSet.
SumOf(f, s, F) ==
    IF s = {} THEN 0 ELSE LET x == CHOOSE x \in s : TRUE IN f[x] + F[s \ {x}]
SetSums(F, f, S) == F = [s \in SUBSET S |-> SumOf(f, s, F)]

\* It has a solution.
LEMMA SetSumsExist ==
    ASSUME NEW S, IsFiniteSet(S), NEW f
    PROVE  \E F : SetSums(F, f, S)
<1> DEFINE Bad == {n \in Nat :
                       ~ \E F : /\ F = [s \in SUBSET S |-> F[s]]
                                /\ \A s \in SUBSET S : Cardinality(s) <= n => F[s] = SumOf(f, s, F)}
<1>1. \A s \in SUBSET S : IsFiniteSet(s) /\ Cardinality(s) \in Nat /\ Cardinality(s) <= Cardinality(S)
  BY FS_Subset, FS_CardinalityType
<1>2. Bad = {}
  <2> SUFFICES ASSUME Bad # {}  PROVE FALSE
    OBVIOUS
  <2>1. PICK m \in Bad : \A n \in Bad : m <= n
    BY LeastNat
  <2>2. PICK F : /\ F = [s \in SUBSET S |-> F[s]]
                 /\ \A s \in SUBSET S : Cardinality(s) <= m - 1 => F[s] = SumOf(f, s, F)
    <3>1. CASE m = 0
      <4> DEFINE G == [s \in SUBSET S |-> 0]
      <4>1. G = [s \in SUBSET S |-> G[s]] /\ \A s \in SUBSET S : ~ (Cardinality(s) <= m - 1)
        BY <1>1, <3>1
      <4> HIDE DEF G
      <4> QED
        BY <4>1
    <3>2. CASE m # 0
      <4>1. m \in Nat
        BY <2>1
      <4> HIDE DEF Bad
      <4>2. m - 1 \in Nat /\ m - 1 \notin Bad
        BY <2>1, <3>2, <4>1
      <4> QED
        BY <4>2 DEF Bad
    <3> QED
      BY <3>1, <3>2
  <2> DEFINE G == [s \in SUBSET S |-> SumOf(f, s, F)]
  <2>3. ASSUME NEW s \in SUBSET S, Cardinality(s) <= m  PROVE G[s] = SumOf(f, s, G)
    <3> DEFINE x == CHOOSE y \in s : TRUE
    <3>1. CASE s = {}
      BY <3>1 DEF SumOf
    <3>2. CASE s # {}
      <4>1. x \in s
        BY <3>2
      <4> HIDE DEF x
      <4>2. s \ {x} \in SUBSET S /\ Cardinality(s \ {x}) = Cardinality(s) - 1
        BY <1>1, <4>1, FS_RemoveElement
      <4>3. Cardinality(s \ {x}) <= m - 1
        BY <1>1, <2>1, <2>3, <4>2
      <4>4. G[s \ {x}] = SumOf(f, s \ {x}, F) /\ F[s \ {x}] = SumOf(f, s \ {x}, F)
        BY <2>2, <4>2, <4>3
      <4>5. F[s \ {x}] = G[s \ {x}]
        BY <4>4
      <4> HIDE DEF G
      <4>6. SumOf(f, s, F) = f[x] + F[s \ {x}] /\ SumOf(f, s, G) = f[x] + G[s \ {x}]
        BY <3>2 DEF SumOf, x
      <4>7. G[s] = SumOf(f, s, F)
        BY DEF G
      <4> QED
        BY <4>5, <4>6, <4>7
    <3> QED
      BY <3>1, <3>2
  <2>4. G = [s \in SUBSET S |-> G[s]]
    OBVIOUS
  <2> HIDE DEF G
  <2>5. m \notin Bad
    BY <2>3, <2>4
  <2> QED
    BY <2>1, <2>5
<1>3. Cardinality(S) \in Nat /\ Cardinality(S) \notin Bad
  BY <1>2, FS_CardinalityType
<1>4. PICK F : F = [s \in SUBSET S |-> F[s]]
               /\ \A s \in SUBSET S : Cardinality(s) <= Cardinality(S) => F[s] = SumOf(f, s, F)
  BY <1>3
<1>5. \A s \in SUBSET S : F[s] = SumOf(f, s, F)
  BY <1>1, <1>4
<1>6. SetSums(F, f, S)
  BY <1>4, <1>5, Zenon DEF SetSums
<1> QED
  BY <1>6

SetSumsOf(f, S) == CHOOSE F : SetSums(F, f, S)

\* The sum over a set is what the recursion gives it.
LEMMA SetSumIs ==
    ASSUME NEW S, IsFiniteSet(S), NEW f
    PROVE  /\ SetSums(SetSumsOf(f, S), f, S)
           /\ SumFunctionOnSet(f, S) = SetSumsOf(f, S)[S]
<1>1. SetSums(SetSumsOf(f, S), f, S)
  BY SetSumsExist, Zenon DEF SetSumsOf
<1>2. SumFunctionOnSet(f, S) = SetSumsOf(f, S)[S]
  BY Zenon DEF SumFunctionOnSet, FoldFunctionOnSet, MapThenFoldSet, SetSumsOf, SetSums, SumOf
<1> QED
  BY <1>1, <1>2

\* A subset has the sum that the recursion gives it within a larger set.
LEMMA SumWithin ==
    ASSUME NEW S, IsFiniteSet(S), NEW f, NEW T \in SUBSET S
    PROVE  SumFunctionOnSet(f, T) = SetSumsOf(f, S)[T]
<1> DEFINE F == SetSumsOf(f, S)
           G == SetSumsOf(f, T)
           P == {U \in SUBSET T : F[U] = G[U]}
<1>1. IsFiniteSet(T)
  BY FS_Subset
<1>2. /\ \A U \in SUBSET S : F[U] = SumOf(f, U, F)
      /\ \A U \in SUBSET T : G[U] = SumOf(f, U, G)
  <2>1. SetSums(F, f, S) /\ SetSums(G, f, T)
    BY <1>1, SetSumIs
  <2> HIDE DEF F, G
  <2> QED
    BY <2>1 DEF SetSums
<1> HIDE DEF F, G
<1>3. {} \in P
  BY <1>2 DEF SumOf
<1>4. ASSUME NEW U \in SUBSET T, U # {}, \A x \in U : U \ {x} \in P  PROVE U \in P
  <2> DEFINE x == CHOOSE y \in U : TRUE
  <2>1. x \in U
    BY <1>4
  <2>2. F[U] = f[x] + F[U \ {x}] /\ G[U] = f[x] + G[U \ {x}]
    BY <1>2, <1>4, Zenon DEF SumOf
  <2> HIDE DEF x
  <2>3. F[U \ {x}] = G[U \ {x}]
    BY <1>4, <2>1
  <2> QED
    BY <2>2, <2>3
<1>5. T \in P
  <2> HIDE DEF P
  <2> QED
    BY <1>1, <1>3, <1>4, SetInduction
<1> QED
  BY <1>1, <1>5, SetSumIs DEF F, G

LEMMA SumEmpty == ASSUME NEW f  PROVE SumFunctionOnSet(f, {}) = 0
<1>1. IsFiniteSet({})
  BY FS_EmptySet
<1>2. SetSums(SetSumsOf(f, {}), f, {}) /\ SumFunctionOnSet(f, {}) = SetSumsOf(f, {})[{}]
  BY <1>1, SetSumIs
<1> HIDE DEF SetSumsOf
<1> QED
  BY <1>2 DEF SetSums, SumOf

\* Numbers can be added in any order: any element can be taken out first.
LEMMA SumOrder ==
    ASSUME NEW S, IsFiniteSet(S), NEW f, \A x \in S : f[x] \in Int
    PROVE  /\ SumFunctionOnSet(f, S) \in Int
           /\ \A x \in S : SumFunctionOnSet(f, S) = f[x] + SumFunctionOnSet(f, S \ {x})
<1> DEFINE Sum(U) == SumFunctionOnSet(f, U)
           I == {U \in SUBSET S : Sum(U) \in Int}
           P == {U \in SUBSET S : \A x \in U : Sum(U) = f[x] + Sum(U \ {x})}
<1>1. ASSUME NEW U \in SUBSET S, U # {}
      PROVE  \E c \in U : Sum(U) = f[c] + Sum(U \ {c})
  <2> DEFINE F == SetSumsOf(f, S)
             c == CHOOSE y \in U : TRUE
  <2>1. F[U] = SumOf(f, U, F)
    <3>1. SetSums(F, f, S)
      BY SetSumIs
    <3> HIDE DEF F
    <3> QED
      BY <3>1 DEF SetSums
  <2> HIDE DEF F
  <2>2. c \in U /\ F[U] = f[c] + F[U \ {c}]
    BY <1>1, <2>1, Zenon DEF SumOf
  <2> HIDE DEF c
  <2>3. Sum(U) = F[U] /\ Sum(U \ {c}) = F[U \ {c}]
    <3>1. U \ {c} \in SUBSET S
      OBVIOUS
    <3> QED
      BY <3>1, SumWithin DEF F
  <2> QED
    BY <2>2, <2>3
<1>2. Sum({}) = 0
  BY SumEmpty
<1> HIDE DEF Sum
<1>3. \A U \in SUBSET S : Sum(U) \in Int
  <2>1. {} \in I
    BY <1>2
  <2>2. ASSUME NEW U \in SUBSET S, U # {}, \A x \in U : U \ {x} \in I  PROVE U \in I
    <3>1. PICK c \in U : Sum(U) = f[c] + Sum(U \ {c})
      BY <1>1, <2>2
    <3>2. Sum(U \ {c}) \in Int /\ f[c] \in Int
      BY <2>2
    <3>3. Sum(U) \in Int
      BY <3>1, <3>2
    <3> QED
      BY <3>3
  <2> SUFFICES ASSUME NEW U \in SUBSET S  PROVE U \in I
    OBVIOUS
  <2>3. IsFiniteSet(U)
    BY FS_Subset
  <2> HIDE DEF I
  <2> QED
    BY <2>1, <2>2, <2>3, SetInduction
<1>4. {} \in P
  OBVIOUS
<1>5. ASSUME NEW U \in SUBSET S, U # {}, \A x \in U : U \ {x} \in P  PROVE U \in P
  <2>1. PICK c \in U : Sum(U) = f[c] + Sum(U \ {c})
    BY <1>1, <1>5
  <2>2. ASSUME NEW x \in U, x # c  PROVE Sum(U) = f[x] + Sum(U \ {x})
    <3>1. U \ {c} \in P /\ U \ {x} \in P /\ x \in U \ {c} /\ c \in U \ {x}
      BY <1>5, <2>2
    <3> DEFINE V == (U \ {c}) \ {x}
    <3>2. V = (U \ {x}) \ {c} /\ V \in SUBSET S
      OBVIOUS
    <3>3. Sum(U \ {c}) = f[x] + Sum(V) /\ Sum(U \ {x}) = f[c] + Sum((U \ {x}) \ {c})
      BY <3>1
    <3> HIDE DEF V
    <3>4. Sum(U \ {x}) = f[c] + Sum(V)
      BY <3>2, <3>3, Zenon
    <3>5. Sum(V) \in Int /\ f[x] \in Int /\ f[c] \in Int
      BY <1>3, <3>2
    <3> QED
      BY <2>1, <3>3, <3>4, <3>5
  <2>3. \A x \in U : Sum(U) = f[x] + Sum(U \ {x})
    BY <2>1, <2>2
  <2> QED
    BY <2>3
<1>6. S \in P
  <2> HIDE DEF P
  <2> QED
    BY <1>4, <1>5, SetInduction
<1> QED
  BY <1>3, <1>6 DEF Sum

\* The same for one element.
LEMMA SumTakeOut ==
    ASSUME NEW S, IsFiniteSet(S), NEW f, \A y \in S : f[y] \in Int, NEW x \in S
    PROVE  /\ SumFunctionOnSet(f, S) = f[x] + SumFunctionOnSet(f, S \ {x})
           /\ SumFunctionOnSet(f, S) \in Int /\ SumFunctionOnSet(f, S \ {x}) \in Int
<1>1. IsFiniteSet(S \ {x})
  BY FS_RemoveElement
<1> QED
  BY <1>1, SumOrder

\* Sums compare as their summands do.
LEMMA SumLe ==
    ASSUME NEW S, IsFiniteSet(S), NEW f, NEW g,
           \A x \in S : f[x] \in Int /\ g[x] \in Int /\ f[x] <= g[x]
    PROVE  SumFunctionOnSet(f, S) <= SumFunctionOnSet(g, S)
<1> DEFINE F(U) == SumFunctionOnSet(f, U)
           G(U) == SumFunctionOnSet(g, U)
           P == {U \in SUBSET S : F(U) <= G(U)}
<1>1. {} \in P
  BY SumEmpty
<1>2. ASSUME NEW U \in SUBSET S, U # {}, \A x \in U : U \ {x} \in P  PROVE U \in P
  <2>1. PICK x \in U : U \ {x} \in P
    BY <1>2
  <2>2. IsFiniteSet(U)
    BY FS_Subset
  <2>3. /\ F(U) = f[x] + F(U \ {x}) /\ F(U \ {x}) \in Int
        /\ G(U) = g[x] + G(U \ {x}) /\ G(U \ {x}) \in Int
    BY <2>2, SumTakeOut
  <2>4. F(U \ {x}) <= G(U \ {x}) /\ f[x] \in Int /\ g[x] \in Int /\ f[x] <= g[x]
    BY <2>1
  <2> HIDE DEF F, G
  <2>5. F(U) <= G(U)
    BY <2>3, <2>4
  <2> QED
    BY <2>5
<1> HIDE DEF P
<1>3. S \in P
  BY <1>1, <1>2, SetInduction
<1> QED
  BY <1>3 DEF P

\* The same summands have the same sum.
LEMMA SumSame ==
    ASSUME NEW S, IsFiniteSet(S), NEW f, NEW g, \A x \in S : f[x] \in Int /\ f[x] = g[x]
    PROVE  SumFunctionOnSet(f, S) = SumFunctionOnSet(g, S)
<1>1. SumFunctionOnSet(f, S) \in Int /\ SumFunctionOnSet(g, S) \in Int
  BY SumOrder
<1>2. SumFunctionOnSet(f, S) <= SumFunctionOnSet(g, S)
  BY SumLe
<1>3. SumFunctionOnSet(g, S) <= SumFunctionOnSet(f, S)
  BY SumLe
<1> QED
  BY <1>1, <1>2, <1>3

\* Natural numbers have a sum that is not less than any of them.
LEMMA SumNat ==
    ASSUME NEW S, IsFiniteSet(S), NEW f, \A x \in S : f[x] \in Nat
    PROVE  /\ SumFunctionOnSet(f, S) \in Nat
           /\ \A x \in S : f[x] <= SumFunctionOnSet(f, S)
<1>1. ASSUME NEW U \in SUBSET S  PROVE SumFunctionOnSet(f, U) \in Nat
  <2> DEFINE Z == {V \in SUBSET U : SumFunctionOnSet(f, V) \in Nat}
  <2>1. {} \in Z
    BY SumEmpty
  <2>2. ASSUME NEW V \in SUBSET U, V # {}, \A x \in V : V \ {x} \in Z  PROVE V \in Z
    <3>1. PICK x \in V : V \ {x} \in Z
      BY <2>2
    <3>2. IsFiniteSet(V) /\ \A y \in V : f[y] \in Int
      BY FS_Subset
    <3>3. SumFunctionOnSet(f, V) = f[x] + SumFunctionOnSet(f, V \ {x})
      BY <3>2, SumTakeOut
    <3>4. SumFunctionOnSet(f, V \ {x}) \in Nat /\ f[x] \in Nat
      BY <3>1
    <3> QED
      BY <3>3, <3>4
  <2> HIDE DEF Z
  <2>3. U \in Z
    <3>1. IsFiniteSet(U)
      BY FS_Subset
    <3> QED
      BY <2>1, <2>2, <3>1, SetInduction
  <2> QED
    BY <2>3 DEF Z
<1>2. ASSUME NEW x \in S  PROVE f[x] <= SumFunctionOnSet(f, S)
  <2>1. SumFunctionOnSet(f, S) = f[x] + SumFunctionOnSet(f, S \ {x})
    BY SumTakeOut
  <2>2. SumFunctionOnSet(f, S \ {x}) \in Nat /\ f[x] \in Nat
    BY <1>1
  <2> QED
    BY <2>1, <2>2
<1> QED
  BY <1>1, <1>2

\* Sums can be added summand by summand.
LEMMA SumAdd ==
    ASSUME NEW S, IsFiniteSet(S), NEW f, NEW g, NEW h,
           \A x \in S : f[x] \in Int /\ g[x] \in Int /\ h[x] = f[x] + g[x]
    PROVE  SumFunctionOnSet(h, S) = SumFunctionOnSet(f, S) + SumFunctionOnSet(g, S)
<1> DEFINE F(U) == SumFunctionOnSet(f, U)
           G(U) == SumFunctionOnSet(g, U)
           H(U) == SumFunctionOnSet(h, U)
           P == {U \in SUBSET S : H(U) = F(U) + G(U)}
<1>1. {} \in P
  BY SumEmpty
<1>2. ASSUME NEW U \in SUBSET S, U # {}, \A x \in U : U \ {x} \in P  PROVE U \in P
  <2>1. PICK x \in U : U \ {x} \in P
    BY <1>2
  <2>2. IsFiniteSet(U) /\ \A y \in U : f[y] \in Int /\ g[y] \in Int /\ h[y] \in Int
    BY FS_Subset
  <2>3. F(U) = f[x] + F(U \ {x}) /\ F(U \ {x}) \in Int
    BY <2>2, SumTakeOut
  <2>4. G(U) = g[x] + G(U \ {x}) /\ G(U \ {x}) \in Int
    BY <2>2, SumTakeOut
  <2>5. H(U) = h[x] + H(U \ {x})
    BY <2>2, SumTakeOut
  <2>6. H(U \ {x}) = F(U \ {x}) + G(U \ {x}) /\ f[x] \in Int /\ g[x] \in Int /\ h[x] = f[x] + g[x]
    BY <2>1
  <2> HIDE DEF F, G, H
  <2>7. H(U) = F(U) + G(U)
    BY <2>3, <2>4, <2>5, <2>6
  <2> QED
    BY <2>7
<1> HIDE DEF P
<1>3. S \in P
  BY <1>1, <1>2, SetInduction
<1> QED
  BY <1>3 DEF P

\* Two sets without a common element.
LEMMA SumUnion ==
    ASSUME NEW S, NEW T, IsFiniteSet(S), IsFiniteSet(T), S \cap T = {},
           NEW f, \A x \in S \cup T : f[x] \in Int
    PROVE  SumFunctionOnSet(f, S \cup T) = SumFunctionOnSet(f, S) + SumFunctionOnSet(f, T)
<1> DEFINE F(U) == SumFunctionOnSet(f, U)
           P == {U \in SUBSET S : F(U \cup T) = F(U) + F(T)}
<1>1. {} \in P
  <2>1. {} \cup T = T
    OBVIOUS
  <2>2. F(T) \in Int /\ F({}) = 0
    BY SumOrder, SumEmpty
  <2> HIDE DEF F
  <2> QED
    BY <2>1, <2>2
<1>2. ASSUME NEW U \in SUBSET S, U # {}, \A x \in U : U \ {x} \in P  PROVE U \in P
  <2>1. PICK x \in U : U \ {x} \in P
    BY <1>2
  <2>2. IsFiniteSet(U) /\ IsFiniteSet(U \cup T)
    BY FS_Subset, FS_Union
  <2>3. F(U) = f[x] + F(U \ {x}) /\ F(U \ {x}) \in Int
    BY <2>2, SumTakeOut
  <2>4. x \in U \cup T /\ (U \cup T) \ {x} = (U \ {x}) \cup T
    OBVIOUS
  <2>5. F(U \cup T) = f[x] + F((U \cup T) \ {x})
    BY <2>2, <2>4, SumTakeOut
  <2>6. F(T) \in Int /\ f[x] \in Int
    BY SumOrder
  <2>7. F((U \ {x}) \cup T) = F(U \ {x}) + F(T)
    BY <2>1
  <2> HIDE DEF F
  <2>8. F(U \cup T) = f[x] + F((U \ {x}) \cup T)
    BY <2>4, <2>5, Zenon
  <2>9. F(U \cup T) = F(U) + F(T)
    BY <2>3, <2>6, <2>7, <2>8
  <2> QED
    BY <2>9
<1> HIDE DEF P
<1>3. S \in P
  BY <1>1, <1>2, SetInduction
<1> QED
  BY <1>3 DEF P

\* Zeros do not count.
LEMMA SumZeros ==
    ASSUME NEW S, IsFiniteSet(S), NEW T \in SUBSET S,
           NEW f, \A x \in S : f[x] \in Int, \A x \in S \ T : f[x] = 0
    PROVE  SumFunctionOnSet(f, S) = SumFunctionOnSet(f, T)
<1> DEFINE F(U) == SumFunctionOnSet(f, U)
           P == {U \in SUBSET (S \ T) : F(U) = 0}
<1>1. {} \in P
  BY SumEmpty
<1>2. IsFiniteSet(T) /\ IsFiniteSet(S \ T)
  BY FS_Subset, FS_Difference
<1>3. ASSUME NEW U \in SUBSET (S \ T), U # {}, \A x \in U : U \ {x} \in P  PROVE U \in P
  <2>1. PICK x \in U : U \ {x} \in P
    BY <1>3
  <2>2. IsFiniteSet(U) /\ \A y \in U : f[y] \in Int
    BY <1>2, FS_Subset
  <2>3. F(U) = f[x] + F(U \ {x})
    BY <2>2, SumTakeOut
  <2>4. F(U \ {x}) = 0 /\ f[x] = 0
    BY <2>1
  <2> HIDE DEF F
  <2>5. F(U) = 0
    BY <2>3, <2>4
  <2> QED
    BY <2>5
<1>4. S \ T \in P
  <2> HIDE DEF P
  <2> QED
    BY <1>1, <1>2, <1>3, SetInduction
<1>5. F(T \cup (S \ T)) = F(T) + F(S \ T)
  BY <1>2, SumUnion
<1>6. T \cup (S \ T) = S /\ F(T) \in Int /\ F(S \ T) = 0
  BY <1>2, <1>4, SumOrder
<1> HIDE DEF F, P
<1>7. F(S) = F(T) + F(S \ T)
  BY <1>5, <1>6, Zenon
<1>8. F(S) = F(T)
  BY <1>6, <1>7
<1> QED
  BY <1>8 DEF F

\* One more summand.
LEMMA SumAppend ==
    ASSUME NEW n \in Nat, NEW f, NEW g,
           \A k \in 1 .. n + 1 : g[k] \in Int, \A k \in 1 .. n : f[k] = g[k]
    PROVE  SumFunctionOnSet(g, 1 .. n + 1) = SumFunctionOnSet(f, 1 .. n) + g[n+1]
<1>1. IsFiniteSet(1 .. n) /\ IsFiniteSet(1 .. n + 1)
  BY FS_Interval
<1>2. n + 1 \in 1 .. n + 1 /\ (1 .. n + 1) \ {n + 1} = 1 .. n
  OBVIOUS
<1>3. SumFunctionOnSet(g, 1 .. n + 1) = g[n+1] + SumFunctionOnSet(g, (1 .. n + 1) \ {n + 1})
  BY <1>1, <1>2, SumTakeOut
<1>4. SumFunctionOnSet(g, 1 .. n) \in Int /\ g[n+1] \in Int
      /\ SumFunctionOnSet(g, 1 .. n) = SumFunctionOnSet(f, 1 .. n)
  <2>1. \A k \in 1 .. n : g[k] \in Int
    OBVIOUS
  <2> QED
    BY <1>1, <1>2, <2>1, SumOrder, SumSame
<1>5. SumFunctionOnSet(g, 1 .. n + 1) = g[n+1] + SumFunctionOnSet(g, 1 .. n)
  BY <1>2, <1>3, Zenon
<1> QED
  BY <1>4, <1>5

\* Summands that are zero do not matter: a sum over a set is one over a greater
\* set, if all that is added there is zero.
LEMMA SumSupport ==
    ASSUME NEW S, IsFiniteSet(S), NEW g, \A x \in S : g[x] \in Int,
           NEW f, DOMAIN f \subseteq S, \A x \in DOMAIN f : f[x] = g[x],
           \A x \in S \ DOMAIN f : g[x] = 0
    PROVE  SumFunction(f) = SumFunctionOnSet(g, S)
<1>1. SumFunction(f) = SumFunctionOnSet(f, DOMAIN f)
  BY Zenon DEF SumFunction
<1>2. IsFiniteSet(DOMAIN f)
  BY FS_Subset
<1>3. SumFunctionOnSet(f, DOMAIN f) = SumFunctionOnSet(g, DOMAIN f)
  BY <1>2, SumSame
<1>4. SumFunctionOnSet(g, S) = SumFunctionOnSet(g, DOMAIN f)
  BY SumZeros
<1> QED
  BY <1>1, <1>3, <1>4

\* The sum over a set of one.
LEMMA SumSingle ==
    ASSUME NEW x, NEW f, f[x] \in Int
    PROVE  SumFunctionOnSet(f, {x}) = f[x]
<1>1. IsFiniteSet({x}) /\ {x} \ {x} = {} /\ x \in {x} /\ \A y \in {x} : f[y] \in Int
  BY FS_Singleton
<1>2. SumFunctionOnSet(f, {x}) = f[x] + SumFunctionOnSet(f, {x} \ {x})
  BY <1>1, SumOrder
<1>3. SumFunctionOnSet(f, {x} \ {x}) = 0
  BY <1>1, SumEmpty
<1> QED
  BY <1>2, <1>3

\* A sum of zeros.
LEMMA SumNothing ==
    ASSUME NEW S, IsFiniteSet(S), NEW f, \A x \in S : f[x] = 0
    PROVE  SumFunctionOnSet(f, S) = 0
<1>1. {} \in SUBSET S /\ \A x \in S : f[x] \in Int
  OBVIOUS
<1>2. SumFunctionOnSet(f, S) = SumFunctionOnSet(f, {})
  BY <1>1, SumZeros
<1> QED
  BY <1>2, SumEmpty

\* A sum of natural numbers is at least the sum over a part of them.
LEMMA SumPart ==
    ASSUME NEW S, IsFiniteSet(S), NEW f, \A x \in S : f[x] \in Nat, NEW T \in SUBSET S
    PROVE  SumFunctionOnSet(f, T) <= SumFunctionOnSet(f, S)
<1>1. IsFiniteSet(T) /\ IsFiniteSet(S \ T) /\ T \cap (S \ T) = {} /\ T \cup (S \ T) = S
  BY FS_Subset
<1>2. /\ \A x \in T : f[x] \in Nat
      /\ \A x \in S \ T : f[x] \in Nat
      /\ \A x \in T \cup (S \ T) : f[x] \in Int
  OBVIOUS
<1>3. SumFunctionOnSet(f, T) \in Nat /\ SumFunctionOnSet(f, S \ T) \in Nat
  BY <1>1, <1>2, SumNat
<1>4. SumFunctionOnSet(f, T \cup (S \ T)) = SumFunctionOnSet(f, T) + SumFunctionOnSet(f, S \ T)
  BY <1>1, <1>2, SumUnion
<1>5. SumFunctionOnSet(f, S) = SumFunctionOnSet(f, T) + SumFunctionOnSet(f, S \ T)
  BY <1>1, <1>4, Zenon
<1> QED
  BY <1>3, <1>5

\* The sum of a matrix, by rows or by columns.
LEMMA SumSwap ==
    ASSUME NEW S, IsFiniteSet(S), NEW T, IsFiniteSet(T), NEW g, \A x \in S : \A y \in T : g[x][y] \in Int
    PROVE  SumFunctionOnSet([x \in S |-> SumFunctionOnSet(g[x], T)], S)
               = SumFunctionOnSet([y \in T |-> SumFunctionOnSet([x \in S |-> g[x][y]], S)], T)
<1> DEFINE R == [x \in S |-> SumFunctionOnSet(g[x], T)]
           col(y) == [x \in S |-> g[x][y]]
           C(U) == [y \in T |-> SumFunctionOnSet(col(y), U)]
           P == {U \in SUBSET S : SumFunctionOnSet(R, U) = SumFunctionOnSet(C(U), T)}
<1>1. \A x \in S : R[x] = SumFunctionOnSet(g[x], T) /\ R[x] \in Int
  BY SumOrder
<1>2. \A y \in T : \A x \in S : col(y)[x] = g[x][y] /\ col(y)[x] \in Int
  OBVIOUS
<1>3. \A U : \A y \in T : C(U)[y] = SumFunctionOnSet(col(y), U)
  OBVIOUS
<1> HIDE DEF R, col, C
<1>4. {} \in P
  <2>1. \A y \in T : C({})[y] = 0
    BY <1>3, SumEmpty
  <2>2. SumFunctionOnSet(C({}), T) = 0
    BY <2>1, SumNothing
  <2>3. SumFunctionOnSet(R, {}) = 0
    BY SumEmpty
  <2> QED
    BY <2>2, <2>3
<1>5. ASSUME NEW U \in SUBSET S, U # {}, \A c \in U : U \ {c} \in P  PROVE U \in P
  <2>1. PICK c \in U : TRUE
    BY <1>5
  <2> DEFINE V == U \ {c}
  <2>2. IsFiniteSet(U) /\ IsFiniteSet(V) /\ c \in S /\ V \in SUBSET S
    BY FS_Subset
  <2>3. SumFunctionOnSet(R, V) = SumFunctionOnSet(C(V), T)
    BY <1>5
  <2>4. \A x \in U : R[x] \in Int
    BY <1>1
  <2>5. SumFunctionOnSet(R, U) = R[c] + SumFunctionOnSet(R, V)
    BY <2>1, <2>2, <2>4, SumTakeOut
  <2>6. ASSUME NEW y \in T
        PROVE  C(U)[y] = g[c][y] + C(V)[y] /\ C(V)[y] \in Int
    <3>1. \A x \in U : col(y)[x] \in Int
      BY <1>2
    <3>2. /\ SumFunctionOnSet(col(y), U) = col(y)[c] + SumFunctionOnSet(col(y), V)
          /\ SumFunctionOnSet(col(y), V) \in Int
      BY <2>1, <2>2, <3>1, SumTakeOut
    <3> QED
      BY <1>2, <1>3, <2>2, <3>2
  <2>7. SumFunctionOnSet(C(U), T) = SumFunctionOnSet(g[c], T) + SumFunctionOnSet(C(V), T)
    <3>1. \A y \in T : g[c][y] \in Int /\ C(V)[y] \in Int /\ C(U)[y] = g[c][y] + C(V)[y]
      BY <2>2, <2>6
    <3> QED
      BY <3>1, SumAdd
  <2>8. SumFunctionOnSet(R, U) = SumFunctionOnSet(C(U), T)
    BY <1>1, <2>2, <2>3, <2>5, <2>7
  <2> QED
    BY <2>8
<1> HIDE DEF P
<1>6. S \in P
  BY <1>4, <1>5, SetInduction
<1>7. SumFunctionOnSet(R, S) = SumFunctionOnSet(C(S), T)
  BY <1>6 DEF P
<1> QED
  BY <1>7 DEF R, C, col

\* A table g with rows S and columns T: col has it by columns, r the sums of the
\* rows, c those of the columns.
RowsAndColumns(S, T, g, col, r, c) ==
    /\ IsFiniteSet(S) /\ IsFiniteSet(T)
    /\ \A x \in S : \A y \in T : g[x][y] \in Int
    /\ \A y \in T : \A x \in S : col[y][x] = g[x][y]
    /\ \A x \in S : r[x] = SumFunctionOnSet(g[x], T)
    /\ \A y \in T : c[y] = SumFunctionOnSet(col[y], S)

\* Both come to the same sum.
LEMMA SumByColumns ==
    ASSUME NEW S, NEW T, NEW g, NEW col, NEW r, NEW c, RowsAndColumns(S, T, g, col, r, c)
    PROVE  SumFunctionOnSet(r, S) = SumFunctionOnSet(c, T)
<1>0. /\ IsFiniteSet(S) /\ IsFiniteSet(T)
      /\ \A x \in S : \A y \in T : g[x][y] \in Int
      /\ \A y \in T : \A x \in S : col[y][x] = g[x][y]
      /\ \A x \in S : r[x] = SumFunctionOnSet(g[x], T)
      /\ \A y \in T : c[y] = SumFunctionOnSet(col[y], S)
  BY DEF RowsAndColumns
<1> DEFINE R == [x \in S |-> SumFunctionOnSet(g[x], T)]
           C == [y \in T |-> SumFunctionOnSet([x \in S |-> g[x][y]], S)]
<1>1. SumFunctionOnSet(R, S) = SumFunctionOnSet(C, T)
  BY <1>0, SumSwap
<1>2. \A x \in S : R[x] \in Int /\ R[x] = r[x]
  BY <1>0, SumOrder
<1>3. ASSUME NEW y \in T  PROVE C[y] = c[y] /\ C[y] \in Int
  <2> DEFINE d == [x \in S |-> g[x][y]]
  <2>1. \A x \in S : d[x] \in Int /\ d[x] = col[y][x]
    BY <1>0
  <2>2. C[y] = SumFunctionOnSet(d, S)
    OBVIOUS
  <2>3. IsFiniteSet(S) /\ c[y] = SumFunctionOnSet(col[y], S)
    BY <1>0
  <2> HIDE DEF d, C
  <2> QED
    BY <2>1, <2>2, <2>3, SumSame, SumOrder
<1> HIDE DEF R, C
<1>4. SumFunctionOnSet(R, S) = SumFunctionOnSet(r, S) /\ SumFunctionOnSet(C, T) = SumFunctionOnSet(c, T)
  BY <1>0, <1>2, <1>3, SumSame
<1> QED
  BY <1>1, <1>4

\* S falls into classes, b has the class of each element; h has their sums.
InClasses(S, T, b, class, f, h) ==
    /\ IsFiniteSet(S) /\ IsFiniteSet(T)
    /\ \A x \in S : b[x] \in T
    /\ \A y \in T : class[y] \in SUBSET S
    /\ \A y \in T : \A x \in S : x \in class[y] <=> b[x] = y
    /\ \A x \in S : f[x] \in Int
    /\ \A y \in T : h[y] = SumFunctionOnSet(f, class[y])

\* A sum can be taken class by class.
LEMMA SumClasses ==
    ASSUME NEW S, NEW T, NEW b, NEW class, NEW f, NEW h, InClasses(S, T, b, class, f, h)
    PROVE  SumFunctionOnSet(f, S) = SumFunctionOnSet(h, T)
<1>0. /\ IsFiniteSet(S) /\ IsFiniteSet(T)
      /\ \A x \in S : b[x] \in T
      /\ \A y \in T : class[y] \in SUBSET S
      /\ \A y \in T : \A x \in S : x \in class[y] <=> b[x] = y
      /\ \A x \in S : f[x] \in Int
      /\ \A y \in T : h[y] = SumFunctionOnSet(f, class[y])
  BY DEF InClasses
<1> USE <1>0
<1> DEFINE g == [x \in S |-> [y \in T |-> IF b[x] = y THEN f[x] ELSE 0]]
           R == [x \in S |-> SumFunctionOnSet(g[x], T)]
           col == [y \in T |-> [x \in S |-> IF b[x] = y THEN f[x] ELSE 0]]
           C == [y \in T |-> SumFunctionOnSet(col[y], S)]
<1>1. /\ \A x \in S : \A y \in T : g[x][y] = (IF b[x] = y THEN f[x] ELSE 0)
      /\ \A x \in S : \A y \in T : g[x][y] \in Int
      /\ \A y \in T : \A x \in S : col[y][x] = g[x][y]
      /\ \A x \in S : R[x] = SumFunctionOnSet(g[x], T)
      /\ \A y \in T : C[y] = SumFunctionOnSet(col[y], S)
  OBVIOUS
<1> HIDE DEF g, R, col, C
<1>2. SumFunctionOnSet(R, S) = SumFunctionOnSet(C, T)
  <2>1. \A x \in S : \A y \in T : g[x][y] \in Int
    BY <1>1
  <2>2. \A y \in T : \A x \in S : col[y][x] = g[x][y]
    BY <1>1
  <2>3. \A x \in S : R[x] = SumFunctionOnSet(g[x], T)
    BY <1>1
  <2>4. \A y \in T : C[y] = SumFunctionOnSet(col[y], S)
    BY <1>1
  <2> QED
    <3>1. RowsAndColumns(S, T, g, col, R, C)
      BY <2>1, <2>2, <2>3, <2>4 DEF RowsAndColumns
    <3> QED
      BY <3>1, SumByColumns
<1>3. ASSUME NEW x \in S  PROVE R[x] = f[x]
  <2>1. {b[x]} \in SUBSET T /\ \A y \in T : g[x][y] \in Int
    BY <1>1
  <2>2. \A y \in T \ {b[x]} : g[x][y] = 0
    BY <1>1
  <2>3. SumFunctionOnSet(g[x], T) = SumFunctionOnSet(g[x], {b[x]})
    BY <2>1, <2>2, SumZeros
  <2>4. g[x][b[x]] = f[x] /\ g[x][b[x]] \in Int
    BY <1>1
  <2>5. SumFunctionOnSet(g[x], {b[x]}) = g[x][b[x]]
    BY <2>4, SumSingle
  <2> QED
    BY <1>1, <2>3, <2>4, <2>5
<1>4. ASSUME NEW y \in T  PROVE C[y] = h[y] /\ C[y] \in Int
  <2>1. \A x \in S : col[y][x] \in Int
    BY <1>1
  <2>2. class[y] \in SUBSET S /\ \A x \in S \ class[y] : col[y][x] = 0
    BY <1>1
  <2>3. SumFunctionOnSet(col[y], S) = SumFunctionOnSet(col[y], class[y])
    BY <2>1, <2>2, SumZeros
  <2>4. IsFiniteSet(class[y]) /\ \A x \in class[y] : col[y][x] \in Int /\ col[y][x] = f[x]
    BY <1>1, <2>2, FS_Subset
  <2>5. SumFunctionOnSet(col[y], class[y]) = SumFunctionOnSet(f, class[y])
    BY <2>4, SumSame
  <2>6. SumFunctionOnSet(col[y], S) \in Int
    BY <2>1, SumOrder
  <2> QED
    BY <1>1, <2>3, <2>5, <2>6
<1>5. SumFunctionOnSet(R, S) = SumFunctionOnSet(f, S)
  BY <1>3, SumSame
<1>6. SumFunctionOnSet(C, T) = SumFunctionOnSet(h, T)
  BY <1>4, SumSame
<1> QED
  BY <1>2, <1>5, <1>6

\* g has what f has of the n numbers after m.
ShiftedBy(m, n, f, g) ==
    m \in Int /\ n \in Nat /\ \A u \in 1 .. n : g[u] \in Int /\ f[m + u] = g[u]

\* A sum over an interval, counted from one.
LEMMA SumShift ==
    ASSUME NEW m, NEW n, NEW f, NEW g, ShiftedBy(m, n, f, g)
    PROVE  SumFunctionOnSet(f, m + 1 .. m + n) = SumFunctionOnSet(g, 1 .. n)
<1>0. m \in Int /\ n \in Nat /\ \A u \in 1 .. n : g[u] \in Int /\ f[m + u] = g[u]
  BY DEF ShiftedBy
<1> USE <1>0
<1> DEFINE S == m + 1 .. m + n
           T == 1 .. n
           b == [x \in S |-> x - m]
           class == [y \in T |-> {m + y}]
<1>1. IsFiniteSet(S) /\ IsFiniteSet(T)
  BY FS_Interval
<1>2. ASSUME NEW x \in S  PROVE b[x] \in T /\ f[x] \in Int
  <2>1. x - m \in T /\ m + (x - m) = x
    OBVIOUS
  <2>2. f[m + (x - m)] = g[x - m] /\ g[x - m] \in Int
    BY <2>1
  <2> QED
    BY <2>1, <2>2
<1>3. ASSUME NEW y \in T
      PROVE  class[y] = {m + y} /\ class[y] \in SUBSET S /\ \A x \in S : x \in class[y] <=> b[x] = y
  OBVIOUS
<1>4. \A y \in T : f[m + y] \in Int /\ f[m + y] = g[y]
  OBVIOUS
<1> HIDE DEF S, T, b, class
<1>5. ASSUME NEW y \in T  PROVE g[y] = SumFunctionOnSet(f, class[y])
  <2>1. SumFunctionOnSet(f, {m + y}) = f[m + y]
    BY <1>4, SumSingle
  <2>2. class[y] = {m + y} /\ f[m + y] = g[y]
    BY <1>3, <1>4
  <2> QED
    BY <2>1, <2>2
<1>6. InClasses(S, T, b, class, f, g)
  BY <1>1, <1>2, <1>3, <1>5 DEF InClasses
<1>7. SumFunctionOnSet(f, S) = SumFunctionOnSet(g, T)
  BY <1>6, SumClasses
<1> QED
  BY <1>7 DEF S, T

\* What grows by the summands, one by one, is their sum.
LEMMA SumSteps ==
    ASSUME NEW n \in Nat, NEW h, \A i \in 1 .. n : h[i] \in Int,
           NEW y, y[0] = 0, \A i \in 1 .. n : y[i] = y[i-1] + h[i]
    PROVE  y[n] = SumFunctionOnSet(h, 1 .. n)
<1> DEFINE Sum(m) == SumFunctionOnSet(h, 1 .. m)
           Bad == {m \in Nat : m <= n /\ ~ (y[m] = Sum(m))}
<1>1. Sum(0) = 0
  <2>1. 1 .. 0 = {}
    OBVIOUS
  <2> QED
    BY <2>1, SumEmpty
<1>2. ASSUME NEW m \in 1 .. n  PROVE Sum(m) = Sum(m - 1) + h[m]
  <2> DEFINE k == m - 1
  <2>1. k \in Nat /\ k + 1 = m /\ \A i \in 1 .. k + 1 : h[i] \in Int
    OBVIOUS
  <2> HIDE DEF k
  <2>2. SumFunctionOnSet(h, 1 .. k + 1) = SumFunctionOnSet(h, 1 .. k) + h[k+1]
    BY <2>1, SumAppend
  <2>3. Sum(m) = Sum(k) + h[m]
    BY <2>1, <2>2
  <2> QED
    BY <2>3 DEF k
<1>3. Bad = {}
  <2> SUFFICES ASSUME Bad # {}  PROVE FALSE
    OBVIOUS
  <2>1. PICK m \in Bad : \A k \in Bad : m <= k
    BY LeastNat
  <2>2. m # 0
    BY <1>1, <2>1
  <2>3. m \in 1 .. n /\ m - 1 \in Nat /\ m - 1 \notin Bad
    BY <2>1, <2>2
  <2> HIDE DEF Sum
  <2>4. y[m-1] = Sum(m - 1) /\ y[m] = y[m-1] + h[m]
    BY <2>3
  <2>5. y[m] = Sum(m)
    BY <1>2, <2>3, <2>4
  <2> QED
    BY <2>1, <2>5
<1> HIDE DEF Sum
<1>4. y[n] = Sum(n)
  BY <1>3
<1> QED
  BY <1>4 DEF Sum

\* n blocks, of d[1], d[2], ... elements: start has where they begin, h their sums.
InBlocks(n, d, start, f, h) ==
    /\ n \in Nat /\ \A i \in 1 .. n : d[i] \in Nat
    /\ SumsBefore(start, d, n)
    /\ \A x \in 1 .. start[n+1] : f[x] \in Int
    /\ \A i \in 1 .. n : h[i] = SumFunctionOnSet(f, start[i] + 1 .. start[i] + d[i])

\* A sum can be taken block by block.
LEMMA SumBlocks ==
    ASSUME NEW n, NEW d, NEW start, NEW f, NEW h, InBlocks(n, d, start, f, h)
    PROVE  SumFunctionOnSet(f, 1 .. start[n+1]) = SumFunctionOnSet(h, 1 .. n)
<1>0. /\ n \in Nat /\ \A i \in 1 .. n : d[i] \in Nat
      /\ SumsBefore(start, d, n)
      /\ \A x \in 1 .. start[n+1] : f[x] \in Int
      /\ \A i \in 1 .. n : h[i] = SumFunctionOnSet(f, start[i] + 1 .. start[i] + d[i])
  BY DEF InBlocks
<1> USE <1>0
<1> DEFINE Sum(g, m) == SumFunctionOnSet(g, 1 .. m)
<1>1. /\ start[1] = 0
      /\ \A i \in 1 .. n : start[i+1] = start[i] + d[i]
      /\ \A i \in 1 .. n + 1 : start[i] \in Nat
      /\ \A i, j \in 1 .. n + 1 : i <= j => start[i] <= start[j]
  BY RunningSums
<1>2. \A a, c \in Int : IsFiniteSet(a .. c)
  BY FS_Interval
<1>3. ASSUME NEW i \in 1 .. n
      PROVE  /\ h[i] \in Int /\ Sum(f, start[i]) \in Int
             /\ Sum(f, start[i+1]) = Sum(f, start[i]) + h[i]
  <2> DEFINE A == 1 .. start[i]
             B == start[i] + 1 .. start[i] + d[i]
  <2>1. /\ start[i] \in Nat /\ start[i+1] \in Nat /\ d[i] \in Nat /\ i + 1 \in 1 .. n + 1
        /\ start[i+1] = start[i] + d[i] /\ start[i+1] <= start[n+1] /\ start[n+1] \in Nat
    BY <1>1
  <2>2. IsFiniteSet(A) /\ IsFiniteSet(B)
    <3>1. start[i] \in Int /\ start[i] + 1 \in Int /\ start[i] + d[i] \in Int
      BY <2>1
    <3> QED
      BY <1>2, <3>1
  <2>3. A \cap B = {} /\ A \cup B = 1 .. start[i+1]
    BY <2>1
  <2>4. A \cup B \subseteq 1 .. start[n+1]
    BY <2>1
  <2>5. \A x \in A \cup B : f[x] \in Int
    BY <2>4
  <2>6. h[i] = SumFunctionOnSet(f, B) /\ Sum(f, start[i]) = SumFunctionOnSet(f, A)
    OBVIOUS
  <2> HIDE DEF A, B
  <2>7. SumFunctionOnSet(f, A \cup B) = SumFunctionOnSet(f, A) + SumFunctionOnSet(f, B)
    BY <2>2, <2>3, <2>5, SumUnion
  <2>8. Sum(f, start[i+1]) = SumFunctionOnSet(f, A) + SumFunctionOnSet(f, B)
    BY <2>3, <2>7, Zenon
  <2>9. SumFunctionOnSet(f, A) \in Int /\ SumFunctionOnSet(f, B) \in Int
    BY <2>2, <2>5, SumOrder
  <2> HIDE DEF Sum
  <2> QED
    BY <2>6, <2>8, <2>9
<1> DEFINE y == [i \in 0 .. n |-> Sum(f, start[i+1])]
<1>4. y[0] = 0
  <2>1. 1 .. start[1] = {}
    BY <1>1
  <2>2. Sum(f, start[1]) = 0
    BY <2>1, SumEmpty
  <2> HIDE DEF Sum
  <2> QED
    BY <2>2
<1>5. ASSUME NEW i \in 1 .. n  PROVE y[i] = y[i-1] + h[i]
  <2>1. i \in 0 .. n /\ i - 1 \in 0 .. n /\ (i - 1) + 1 = i
    OBVIOUS
  <2> HIDE DEF Sum
  <2>2. y[i] = Sum(f, start[i+1]) /\ y[i-1] = Sum(f, start[i])
    BY <2>1
  <2> HIDE DEF y
  <2> QED
    BY <1>3, <2>2
<1>6. y[n] = Sum(f, start[n+1])
  OBVIOUS
<1> HIDE DEF y
<1>7. y[n] = SumFunctionOnSet(h, 1 .. n)
  BY <1>3, <1>4, <1>5, SumSteps
<1> QED
  BY <1>6, <1>7

=============================================================================
