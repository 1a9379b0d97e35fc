------------------------- MODULE UserBatches_proofs -------------------------
(***************************************************************************)
(* Theorems about UserBatches, for all asset files and user files, any     *)
(* number of readers, tiers, assets and batches.                           *)
(***************************************************************************)
EXTENDS UserBatches, CollateralTiers_proofs, FiniteSetTheorems

----------------------------------------------------------------------------
(* One collateral value.                                                   *)

\* Every table of cexAssetInfo comes from a string that fits.
FromStrings ==
    \A a \in Assets : \A k \in Kinds :
        \E enc \in TierStrings :
            ~TooManyTiers(enc) /\ TiersParse(enc) /\ Tiers(a, k) = ParseTiersRatio(enc)

\* The reserved assets have no tiers at all.
LEMMA ReservedFromString ==
    ASSUME NEW k \in Kinds
    PROVE  /\ <<>> \in TierStrings /\ ~TooManyTiers(<<>>) /\ TiersParse(<<>>)
           /\ Parsed(Reserved).tiers[k] = ParseTiersRatio(<<>>)
<1>1. <<>> \in TierStrings /\ ~TooManyTiers(<<>>) /\ TiersParse(<<>>)
  BY TierCountAssumption, EmptySeq DEF TierStrings, TooManyTiers, TiersParse
<1>2. Parsed(Reserved).tiers[k] = ParseTiersRatio(<<>>)
  BY DEF Parsed, Reserved
<1> QED
  BY <1>1, <1>2

\* It holds of what the asset file is parsed into.
LEMMA ParsedFromStrings ==
    ASSUME cexFile \in Seq(AssetLines),
           \A enc \in Encodings : ~TooManyTiers(enc) /\ TiersParse(enc),
           NEW a \in Assets, NEW k \in Kinds
    PROVE  \E enc \in TierStrings :
               ~TooManyTiers(enc) /\ TiersParse(enc) /\ ParsedCex[a].tiers[k] = ParseTiersRatio(enc)
<1>1. CASE a < Len(cexFile)
  <2> DEFINE enc == cexFile[a+1].ratios[k]
  <2>1. Len(cexFile) \in Nat /\ a \in Int /\ a + 1 \in 1 .. Len(cexFile)
    BY <1>1, LenProperties DEF Assets
  <2>2. cexFile[a+1] \in AssetLines
    BY <2>1, ElementOfSeq
  <2>3. enc \in TierStrings
    BY <2>2 DEF AssetLines
  <2>4. enc \in Encodings
    BY <2>1 DEF Encodings
  <2>5. ParsedCex[a].tiers[k] = ParseTiersRatio(enc)
    BY <1>1 DEF ParsedCex, Parsed
  <2> HIDE DEF enc
  <2> QED
    BY <2>3, <2>4, <2>5
<1>2. CASE ~ (a < Len(cexFile))
  <2>1. ParsedCex[a] = Parsed(Reserved)
    BY <1>2 DEF ParsedCex
  <2> QED
    BY <2>1, ReservedFromString
<1> QED
  BY <1>1, <1>2

CexInv == cexFile \in Seq(AssetLines) /\ FromStrings

\* The asset information always comes from strings that fit.
LEMMA CexInvariant == Spec => []CexInv
<1>1. Init => CexInv
  <2> SUFFICES ASSUME Init  PROVE CexInv
    OBVIOUS
  <2>1. cexFile \in Seq(AssetLines) /\ \A a \in Assets : cex[a] = Parsed(Reserved)
    BY CexFilesAssumption DEF Init, LoadInit
  <2> QED
    BY <2>1, ReservedFromString DEF CexInv, FromStrings, Tiers
<1>2. CexInv /\ [Next]_vars => CexInv'
  <2> SUFFICES ASSUME CexInv, [Next]_vars  PROVE CexInv'
    OBVIOUS
  <2>1. CASE StartReaders
    <3>1. /\ cexFile' = cexFile /\ cex' = ParsedCex
          /\ \A enc \in Encodings : ~TooManyTiers(enc) /\ TiersParse(enc)
      BY <2>1 DEF StartReaders, inputs
    <3>2. ASSUME NEW a \in Assets, NEW k \in Kinds
          PROVE  \E enc \in TierStrings :
                     ~TooManyTiers(enc) /\ TiersParse(enc) /\ Tiers(a, k)' = ParseTiersRatio(enc)
      BY <3>1, ParsedFromStrings DEF CexInv, Tiers
    <3> QED
      BY <3>1, <3>2 DEF CexInv, FromStrings
  <2>2. CASE UNCHANGED <<cexFile, cex>>
    BY <2>2 DEF CexInv, FromStrings, Tiers
  <2>3. StartReaders \/ UNCHANGED <<cexFile, cex>>
    BY DEF Next, Load, Loader, Batches, Done, ReadFiles, Reader, StartPanics, StartFails,
           Merge, LoadFails, Loaded, End, Read, ReadPanic, Send, BuildTree, WriteBatch,
           WritePanics, Prove, ProveFails, vars, loadVars, inputs
  <2> QED
    BY <2>1, <2>2, <2>3
<1> QED
  BY <1>1, <1>2, PTL DEF Spec

\* However the asset file is filled in, a table that the circuit accepts has
\* one value for each collateral: the host, and whatever prover, come to what
\* the tiers define, which is at most the collateral.
THEOREM OneValue == Spec => []OneCollateralValue
<1>1. CexInv => OneCollateralValue
  <2> SUFFICES ASSUME CexInv,
                      NEW a \in Assets, NEW k \in Kinds, TiersValid(Tiers(a, k)),
                      NEW value \in SomeValues
               PROVE  /\ HostValue(Tiers(a, k), value) = DefinedValue(Tiers(a, k), value)
                      /\ DefinedValue(Tiers(a, k), value) <= value
                      /\ \A choice \in Claims :
                             ChoiceValid(CircuitTiers(Tiers(a, k)), value, choice) =>
                                 ChoiceValue(CircuitTiers(Tiers(a, k)), value, choice)
                                     = DefinedValue(Tiers(a, k), value)
    BY DEF OneCollateralValue
  <2>1. Tiers(a, k) \in Tables /\ Tiers(a, k) = CircuitTiers(Tiers(a, k))
    BY ParsedIsCircuit DEF CexInv, FromStrings
  <2>2. value \in Nat
    BY BoundaryAssumption DEF SomeValues
  <2>3. HostValue(Tiers(a, k), value) = DefinedValue(Tiers(a, k), value)
    BY <2>1, <2>2, HostIsDefined, ValidRising
  <2>4. DefinedValue(Tiers(a, k), value) <= value
    BY <2>1, <2>2, DefinedAtMostValue
  <2>5. ASSUME NEW choice \in Claims, ChoiceValid(CircuitTiers(Tiers(a, k)), value, choice)
        PROVE  ChoiceValue(CircuitTiers(Tiers(a, k)), value, choice)
                   = DefinedValue(Tiers(a, k), value)
    BY <2>1, <2>2, <2>5, AcceptedIsDefined
  <2> QED
    BY <2>3, <2>4, <2>5
<1> QED
  BY <1>1, CexInvariant, PTL

\* From the start of the readers on the tables are those of the asset file.
ReadStrings ==
    phase \notin {"start", "error", "panic"} =>
        /\ cex = ParsedCex
        /\ \A enc \in Encodings : TiersParse(enc) /\ ~TooManyTiers(enc)

\* It is always so.
LEMMA ReadInvariant == Spec => []ReadStrings
<1>1. Init => ReadStrings
  BY DEF Init, LoadInit, ReadStrings
<1>2. ReadStrings /\ [Next]_vars => ReadStrings'
  <2> SUFFICES ASSUME ReadStrings, [Next]_vars  PROVE ReadStrings'
    OBVIOUS
  <2>1. CASE StartReaders
    <3>1. UNCHANGED cexFile /\ cex' = ParsedCex
      BY <2>1 DEF StartReaders, inputs
    <3>2. ParsedCex' = ParsedCex /\ Encodings' = Encodings
      BY <3>1 DEF ParsedCex, Encodings
    <3> QED
      BY <2>1, <3>1, <3>2 DEF StartReaders, ReadStrings
  <2>2. CASE UNCHANGED <<cexFile, cex>> /\ (phase' = phase \/ phase' \in {"error", "panic"} \/ phase \in {"read", "loaded", "built"})
    <3>1. ParsedCex' = ParsedCex /\ Encodings' = Encodings
      BY <2>2 DEF ParsedCex, Encodings
    <3> QED
      BY <2>2, <3>1 DEF ReadStrings
  <2>3. \/ StartReaders
        \/ /\ UNCHANGED <<cexFile, cex>>
           /\ phase' = phase \/ phase' \in {"error", "panic"} \/ phase \in {"read", "loaded", "built"}
    BY DEF Next, Load, Loader, Batches, Done, ReadFiles, Reader, StartPanics, StartFails,
           Merge, LoadFails, Loaded, End, Read, ReadPanic, Send, BuildTree, WriteBatch,
           WritePanics, Prove, ProveFails, vars, loadVars, inputs
  <2> QED
    BY <2>1, <2>2, <2>3
<1> QED
  BY <1>1, <1>2, PTL DEF Spec

\* However the asset file is filled in, the host values every collateral as the
\* string of its tiers says, if that is consistent: the cut, the padding and the
\* sums computed once take nothing away.
THEOREM AsConfigured == Spec => []ValuedAsConfigured
<1>1. CexInv /\ ReadStrings => ValuedAsConfigured
  <2> SUFFICES ASSUME CexInv, ReadStrings, phase = "loaded",
                      NEW a \in Assets, a < Len(cexFile), NEW k \in Kinds,
                      Consistent(cexFile[a+1].ratios[k]), NEW value \in SomeValues
               PROVE  HostValue(Tiers(a, k), value) = ConfiguredValue(cexFile[a+1].ratios[k], value)
    BY DEF ValuedAsConfigured
  <2> DEFINE enc == cexFile[a+1].ratios[k]
  <2>1. a + 1 \in 1 .. Len(cexFile) /\ cexFile[a+1] \in AssetLines
    <3>1. Len(cexFile) \in Nat /\ a \in Nat /\ a + 1 \in 1 .. Len(cexFile)
      BY LenProperties DEF CexInv, Assets
    <3> QED
      BY <3>1, ElementOfSeq DEF CexInv
  <2>2. enc \in TierStrings /\ TiersParse(enc) /\ ~TooManyTiers(enc)
    <3>1. enc \in Encodings
      BY <2>1 DEF Encodings
    <3>2. enc \in TierStrings
      BY <2>1 DEF AssetLines
    <3> HIDE DEF enc
    <3> QED
      BY <3>1, <3>2 DEF ReadStrings
  <2>3. Tiers(a, k) = ParseTiersRatio(enc)
    BY DEF ReadStrings, ParsedCex, Parsed, Tiers
  <2>4. value \in Nat
    BY BoundaryAssumption DEF SomeValues
  <2> HIDE DEF enc
  <2>5. Consistent(enc)
    BY DEF enc
  <2>6. HostValue(ParseTiersRatio(enc), value) = ConfiguredValue(enc, value)
    BY <2>2, <2>4, <2>5, ParsedAsConfigured
  <2> QED
    BY <2>3, <2>6 DEF enc
<1> QED
  BY <1>1, CexInvariant, ReadInvariant, PTL

\* The tiers committed to are those that will be used: among all tables that
\* can be loaded, and all that have no greatest boundary in the wrong place, no
\* other has the commitment of a table in cexAssetInfo.
THEOREM CommitmentFixes == Spec => []CommitmentFixesTiers
<1>1. CexInv => CommitmentFixesTiers
  <2> SUFFICES ASSUME CexInv,
                      NEW tiers \in {Tiers(a, k) : a \in Assets, k \in Kinds},
                      NEW t \in SomeTables, PackedTables[t] = Packed(tiers)
               PROVE  \/ \A i \in 1 .. TierCount :
                             t[i].boundary = tiers[i].boundary /\ t[i].ratio = tiers[i].ratio
                      \/ ~Loadable(t) /\ (GreatestFirst(tiers) \/ GreatestFirst(t))
    BY DEF CommitmentFixesTiers
  <2>1. Packed(t) = Packed(tiers)
    BY DEF PackedTables
  <2>2. \A j \in 1 .. TierCount : Holds(t[j])
    <3>1. t \in [1 .. TierCount -> [boundary : 0 .. MaxTierBoundaryValue, ratio : {0, 1}]]
      BY DEF SomeTables
    <3> QED
      BY <3>1 DEF Holds, RatioValues
  <2>3. Loadable(tiers) /\ \A j \in 1 .. TierCount : Holds(tiers[j])
    BY ParsedLoadable DEF CexInv, FromStrings
  <2>4. CASE Loadable(t) \/ (~GreatestFirst(tiers) /\ ~GreatestFirst(t))
    <3>1. \A i \in 1 .. TierCount : t[i].boundary = tiers[i].boundary /\ t[i].ratio = tiers[i].ratio
      BY <2>1, <2>2, <2>3, <2>4, PackedFixes
    <3> QED
      BY <3>1
  <2>5. CASE ~Loadable(t) /\ (GreatestFirst(tiers) \/ GreatestFirst(t))
    BY <2>5
  <2> QED
    BY <2>4, <2>5
<1> QED
  BY <1>1, CexInvariant, PTL

----------------------------------------------------------------------------
(* The order of the results.                                               *)

\* The next turn of the merger.
LEMMA NextTurn ==
    ASSUME NEW n \in Nat
    PROVE  /\ n % WorkersNum \in Workers
           /\ (n + 1) % WorkersNum =
                  IF (n % WorkersNum) + 1 = WorkersNum THEN 0 ELSE (n % WorkersNum) + 1
<1> DEFINE W == WorkersNum
           t == n % W
           q == n \div W
           u == (n + 1) % W
           v == (n + 1) \div W
<1>1. W \in Nat \ {0}
  BY WorkersAssumption
<1>2. ASSUME NEW m \in Nat
      PROVE  m = (m % W) + (m \div W) * W /\ m % W \in 0 .. W - 1 /\ m \div W \in Nat
  BY <1>1
<1>3. n = t + q * W /\ t \in 0 .. W - 1 /\ q \in Nat
  BY <1>2
<1>4. n + 1 = u + v * W /\ u \in 0 .. W - 1 /\ v \in Nat
  BY <1>2
<1> HIDE DEF t, q, u, v
<1>5. \A y \in 0 .. W - 1 : \A z \in Nat : u + v * W = y + z * W => u = y
  <2> SUFFICES ASSUME NEW y \in 0 .. W - 1, NEW z \in Nat, u + v * W = y + z * W
               PROVE  u = y
    OBVIOUS
  <2> QED
    BY <1>1, <1>4, Digits
<1>6. CASE t + 1 = W
  <2>1. (q + 1) * W = q * W + W /\ q * W \in Nat
    BY <1>1, <1>3
  <2>2. n + 1 = 0 + (q + 1) * W /\ q + 1 \in Nat /\ 0 \in 0 .. W - 1
    BY <1>1, <1>3, <1>6, <2>1
  <2>3. u + v * W = 0 + (q + 1) * W
    BY <1>4, <2>2
  <2>4. u = 0
    BY <1>4, <1>5, <2>2, <2>3, Zenon
  <2> QED
    BY <1>3, <1>6, <2>4 DEF Workers, t, u
<1>7. CASE t + 1 # W
  <2>1. q * W \in Nat
    BY <1>1, <1>3
  <2>2. n + 1 = (t + 1) + q * W /\ t + 1 \in 0 .. W - 1
    BY <1>1, <1>3, <1>7, <2>1
  <2>3. u + v * W = (t + 1) + q * W
    BY <1>4, <2>2
  <2>4. u = t + 1
    BY <1>3, <1>4, <1>5, <2>2, <2>3, Zenon
  <2> QED
    BY <1>3, <1>7, <2>4 DEF Workers, t, u
<1> QED
  BY <1>6, <1>7

\* The first file of reader w whose result has not been merged.
Turn == Len(merged) % WorkersNum
Ahead(w) == IF w >= Turn THEN w - Turn ELSE w - Turn + WorkersNum
FirstDue(w) == Len(merged) + 1 + Ahead(w)

Result(i) == ReadFile(cex, files[i])
Results == {Result(i) : i \in 1 .. Len(files)}
Readable(i) == i \in 1 .. Len(files) /\ ~ReadPanics(cex, files[i])

LoadTypes ==
    /\ files \in Seq(Seq(UserRows))
    /\ next \in [Workers -> Nat]
    /\ held \in [Workers -> Seq(Results)] /\ results \in [Workers -> Seq(Results)]
    /\ merged \in Seq(Results)
    /\ phase \in {"start", "read", "loaded", "built", "error", "panic", "refused"}

NothingRead ==
    /\ merged = <<>>
    /\ \A w \in Workers : held[w] = <<>> /\ results[w] = <<>> /\ next[w] = w + 1

MergedRight ==
    /\ Len(merged) <= Len(files)
    /\ \A i \in 1 .. Len(merged) : merged[i] = Result(i) /\ Readable(i)

\* What reader w has read since is on its channel, then in its hands.
ReaderRight(w) ==
    /\ results[w] # <<>> => results[w] = <<Result(FirstDue(w))>> /\ Readable(FirstDue(w))
    /\ held[w] # <<>> =>
           held[w] = <<Result(next[w] - WorkersNum)>> /\ Readable(next[w] - WorkersNum)
    /\ next[w] = FirstDue(w) + (IF results[w] = <<>> THEN 0 ELSE WorkersNum)
                             + (IF held[w] = <<>> THEN 0 ELSE WorkersNum)

ReadersRight == \A w \in Workers : ReaderRight(w)

AllMerged == Len(merged) = Len(files) /\ ~Invalid

LoadInv ==
    /\ LoadTypes
    /\ phase = "start" => NothingRead
    /\ MergedRight
    /\ ReadersRight
    /\ phase \notin {"start", "read", "error", "panic"} => AllMerged

\* Before anything is read, the reader of a file is known by its number.
LEMMA NothingReadRight ==
    NothingRead /\ files \in Seq(Seq(UserRows)) => MergedRight /\ ReadersRight
<1> SUFFICES ASSUME NothingRead, files \in Seq(Seq(UserRows))
             PROVE  MergedRight /\ ReadersRight
  OBVIOUS
<1>1. Len(merged) = 0 /\ Len(files) \in Nat
  BY LenProperties DEF NothingRead
<1>2. WorkersNum \in Nat \ {0} /\ \A w \in Workers : w \in Nat
  BY WorkersAssumption DEF Workers
<1>3. Turn = 0
  BY <1>1, <1>2 DEF Turn
<1>4. \A w \in Workers : FirstDue(w) = w + 1
  BY <1>1, <1>2, <1>3 DEF FirstDue, Ahead
<1>5. MergedRight
  BY <1>1 DEF MergedRight
<1>6. ReadersRight
  BY <1>2, <1>4 DEF ReadersRight, ReaderRight, NothingRead
<1> QED
  BY <1>5, <1>6

\* The invariant holds when the process starts.
LEMMA LoadStarts == Init => LoadInv
<1> SUFFICES ASSUME Init  PROVE LoadInv
  OBVIOUS
<1>1. files \in Seq(Seq(UserRows)) /\ phase = "start"
  BY DataSetsAssumption DEF Init, LoadInit
<1>2. NothingRead
  BY DEF Init, LoadInit, NothingRead
<1>3. LoadTypes
  <2>1. <<>> \in Seq(Results)
    BY EmptySeq
  <2>2. \A w \in Workers : w + 1 \in Nat
    BY DEF Workers
  <2> QED
    BY <1>1, <2>1, <2>2 DEF LoadTypes, Init, LoadInit
<1> QED
  BY <1>1, <1>2, <1>3, NothingReadRight DEF LoadInv

\* A reader that is not merged from is one file nearer to its turn, the one
\* that is has a round to wait.
LEMMA AheadAfterMerge ==
    ASSUME merged \in Seq(Results), merged' \in Seq(Results'), Len(merged') = Len(merged) + 1,
           NEW w \in Workers
    PROVE  /\ FirstDue(w) \in Nat \ {0}
           /\ FirstDue(Turn) = Len(merged) + 1 /\ Turn \in Workers
           /\ FirstDue(w)' = IF w = Turn THEN FirstDue(w) + WorkersNum ELSE FirstDue(w)
<1>1. Len(merged) \in Nat /\ w \in Int /\ w >= 0 /\ w < WorkersNum /\ WorkersNum \in Nat \ {0}
  BY WorkersAssumption, LenProperties DEF Workers
<1>2. Turn \in Workers /\ Turn' = IF Turn + 1 = WorkersNum THEN 0 ELSE Turn + 1
  BY <1>1, NextTurn DEF Turn
<1>3. Turn \in Int /\ Turn >= 0 /\ Turn < WorkersNum
  BY <1>1, <1>2 DEF Workers
<1> HIDE DEF Turn
<1>4. FirstDue(w) = Len(merged) + 1 + (IF w >= Turn THEN w - Turn ELSE w - Turn + WorkersNum)
  BY DEF FirstDue, Ahead
<1>5. FirstDue(w)' =
          Len(merged) + 1 + 1 + (IF w >= Turn' THEN w - Turn' ELSE w - Turn' + WorkersNum)
  BY DEF FirstDue, Ahead
<1>6. FirstDue(Turn) = Len(merged) + 1
  BY <1>1, <1>3 DEF FirstDue, Ahead
<1>7. FirstDue(w) \in Nat \ {0}
  BY <1>1, <1>3, <1>4
<1>8. FirstDue(w)' = IF w = Turn THEN FirstDue(w) + WorkersNum ELSE FirstDue(w)
  BY <1>1, <1>2, <1>3, <1>4, <1>5
<1> QED
  BY <1>2, <1>6, <1>7, <1>8

\* The definitions above depend on these variables only.
LEMMA SameLoad ==
    ASSUME UNCHANGED <<files, cex, next, held, results, merged>>
    PROVE  /\ MergedRight' = MergedRight
           /\ ReadersRight' = ReadersRight
           /\ NothingRead' = NothingRead /\ AllMerged' = AllMerged /\ Results' = Results
BY DEF MergedRight, ReadersRight, ReaderRight, NothingRead, AllMerged, Invalid, Results, Result, Readable,
       FirstDue, Ahead, Turn

\* A step that leaves what is read alone and does not get past loading, or
\* comes after it.
LEMMA PhaseStep ==
    ASSUME LoadInv, UNCHANGED <<files, cex, next, held, results, merged>>,
           phase' \in {phase, "loaded", "built", "error", "panic", "refused"},
           phase' \in {"error", "panic", phase} \/ AllMerged
    PROVE  LoadInv'
<1>1. LoadTypes'
  BY SameLoad DEF LoadInv, LoadTypes
<1>2. phase' = "start" => phase = "start"
  OBVIOUS
<1>3. phase' \notin {"start", "read", "error", "panic"} => AllMerged
  BY DEF LoadInv
<1> QED
  BY <1>1, <1>2, <1>3, SameLoad DEF LoadInv

\* The readers start: nothing is read yet.
LEMMA StartStep == ASSUME LoadInv, StartReaders  PROVE LoadInv'
<1>1. /\ phase = "start" /\ phase' = "read"
      /\ UNCHANGED <<files, next, held, results, merged>>
  BY DEF StartReaders, inputs, readVars
<1>2. NothingRead'
  BY <1>1 DEF LoadInv, NothingRead
<1>3. (files \in Seq(Seq(UserRows)))' /\ next' \in [Workers -> Nat]
  BY <1>1 DEF LoadInv, LoadTypes
<1>4. MergedRight' /\ ReadersRight'
  BY <1>2, <1>3, NothingReadRight, PTL
<1>5. LoadTypes'
  <2>1. <<>> \in Seq(Results')
    BY EmptySeq
  <2>2. held' = [w \in Workers |-> <<>>] /\ results' = [w \in Workers |-> <<>>] /\ merged' = <<>>
    BY <1>1 DEF LoadInv, LoadTypes, NothingRead
  <2> QED
    BY <1>1, <1>3, <2>1, <2>2 DEF LoadTypes
<1> QED
  BY <1>1, <1>4, <1>5 DEF LoadInv

\* A reader reads its next file.
LEMMA ReadStep == ASSUME LoadInv, NEW w \in Workers, Read(w)  PROVE LoadInv'
<1>1. /\ phase = "read" /\ phase' = phase /\ held[w] = <<>> /\ next[w] <= Len(files)
      /\ ~ReadPanics(cex, files[next[w]])
      /\ held' = [held EXCEPT ![w] = <<Result(next[w])>>]
      /\ next' = [next EXCEPT ![w] = next[w] + WorkersNum]
      /\ UNCHANGED <<files, cex, results, merged>>
  BY DEF Read, Advance, Result, inputs
<1>2. Len(merged) \in Nat /\ Len(files) \in Nat /\ WorkersNum \in Nat \ {0} /\ next[w] \in Nat
  BY WorkersAssumption, LenProperties DEF LoadInv, LoadTypes
<1>3. /\ FirstDue(w) \in Nat \ {0}
      /\ next[w] = FirstDue(w) + (IF results[w] = <<>> THEN 0 ELSE WorkersNum) + 0
  <2>1. Turn \in Workers
    BY <1>2, NextTurn DEF Turn
  <2>2. FirstDue(w) \in Nat \ {0}
    BY <1>2, <2>1 DEF FirstDue, Ahead, Workers
  <2> QED
    BY <1>1, <2>2 DEF LoadInv, ReadersRight, ReaderRight
<1>4. Readable(next[w])
  BY <1>1, <1>2, <1>3 DEF Readable
<1>5. ASSUME NEW v \in Workers  PROVE FirstDue(v)' = FirstDue(v)
  BY <1>1 DEF FirstDue, Ahead, Turn
<1>6. \A i : Result(i)' = Result(i) /\ Readable(i)' = Readable(i)
  BY <1>1 DEF Result, Readable
<1>7. Results' = Results
  BY <1>1 DEF Results, Result
<1>8. LoadTypes'
  <2>1. Result(next[w]) \in Results
    BY <1>4 DEF Results, Readable
  <2>2. <<Result(next[w])>> \in Seq(Results)
    BY <2>1
  <2>3. next[w] + WorkersNum \in Nat
    BY <1>2
  <2> QED
    BY <1>1, <1>7, <2>2, <2>3 DEF LoadInv, LoadTypes
<1>9. MergedRight'
  BY <1>1, <1>6 DEF LoadInv, MergedRight
<1>10. ASSUME NEW v \in Workers  PROVE ReaderRight(v)'
  <2>1. CASE v = w
    <3>1. held'[w] = <<Result(next[w])>> /\ next'[w] = next[w] + WorkersNum
      BY <1>1 DEF LoadInv, LoadTypes
    <3>2. next'[w] - WorkersNum = next[w] /\ held'[w] # <<>>
      BY <1>2, <3>1
    <3>3. results[w] # <<>> => results[w] = <<Result(FirstDue(w))>> /\ Readable(FirstDue(w))
      BY DEF LoadInv, ReadersRight, ReaderRight
    <3>4. next'[w] = FirstDue(w) + (IF results[w] = <<>> THEN 0 ELSE WorkersNum) + WorkersNum
      BY <1>2, <1>3, <3>1
    <3> QED
      BY <1>1, <1>4, <1>5, <1>6, <2>1, <3>1, <3>2, <3>3, <3>4 DEF ReaderRight
  <2>2. CASE v # w
    <3>1. held'[v] = held[v] /\ next'[v] = next[v] /\ results'[v] = results[v]
      BY <1>1, <2>2 DEF LoadInv, LoadTypes
    <3>2. ReaderRight(v)
      BY DEF LoadInv, ReadersRight
    <3> QED
      BY <1>1, <1>5, <1>6, <3>1, <3>2 DEF ReaderRight
  <2> QED
    BY <2>1, <2>2
<1> QED
  BY <1>1, <1>8, <1>9, <1>10 DEF LoadInv, ReadersRight

\* A reader sends what it has read.
LEMMA SendStep == ASSUME LoadInv, NEW w \in Workers, Send(w)  PROVE LoadInv'
<1>1. /\ phase = "read" /\ phase' = phase /\ held[w] # <<>> /\ results[w] = <<>>
      /\ results' = [results EXCEPT ![w] = held[w]]
      /\ held' = [held EXCEPT ![w] = <<>>]
      /\ UNCHANGED <<files, cex, next, merged>>
  BY DEF Send, inputs
<1>2. Len(merged) \in Nat /\ WorkersNum \in Nat \ {0}
  BY WorkersAssumption, LenProperties DEF LoadInv, LoadTypes
<1>3. /\ held[w] = <<Result(next[w] - WorkersNum)>> /\ Readable(next[w] - WorkersNum)
      /\ next[w] = FirstDue(w) + 0 + WorkersNum
  BY <1>1 DEF LoadInv, ReadersRight, ReaderRight
<1>4. next[w] - WorkersNum = FirstDue(w) /\ next[w] = FirstDue(w) + WorkersNum + 0
  <2>1. Turn \in Workers
    BY <1>2, NextTurn DEF Turn
  <2>2. FirstDue(w) \in Nat
    BY <1>2, <2>1 DEF FirstDue, Ahead, Workers
  <2> QED
    BY <1>2, <1>3, <2>2
<1>5. ASSUME NEW v \in Workers  PROVE FirstDue(v)' = FirstDue(v)
  BY <1>1 DEF FirstDue, Ahead, Turn
<1>6. \A i : Result(i)' = Result(i) /\ Readable(i)' = Readable(i)
  BY <1>1 DEF Result, Readable
<1>7. Results' = Results
  BY <1>1 DEF Results, Result
<1>8. LoadTypes'
  <2>1. <<>> \in Seq(Results)
    BY EmptySeq
  <2> QED
    BY <1>1, <1>7, <2>1 DEF LoadInv, LoadTypes
<1>9. MergedRight'
  BY <1>1, <1>6 DEF LoadInv, MergedRight
<1>10. ASSUME NEW v \in Workers  PROVE ReaderRight(v)'
  <2>1. CASE v = w
    <3>1. held'[w] = <<>> /\ results'[w] = <<Result(FirstDue(w))>> /\ next'[w] = next[w]
      BY <1>1, <1>3, <1>4 DEF LoadInv, LoadTypes
    <3>2. results'[w] # <<>> /\ Readable(FirstDue(w))
      BY <1>3, <1>4, <3>1
    <3>3. next'[w] = FirstDue(w) + WorkersNum + 0
      BY <1>4, <3>1
    <3> QED
      BY <1>5, <1>6, <2>1, <3>1, <3>2, <3>3 DEF ReaderRight
  <2>2. CASE v # w
    <3>1. held'[v] = held[v] /\ next'[v] = next[v] /\ results'[v] = results[v]
      BY <1>1, <2>2 DEF LoadInv, LoadTypes
    <3>2. ReaderRight(v)
      BY DEF LoadInv, ReadersRight
    <3> QED
      BY <1>5, <1>6, <3>1, <3>2 DEF ReaderRight
  <2> QED
    BY <2>1, <2>2
<1> QED
  BY <1>1, <1>8, <1>9, <1>10 DEF LoadInv, ReadersRight

\* The merger takes the result whose turn it is.
LEMMA MergeStep == ASSUME LoadInv, Merge  PROVE LoadInv'
<1>1. /\ phase = "read" /\ phase' = phase /\ Len(merged) < Len(files) /\ results[Turn] # <<>>
      /\ merged' = Append(merged, Head(results[Turn]))
      /\ results' = [results EXCEPT ![Turn] = <<>>]
      /\ UNCHANGED <<files, cex, next, held>>
  BY DEF Merge, Turn, inputs
<1>2. /\ Len(merged) \in Nat /\ Len(files) \in Nat /\ WorkersNum \in Nat \ {0}
      /\ merged \in Seq(Results)
  BY WorkersAssumption, LenProperties DEF LoadInv, LoadTypes
<1>3. Turn \in Workers
  BY <1>2, NextTurn DEF Turn
<1>4. FirstDue(Turn) = Len(merged) + 1
  BY <1>2, <1>3 DEF FirstDue, Ahead, Workers
<1>5. results[Turn] = <<Result(Len(merged) + 1)>> /\ Readable(Len(merged) + 1)
  BY <1>1, <1>3, <1>4 DEF LoadInv, ReadersRight, ReaderRight
<1>6. merged' = Append(merged, Result(Len(merged) + 1))
  BY <1>1, <1>5
<1>7. Result(Len(merged) + 1) \in Results
  BY <1>5 DEF Results, Readable
<1>8. /\ merged' \in Seq(Results) /\ Len(merged') = Len(merged) + 1
      /\ \A i \in 1 .. Len(merged) : merged'[i] = merged[i]
      /\ merged'[Len(merged) + 1] = Result(Len(merged) + 1)
  <2> HIDE DEF Result, Results
  <2> QED
    BY <1>2, <1>6, <1>7
<1>9. \A i : Result(i)' = Result(i) /\ Readable(i)' = Readable(i)
  BY <1>1 DEF Result, Readable
<1>10. Results' = Results
  BY <1>1 DEF Results, Result
<1>11. LoadTypes'
  <2>1. <<>> \in Seq(Results)
    BY EmptySeq
  <2> QED
    BY <1>1, <1>8, <1>10, <2>1 DEF LoadInv, LoadTypes
<1>12. MergedRight'
  <2>1. Len(merged') <= Len(files')
    BY <1>1, <1>2, <1>8
  <2>2. ASSUME NEW i \in 1 .. Len(merged')  PROVE merged'[i] = Result(i) /\ Readable(i)
    <3>1. CASE i = Len(merged) + 1
      BY <1>5, <1>8, <3>1
    <3>2. CASE i # Len(merged) + 1
      <4>1. i \in 1 .. Len(merged)
        BY <1>2, <1>8, <3>2
      <4> QED
        BY <1>8, <4>1 DEF LoadInv, MergedRight
    <3> QED
      BY <3>1, <3>2
  <2> QED
    BY <1>9, <2>1, <2>2 DEF MergedRight
<1>13. ASSUME NEW v \in Workers  PROVE ReaderRight(v)'
  <2>1. /\ FirstDue(v) \in Nat \ {0}
        /\ FirstDue(v)' = IF v = Turn THEN FirstDue(v) + WorkersNum ELSE FirstDue(v)
    BY <1>2, <1>8, <1>10, AheadAfterMerge
  <2>2. ReaderRight(v)
    BY DEF LoadInv, ReadersRight
  <2>3. CASE v = Turn
    <3>1. results'[v] = <<>> /\ results[v] # <<>> /\ held'[v] = held[v] /\ next'[v] = next[v]
      BY <1>1, <2>3 DEF LoadInv, LoadTypes
    <3>2. next[v] = FirstDue(v) + WorkersNum + (IF held[v] = <<>> THEN 0 ELSE WorkersNum)
      BY <2>2, <3>1 DEF ReaderRight
    <3>3. next'[v] = FirstDue(v)' + 0 + (IF held'[v] = <<>> THEN 0 ELSE WorkersNum)
      BY <1>2, <2>1, <2>3, <3>1, <3>2
    <3> QED
      BY <1>9, <2>2, <3>1, <3>3 DEF ReaderRight
  <2>4. CASE v # Turn
    <3>1. results'[v] = results[v] /\ held'[v] = held[v] /\ next'[v] = next[v]
      BY <1>1, <2>4 DEF LoadInv, LoadTypes
    <3> QED
      BY <1>9, <2>1, <2>2, <2>4, <3>1 DEF ReaderRight
  <2> QED
    BY <2>3, <2>4
<1> QED
  BY <1>1, <1>11, <1>12, <1>13 DEF LoadInv, ReadersRight

\* The invariant of loading.
LEMMA LoadInvariant == Spec => []LoadInv
<1>1. LoadInv /\ [Next]_vars => LoadInv'
  <2> SUFFICES ASSUME LoadInv, [Next]_vars  PROVE LoadInv'
    OBVIOUS
  <2>1. CASE StartReaders
    BY <2>1, StartStep
  <2>2. CASE Merge
    BY <2>2, MergeStep
  <2>3. CASE \E w \in Workers : Read(w) \/ Send(w)
    BY <2>3, ReadStep, SendStep
  <2>4. CASE StartPanics \/ StartFails \/ LoadFails \/ \E w \in Workers : ReadPanic(w)
    <3>1. UNCHANGED <<files, cex, next, held, results, merged>> /\ phase' \in {"error", "panic"}
      BY <2>4 DEF StartPanics, StartFails, LoadFails, ReadPanic, End, inputs, readVars
    <3> QED
      BY <3>1, PhaseStep
  <2>5. CASE Loaded
    <3>1. /\ UNCHANGED <<files, cex, next, held, results, merged>> /\ phase' = "loaded"
          /\ AllMerged
      BY <2>5 DEF Loaded, End, inputs, readVars, AllMerged
    <3> QED
      BY <3>1, PhaseStep
  <2>6. CASE Batches
    <3>1. /\ UNCHANGED <<files, cex, next, held, results, merged>>
          /\ phase \in {"loaded", "built"} /\ phase' \in {phase, "built", "panic", "refused"}
      BY <2>6 DEF Batches, BuildTree, WriteBatch, WritePanics, Prove, ProveFails, More,
                  loadVars, inputs, readVars
    <3>2. AllMerged
      BY <3>1 DEF LoadInv
    <3> QED
      BY <3>1, <3>2, PhaseStep
  <2>7. CASE UNCHANGED vars
    <3>1. UNCHANGED <<files, cex, next, held, results, merged>> /\ phase' = phase
      BY <2>7 DEF vars, loadVars, inputs, readVars
    <3> QED
      BY <3>1, PhaseStep
  <2> QED
    BY <2>1, <2>2, <2>3, <2>4, <2>5, <2>6, <2>7
    DEF Next, Load, Loader, Done, ReadFiles, Reader
<1> QED
  BY <1>1, LoadStarts, PTL DEF Spec

\* Whatever the order in which any number of readers read, the accounts are
\* merged in the order of the files.
THEOREM InOrder == Spec => []MergedInOrder
<1>1. LoadInv => MergedInOrder
  BY DEF LoadInv, MergedRight, Result, MergedInOrder
<1> QED
  BY <1>1, LoadInvariant, PTL

----------------------------------------------------------------------------
(* Invalid accounts.                                                       *)

\* A row makes the process panic, is counted as invalid, or is valid.
LEMMA Outcomes ==
    ASSUME NEW row \in UserRows
    PROVE  RowOutcome(cex, row) \in {"panic", "invalid", "valid"}
<1>1. CASE Problems(row) # {}
  <2>1. Problems(row) \subseteq Nat
    <3>1. Len(row.columns) \in Nat
      BY LenProperties DEF UserRows, Columns
    <3> QED
      BY <3>1 DEF Problems, ColumnsOf
  <2>2. \E m \in Problems(row) : \A n \in Problems(row) : m <= n
    BY <1>1, <2>1, LeastNat
  <2>3. Min(Problems(row)) \in Problems(row)
    BY <2>2 DEF Min
  <2>4. Problem(row, Min(Problems(row))) # "none"
    BY <2>3 DEF Problems
  <2>5. \A a : Problem(row, a) \in {"panic", "invalid", "none"}
    BY DEF Problem
  <2> QED
    BY <1>1, <2>4, <2>5 DEF RowOutcome
<1>2. CASE Problems(row) = {}
  BY <1>2 DEF RowOutcome
<1> QED
  BY <1>1, <1>2

\* A file whose result counts no invalid account, and whose reader did not
\* panic, has valid rows only.
LEMMA ValidFile ==
    ASSUME NEW file \in Seq(UserRows), ~ReadPanics(cex, file),
           ~ (ReadFile(cex, file).invalid > 0), NEW j \in 1 .. Len(file)
    PROVE  RowOutcome(cex, file[j]) = "valid"
<1>1. Len(file) \in Nat /\ file[j] \in UserRows
  BY LenProperties, ElementOfSeq
<1>2. RowsWith(cex, file, "panic") = {}
  BY DEF ReadPanics
<1>3. RowsWith(cex, file, "invalid") = {}
  <2> DEFINE bad == RowsWith(cex, file, "invalid")
  <2>1. bad \subseteq 1 .. Len(file)
    BY DEF RowsWith
  <2>2. IsFiniteSet(1 .. Len(file))
    BY <1>1, FS_Interval
  <2>3. IsFiniteSet(bad)
    BY <2>1, <2>2, FS_Subset
  <2>4. Cardinality(bad) \in Nat /\ (Cardinality(bad) = 0 <=> bad = {})
    BY <2>3, FS_CardinalityType, FS_EmptySet
  <2>5. ~ (Cardinality(bad) > 0)
    BY DEF ReadFile
  <2> HIDE DEF bad
  <2>6. bad = {}
    BY <2>4, <2>5
  <2> QED
    BY <2>6 DEF bad
<1>4. RowOutcome(cex, file[j]) # "panic" /\ RowOutcome(cex, file[j]) # "invalid"
  BY <1>2, <1>3 DEF RowsWith
<1> QED
  BY <1>1, <1>4, Outcomes

\* When everything is merged, every row of every file is valid.
LEMMA MergedValid ==
    ASSUME LoadInv, AllMerged, NEW i \in 1 .. Len(files), NEW j \in 1 .. Len(files[i])
    PROVE  RowOutcome(cex, files[i][j]) = "valid"
<1>1. i \in 1 .. Len(merged) /\ ~Invalid
  BY DEF AllMerged
<1>2. merged[i] = ReadFile(cex, files[i]) /\ ~ReadPanics(cex, files[i])
  BY <1>1 DEF LoadInv, MergedRight, Result, Readable
<1>3. ~ (ReadFile(cex, files[i]).invalid > 0)
  BY <1>1, <1>2 DEF Invalid
<1>4. files[i] \in Seq(UserRows)
  BY ElementOfSeq DEF LoadInv, LoadTypes
<1> QED
  BY <1>2, <1>3, <1>4, ValidFile

\* Past loading, no row of any file is invalid.
THEOREM AllValid == Spec => []LoadedAllValid
<1>1. LoadInv => LoadedAllValid
  BY MergedValid DEF LoadInv, LoadedAllValid
<1> QED
  BY <1>1, LoadInvariant, PTL

----------------------------------------------------------------------------
(* Types.                                                                  *)

BatchTypes ==
    /\ TotalsFit(totals)
    /\ proved \in 0 .. Len(rows)
    /\ \E S : rows \in Seq(S)

\* A result at a time: the readers wait for the merger.
LEMMA ShortChannels ==
    ASSUME LoadInv
    PROVE  \A w \in Workers : Len(held[w]) <= 1 /\ Len(results[w]) <= 1
<1> SUFFICES ASSUME NEW w \in Workers  PROVE Len(held[w]) <= 1 /\ Len(results[w]) <= 1
  OBVIOUS
<1>1. ReaderRight(w)
  BY DEF LoadInv, ReadersRight
<1>2. ASSUME NEW channel, channel = <<>> \/ \E r : channel = <<r>>
      PROVE  Len(channel) <= 1
  <2>1. Len(<<>>) = 0 /\ \A r : Len(<<r>>) = 1
    OBVIOUS
  <2>2. Len(channel) = 0 \/ Len(channel) = 1
    BY <1>2, <2>1, Zenon
  <2>3. 0 <= 1 /\ 1 <= 1
    OBVIOUS
  <2> QED
    BY <2>2, <2>3, Zenon
<1>3. held[w] = <<>> \/ \E r : held[w] = <<r>>
  BY <1>1 DEF ReaderRight
<1>4. results[w] = <<>> \/ \E r : results[w] = <<r>>
  BY <1>1 DEF ReaderRight
<1> QED
  BY <1>2, <1>3, <1>4

\* The totals fit into 64 bits, and only batches that are written are proved.
LEMMA BatchTypesInvariant == Spec => []BatchTypes
<1>1. Init => BatchTypes
  <2> SUFFICES ASSUME Init  PROVE BatchTypes
    OBVIOUS
  <2>1. rows = <<>> /\ proved = 0 /\ \A a \in Assets : totals[a] = NoAmounts
    BY DEF Init
  <2>2. TotalsFit(totals)
    BY <2>1, MaxUintAssumption DEF TotalsFit, AmountsFit, NoAmounts
  <2>3. rows \in Seq({}) /\ Len(rows) = 0
    BY <2>1, EmptySeq
  <2> QED
    BY <2>1, <2>2, <2>3 DEF BatchTypes
<1>2. BatchTypes /\ [Next]_vars => BatchTypes'
  <2> SUFFICES ASSUME BatchTypes, [Next]_vars  PROVE BatchTypes'
    OBVIOUS
  <2>1. CASE WriteBatch
    <3> DEFINE row == [ops |-> NextOps, before |-> totals, after |-> totals']
    <3>1. PICK S : rows \in Seq(S)
      BY DEF BatchTypes
    <3>2. rows' = Append(rows, row) /\ proved' = proved
      BY <2>1 DEF WriteBatch
    <3>3. TotalsFit(totals')
      BY <2>1 DEF WriteBatch
    <3> HIDE DEF row
    <3>4. rows \in Seq(S \cup {row}) /\ row \in S \cup {row}
      BY <3>1, SeqMonotonic
    <3>5. rows' \in Seq(S \cup {row}) /\ Len(rows') = Len(rows) + 1 /\ Len(rows) \in Nat
      BY <3>2, <3>4, LenProperties
    <3> QED
      BY <3>2, <3>3, <3>5 DEF BatchTypes, TotalsFit
  <2>2. CASE Prove
    BY <2>2 DEF Prove, BatchTypes, TotalsFit
  <2>3. CASE UNCHANGED <<totals, rows, proved>>
    BY <2>3 DEF BatchTypes, TotalsFit
  <2>4. WriteBatch \/ Prove \/ UNCHANGED <<totals, rows, proved>>
    BY DEF Next, Load, Batches, Done, ReadFiles, BuildTree, WritePanics, ProveFails,
           vars, batchVars
  <2> QED
    BY <2>1, <2>2, <2>3, <2>4
<1> QED
  BY <1>1, <1>2, PTL DEF Spec

\* The type invariant.
THEOREM Types == Spec => []TypeOK
<1>1. LoadInv /\ BatchTypes => TypeOK
  BY ShortChannels DEF LoadInv, LoadTypes, BatchTypes, TypeOK
<1> QED
  BY <1>1, LoadInvariant, BatchTypesInvariant, PTL

----------------------------------------------------------------------------
(* Lists of lists.                                                         *)

\* f flattens the first 1, 2, ... parts of a list of lists.
Flattens(f, seqs, n) ==
    f = [i \in 1 .. n |-> IF i = 1 THEN seqs[i] ELSE f[i-1] \o seqs[i]]

\* The recursion of FlattenSeq has a solution.
LEMMA FlattensExist ==
    ASSUME NEW seqs, NEW n \in Nat
    PROVE  \E f : Flattens(f, seqs, n)
<1> DEFINE S == {m \in Nat : ~ \E f : Flattens(f, seqs, m)}
<1> SUFFICES ASSUME S # {}  PROVE FALSE
  OBVIOUS
<1>1. PICK m \in S : \A k \in S : m <= k
  BY LeastNat
<1>2. m # 0
  <2> DEFINE g == [i \in 1 .. 0 |-> seqs[i]]
  <2>1. Flattens(g, seqs, 0)
    BY DEF Flattens
  <2> QED
    BY <2>1, <1>1
<1>3. m - 1 \in Nat /\ m - 1 \notin S
  BY <1>1, <1>2
<1>4. PICK f : Flattens(f, seqs, m - 1)
  BY <1>3
<1> DEFINE g == [i \in 1 .. m |-> IF i < m THEN f[i] ELSE IF i = 1 THEN seqs[i] ELSE f[m-1] \o seqs[m]]
<1>5. ASSUME NEW i \in 1 .. m
      PROVE  g[i] = IF i = 1 THEN seqs[i] ELSE g[i-1] \o seqs[i]
  <2>1. CASE i < m
    <3>1. i \in 1 .. m - 1 /\ g[i] = f[i] /\ (i # 1 => g[i-1] = f[i-1])
      BY <1>1, <2>1
    <3>2. f[i] = IF i = 1 THEN seqs[i] ELSE f[i-1] \o seqs[i]
      BY <1>4, <3>1 DEF Flattens
    <3> QED
      BY <3>1, <3>2
  <2>2. CASE ~ (i < m)
    <3>1. i = m /\ (i # 1 => g[i-1] = f[m-1])
      BY <1>1, <2>2
    <3>2. g[i] = IF i = 1 THEN seqs[i] ELSE f[m-1] \o seqs[m]
      BY <3>1
    <3> QED
      BY <3>1, <3>2
  <2> QED
    BY <2>1, <2>2
<1>6. Flattens(g, seqs, m)
  <2>1. g = [i \in 1 .. m |-> g[i]]
    OBVIOUS
  <2> HIDE DEF g
  <2>2. g = [i \in 1 .. m |-> IF i = 1 THEN seqs[i] ELSE g[i-1] \o seqs[i]]
    BY <1>5, <2>1
  <2> QED
    BY <2>2 DEF Flattens
<1> QED
  BY <1>6, <1>1

\* What is flattened so far is the next part longer each time.
LEMMA FlattenIs ==
    ASSUME NEW S, NEW seqs \in Seq(Seq(S))
    PROVE  \E g \in [0 .. Len(seqs) -> Seq(S)] :
               /\ g[0] = <<>>
               /\ \A i \in 1 .. Len(seqs) : g[i] = g[i-1] \o seqs[i]
               /\ g[Len(seqs)] = FlattenSeq(seqs)
<1>1. Len(seqs) \in Nat /\ \A i \in 1 .. Len(seqs) : seqs[i] \in Seq(S)
  BY LenProperties, ElementOfSeq
<1>2. <<>> \in Seq(S)
  BY EmptySeq
<1>3. CASE Len(seqs) = 0
  <2>1. seqs = <<>>
    BY <1>3, EmptySeq
  <2>2. FlattenSeq(seqs) = <<>>
    BY <1>3, <2>1 DEF FlattenSeq
  <2> DEFINE g == [i \in 0 .. Len(seqs) |-> <<>>]
  <2>3. g \in [0 .. Len(seqs) -> Seq(S)] /\ g[0] = <<>> /\ g[Len(seqs)] = <<>>
    BY <1>2, <1>3
  <2>4. 1 .. Len(seqs) = {}
    BY <1>3
  <2> QED
    BY <2>2, <2>3, <2>4
<1>4. CASE Len(seqs) # 0
  <2> DEFINE F == CHOOSE f : f = [i \in 1 .. Len(seqs) |-> IF i = 1 THEN seqs[i] ELSE f[i-1] \o seqs[i]]
  <2>1. \E f : f = [i \in 1 .. Len(seqs) |-> IF i = 1 THEN seqs[i] ELSE f[i-1] \o seqs[i]]
    BY <1>1, FlattensExist DEF Flattens
  <2>2. F = [i \in 1 .. Len(seqs) |-> IF i = 1 THEN seqs[i] ELSE F[i-1] \o seqs[i]]
    BY <2>1, Zenon
  <2>3. FlattenSeq(seqs) = F[Len(seqs)]
    BY <1>4, Zenon DEF FlattenSeq
  <2> HIDE DEF F
  <2>4. Len(seqs) \in 1 .. Len(seqs) /\ 1 \in 1 .. Len(seqs)
    BY <1>1, <1>4
  <2>5. F[1] = seqs[1] /\ \A i \in 1 .. Len(seqs) : i # 1 => F[i] = F[i-1] \o seqs[i]
    BY <2>2, <2>4
  <2> DEFINE B == {i \in Nat : i \in 1 .. Len(seqs) /\ F[i] \notin Seq(S)}
  <2>6. B = {}
    <3> SUFFICES ASSUME B # {}  PROVE FALSE
      OBVIOUS
    <3>1. PICK m \in B : \A k \in B : m <= k
      BY LeastNat
    <3>2. m # 1
      BY <1>1, <2>4, <2>5, <3>1
    <3>3. m - 1 \in 1 .. Len(seqs) /\ m \in 1 .. Len(seqs) /\ m - 1 \notin B
      BY <1>1, <3>1, <3>2
    <3>4. F[m-1] \in Seq(S) /\ seqs[m] \in Seq(S)
      BY <1>1, <3>3
    <3>5. F[m-1] \o seqs[m] \in Seq(S)
      BY <3>4, ConcatProperties
    <3>6. F[m] \in Seq(S)
      BY <2>5, <3>2, <3>3, <3>5
    <3> QED
      BY <3>1, <3>6
  <2>7. \A i \in 1 .. Len(seqs) : F[i] \in Seq(S)
    BY <2>6
  <2> DEFINE g == [i \in 0 .. Len(seqs) |-> IF i = 0 THEN <<>> ELSE F[i]]
  <2>8. g[0] = <<>> /\ g[Len(seqs)] = F[Len(seqs)]
    BY <1>1, <1>4
  <2>9. g \in [0 .. Len(seqs) -> Seq(S)]
    BY <1>1, <1>2, <2>7
  <2>10. ASSUME NEW i \in 1 .. Len(seqs)  PROVE g[i] = g[i-1] \o seqs[i]
    <3>1. CASE i = 1
      <4>1. g[i-1] = <<>> /\ g[i] = seqs[1]
        BY <1>1, <2>5, <3>1
      <4>2. <<>> \o seqs[1] = seqs[1]
        BY <1>1, <2>4, ConcatEmptySeq
      <4> QED
        BY <3>1, <4>1, <4>2
    <3>2. CASE i # 1
      <4>1. g[i-1] = F[i-1] /\ g[i] = F[i]
        BY <1>1, <3>2
      <4> QED
        BY <2>5, <3>2, <4>1
    <3> QED
      BY <3>1, <3>2
  <2> HIDE DEF g
  <2> QED
    BY <2>3, <2>8, <2>9, <2>10
<1> QED
  BY <1>3, <1>4

\* A flattened list has the elements of its parts.
LEMMA FlattenTyped ==
    ASSUME NEW S, NEW seqs \in Seq(Seq(S))
    PROVE  FlattenSeq(seqs) \in Seq(S)
<1>1. Len(seqs) \in 0 .. Len(seqs)
  BY LenProperties
<1>2. PICK g \in [0 .. Len(seqs) -> Seq(S)] : g[Len(seqs)] = FlattenSeq(seqs)
  BY FlattenIs
<1>3. g[Len(seqs)] \in Seq(S)
  BY <1>1
<1> QED
  BY <1>2, <1>3

----------------------------------------------------------------------------
(* The accounts.                                                           *)

\* The accounts that can be loaded, with the padding, and numbered.
ValidRows == {row \in UserRows : RowOutcome(cex, row) = "valid"}
Users == {Account(cex, row) : row \in ValidRows}
RowsOf(tier) == {row \in ValidRows : TierFor(Cardinality(AssetsOf(row))) = tier}
UsersOf(tier) == {Account(cex, row) : row \in RowsOf(tier)}
Paddings == {PaddingAccount(tier) : tier \in AssetCountsTiers}
Listed == {Indexed(account, i) : account \in Users \cup Paddings, i \in Nat}

\* Every column of a valid row has numbers.
LEMMA ValidAmounts ==
    ASSUME NEW row \in ValidRows
    PROVE  /\ AssetsOf(row) \subseteq Assets
           /\ \A a \in AssetsOf(row) : Amounts(row, a) \in AmountsOf(Nat)
<1>1. row \in UserRows /\ RowOutcome(cex, row) = "valid"
  BY DEF ValidRows
<1>2. Problems(row) = {}
  <2>1. \A a : Problem(row, a) \in {"panic", "invalid", "none"}
    BY DEF Problem
  <2>2. Problems(row) # {} => RowOutcome(cex, row) \in {"panic", "invalid", "none"}
    BY <2>1 DEF RowOutcome
  <2> QED
    BY <1>1, <2>2
<1>3. row.columns \in Seq(AmountsOf(Uints) \cup {BadNumber}) /\ Len(row.columns) <= AssetCounts
  BY <1>1 DEF UserRows, Columns
<1>4. Len(row.columns) \in Nat
  BY <1>3, LenProperties
<1>5. ColumnsOf(row) \subseteq Assets
  BY <1>3, <1>4, AssetCountsAssumption DEF ColumnsOf, Assets
<1>6. ASSUME NEW a \in ColumnsOf(row)  PROVE Amounts(row, a) \in AmountsOf(Nat)
  <2>1. a + 1 \in 1 .. Len(row.columns)
    BY <1>4 DEF ColumnsOf
  <2>2. Amounts(row, a) \in AmountsOf(Uints) \cup {BadNumber}
    BY <1>3, <2>1, ElementOfSeq DEF Amounts
  <2>3. Problem(row, a) = "none"
    BY <1>2 DEF Problems
  <2>4. Amounts(row, a) # BadNumber
    BY <2>3 DEF Problem
  <2>5. Uints \subseteq Nat
    BY MaxUintAssumption DEF Uints
  <2> QED
    BY <2>2, <2>4, <2>5 DEF AmountsOf
<1> QED
  BY <1>5, <1>6 DEF AssetsOf

\* The fields of a padding account.
LEMMA PaddingFields ==
    ASSUME NEW tier \in AssetCountsTiers
    PROVE  LET account == PaddingAccount(tier) IN
           /\ DOMAIN account.assets = 0 .. tier - 1
           /\ DOMAIN account.assets \subseteq Assets
           /\ \A a \in DOMAIN account.assets : account.assets[a] = NoAmounts
<1>1. tier \in 1 .. AssetCounts
  BY TiersAssumption
<1>2. PaddingAccount(tier).assets = [a \in 0 .. tier - 1 |-> NoAmounts]
  BY DEF PaddingAccount
<1> QED
  BY <1>1, <1>2, AssetCountsAssumption DEF Assets

LEMMA NoAmountsFields ==
    /\ NoAmounts \in AmountsOf(Nat)
    /\ NoAmounts.equity = 0 /\ NoAmounts.debt = 0
    /\ \A k \in Kinds : NoAmounts.collateral[k] = 0
BY DEF NoAmounts, AmountsOf

\* An account, loaded or made up, with amounts of assets there are.
Holding(account) ==
    /\ DOMAIN account.assets \subseteq Assets
    /\ \A a \in Assets : AmountOf(account, a) \in AmountsOf(Nat)

\* The amounts of a listed account are natural numbers, of assets there are.
LEMMA ListedAssets ==
    ASSUME NEW account \in Listed
    PROVE  /\ DOMAIN account.assets \subseteq Assets
           /\ \A a : AmountOf(account, a) \in AmountsOf(Nat)
           /\ Holding(account)
<1>1. PICK x \in Users \cup Paddings, i \in Nat : account = Indexed(x, i)
  BY DEF Listed
<1>2. account.assets = x.assets
  BY <1>1 DEF Indexed
<1>3. /\ DOMAIN x.assets \subseteq Assets
      /\ \A a \in DOMAIN x.assets : x.assets[a] \in AmountsOf(Nat)
  <2>1. CASE x \in Users
    <3>1. PICK row \in ValidRows : x = Account(cex, row)
      BY <2>1 DEF Users
    <3>2. x.assets = [a \in AssetsOf(row) |-> Amounts(row, a)]
      BY <3>1 DEF Account
    <3> QED
      BY <3>2, ValidAmounts
  <2>2. CASE x \in Paddings
    BY <2>2, PaddingFields, NoAmountsFields DEF Paddings
  <2> QED
    BY <2>1, <2>2
<1>4. ASSUME NEW a  PROVE AmountOf(account, a) \in AmountsOf(Nat)
  BY <1>2, <1>3, NoAmountsFields DEF AmountOf
<1> QED
  BY <1>2, <1>3, <1>4 DEF Holding

\* The accounts of a file in a tier.
LEMMA AccountsOfFile ==
    ASSUME NEW file \in Seq(UserRows), NEW tier
    PROVE  /\ AccountsOfTier(cex, file, tier) \in Seq(UsersOf(tier))
           /\ AccountsOfTier(cex, file, tier) \in Seq(Users)
<1> DEFINE part(i) == IF GoesTo(cex, file[i], tier) THEN <<Account(cex, file[i])>> ELSE <<>>
           parts == [i \in 1 .. Len(file) |-> part(i)]
<1>1. Len(file) \in Nat
  BY LenProperties
<1>2. ASSUME NEW i \in 1 .. Len(file)  PROVE part(i) \in Seq(UsersOf(tier))
  <2>1. file[i] \in UserRows
    BY ElementOfSeq
  <2>2. CASE GoesTo(cex, file[i], tier)
    <3> DEFINE account == Account(cex, file[i])
               S == UsersOf(tier)
    <3>1. account \in S
      BY <2>1, <2>2 DEF GoesTo, UsersOf, RowsOf, ValidRows
    <3> HIDE DEF account, S
    <3>2. <<account>> \in Seq(S)
      BY <3>1
    <3> QED
      BY <2>2, <3>2 DEF account, S
  <2>3. CASE ~GoesTo(cex, file[i], tier)
    BY <2>3, EmptySeq
  <2> QED
    BY <2>2, <2>3
<1> HIDE DEF part
<1>3. parts \in Seq(Seq(UsersOf(tier)))
  BY <1>1, <1>2
<1> HIDE DEF parts
<1>4. FlattenSeq(parts) \in Seq(UsersOf(tier))
  <2> DEFINE S == UsersOf(tier)
  <2> HIDE DEF S
  <2> QED
    BY <1>3, FlattenTyped DEF S
<1>5. AccountsOfTier(cex, file, tier) = FlattenSeq(parts)
  BY Zenon DEF AccountsOfTier, parts, part
<1>6. FlattenSeq(parts) \in Seq(Users)
  <2> DEFINE S == UsersOf(tier)
             list == FlattenSeq(parts)
  <2>1. list \in Seq(S) /\ \A x \in S : x \in Users
    BY <1>4 DEF UsersOf, RowsOf, Users
  <2> HIDE DEF list, S
  <2>2. list \in Seq(Users)
    BY <2>1, SeqMonotonic
  <2> QED
    BY <2>2 DEF list
<1> QED
  BY <1>4, <1>5, <1>6

\* When everything is merged: the accounts of all files in a tier.
LEMMA AccountsOfFiles ==
    ASSUME LoadInv, AllMerged, NEW tier \in AssetCountsTiers
    PROVE  /\ AccountInfo(tier) \in Seq(UsersOf(tier)) /\ AccountInfo(tier) \in Seq(Users)
           /\ Len(files) \in Nat
           /\ AccountInfo(tier)
                  = FlattenSeq([i \in 1 .. Len(files) |-> AccountsOfTier(cex, files[i], tier)])
<1> DEFINE parts == [i \in 1 .. Len(files) |-> AccountsOfTier(cex, files[i], tier)]
<1>1. Len(files) \in Nat /\ Len(merged) = Len(files)
  BY LenProperties DEF LoadInv, LoadTypes, AllMerged
<1>2. \A i \in 1 .. Len(files) : files[i] \in Seq(UserRows)
  BY ElementOfSeq DEF LoadInv, LoadTypes
<1>3. ASSUME NEW i \in 1 .. Len(files)
      PROVE  merged[i].accounts[tier] = AccountsOfTier(cex, files[i], tier)
  <2>1. merged[i] = ReadFile(cex, files[i])
    BY <1>1 DEF LoadInv, MergedRight, Result
  <2> QED
    BY <2>1 DEF ReadFile
<1> DEFINE S == UsersOf(tier)
<1>4. \A i \in 1 .. Len(files) : AccountsOfTier(cex, files[i], tier) \in Seq(S)
  BY <1>2, AccountsOfFile
<1> HIDE DEF S
<1>5. parts \in Seq(Seq(S))
  BY <1>1, <1>4
<1>6. [i \in 1 .. Len(merged) |-> merged[i].accounts[tier]] = parts
  BY <1>1, <1>3
<1>7. AccountInfo(tier) = FlattenSeq(parts)
  BY <1>6, Zenon DEF AccountInfo
<1>8. FlattenSeq(parts) \in Seq(S)
  <2> HIDE DEF parts
  <2> QED
    BY <1>5, FlattenTyped
<1>9. FlattenSeq(parts) \in Seq(Users)
  <2> DEFINE list == FlattenSeq(parts)
  <2>1. list \in Seq(S) /\ \A x \in S : x \in Users
    BY <1>8 DEF S, UsersOf, RowsOf, Users
  <2> HIDE DEF list
  <2>2. list \in Seq(Users)
    BY <2>1, SeqMonotonic
  <2> QED
    BY <2>2 DEF list
<1> QED
  BY <1>1, <1>7, <1>8, <1>9 DEF S

\* Padding fills up the last batch of a tier.
LEMMA PaddingFills ==
    ASSUME NEW n \in Nat, NEW tier \in AssetCountsTiers
    PROVE  LET batches == (n + OpsPerBatch[tier] - 1) \div OpsPerBatch[tier] IN
           /\ batches \in Nat
           /\ PaddingCount(n, tier) \in Nat /\ PaddingCount(n, tier) < OpsPerBatch[tier]
           /\ n + PaddingCount(n, tier) = batches * OpsPerBatch[tier]
           /\ (n + PaddingCount(n, tier) + OpsPerBatch[tier] - 1) \div OpsPerBatch[tier] = batches
<1> DEFINE ops == OpsPerBatch[tier]
           batches == (n + ops - 1) \div ops
           rest == (n + ops - 1) % ops
<1>1. ops \in Nat \ {0}
  BY OpsAssumption
<1> HIDE DEF ops
<1>2. n + ops - 1 \in Nat
  BY <1>1
<1>3. \A m \in Nat : m = (m % ops) + (m \div ops) * ops /\ m % ops \in 0 .. ops - 1 /\ m \div ops \in Nat
  BY <1>1
<1>4. n + ops - 1 = rest + batches * ops /\ rest \in 0 .. ops - 1 /\ batches \in Nat
  BY <1>2, <1>3
<1> HIDE DEF batches, rest
<1>5. batches * ops \in Nat
  BY <1>1, <1>4
<1>6. PaddingCount(n, tier) = batches * ops - n
  BY DEF PaddingCount, batches, ops
<1>7. /\ PaddingCount(n, tier) \in Nat /\ PaddingCount(n, tier) < ops
      /\ n + PaddingCount(n, tier) = batches * ops
  BY <1>1, <1>4, <1>5, <1>6
<1>8. (batches * ops + ops - 1) \div ops = batches
  <2> DEFINE m == batches * ops + ops - 1
  <2>1. m \in Nat /\ m = (ops - 1) + batches * ops /\ ops - 1 \in 0 .. ops - 1
    BY <1>1, <1>5
  <2> HIDE DEF m
  <2>2. m = (m % ops) + (m \div ops) * ops /\ m % ops \in 0 .. ops - 1 /\ m \div ops \in Nat
    BY <1>3, <2>1
  <2>3. m \div ops = batches
    BY <1>1, <1>4, <2>1, <2>2, Digits
  <2> QED
    BY <2>3 DEF m
<1> QED
  BY <1>4, <1>7, <1>8 DEF batches, ops

Built == accounts = [tier \in Keys |-> Numbered(tier)]

\* The tiers that have accounts are finitely many numbers.
LEMMA KeysFinite ==
    /\ Keys \subseteq AssetCountsTiers /\ Keys \subseteq Nat /\ IsFiniteSet(Keys)
<1>1. Keys \subseteq AssetCountsTiers /\ Keys \subseteq 1 .. AssetCounts
  BY TiersAssumption DEF Keys
<1>2. IsFiniteSet(1 .. AssetCounts) /\ 1 .. AssetCounts \subseteq Nat
  BY AssetCountsAssumption, FS_Interval
<1> QED
  BY <1>1, <1>2, FS_Subset

\* A tier's accounts are those loaded, then the padding, and fill its batches.
LEMMA PaddedIs ==
    ASSUME LoadInv, AllMerged, NEW tier \in AssetCountsTiers
    PROVE  LET n == Len(AccountInfo(tier)) IN
           /\ n \in Nat /\ PaddingCount(n, tier) \in Nat
           /\ PaddedAccounts(tier) \in Seq(Users \cup Paddings)
           /\ Len(PaddedAccounts(tier)) = n + PaddingCount(n, tier)
           /\ \A i \in 1 .. n : PaddedAccounts(tier)[i] = AccountInfo(tier)[i]
           /\ \A i \in 1 .. Len(PaddedAccounts(tier)) :
                  i > n => PaddedAccounts(tier)[i] = PaddingAccount(tier)
<1> DEFINE info == AccountInfo(tier)
           n == Len(info)
           p == PaddingCount(n, tier)
           padding == [i \in 1 .. p |-> PaddingAccount(tier)]
           S == Users \cup Paddings
<1>1. info \in Seq(Users)
  BY AccountsOfFiles
<1>2. n \in Nat /\ p \in Nat
  BY <1>1, LenProperties, PaddingFills
<1>3. PaddingAccount(tier) \in S
  BY DEF Paddings
<1>4. info \in Seq(S)
  BY <1>1, SeqMonotonic
<1> HIDE DEF S
<1>5. padding \in Seq(S) /\ Len(padding) = p
  BY <1>2, <1>3
<1>6. \A i \in 1 .. p : padding[i] = PaddingAccount(tier)
  OBVIOUS
<1>7. PaddedAccounts(tier) = info \o padding
  BY DEF PaddedAccounts
<1> HIDE DEF info, padding, n, p
<1>8. /\ info \o padding \in Seq(S) /\ Len(info \o padding) = n + p
      /\ \A i \in 1 .. n + p : (info \o padding)[i] = IF i <= n THEN info[i] ELSE padding[i - n]
  BY <1>4, <1>5, ConcatProperties DEF n
<1>9. ASSUME NEW i \in 1 .. n  PROVE (info \o padding)[i] = info[i]
  <2>1. i \in 1 .. n + p /\ i <= n
    BY <1>2
  <2> QED
    BY <1>8, <2>1
<1>10. ASSUME NEW i \in 1 .. n + p, i > n  PROVE (info \o padding)[i] = PaddingAccount(tier)
  <2>1. ~ (i <= n) /\ i - n \in 1 .. p
    BY <1>2, <1>10
  <2> QED
    BY <1>6, <1>8, <2>1
<1>11. n = Len(info)
  BY DEF n
<1>12. p = PaddingCount(n, tier)
  BY DEF p
<1> QED
  BY <1>2, <1>7, <1>8, <1>9, <1>10, <1>11, <1>12 DEF S, info

\* Numbering keeps the list.
LEMMA NumberedIs ==
    ASSUME LoadInv, AllMerged, NEW tier \in Keys
    PROVE  /\ Before(tier) \in Nat
           /\ Numbered(tier) \in Seq(Listed)
           /\ Len(Numbered(tier)) = Len(PaddedAccounts(tier))
           /\ \A i \in 1 .. Len(PaddedAccounts(tier)) :
                  Numbered(tier)[i] = Indexed(PaddedAccounts(tier)[i], Before(tier) + i - 1)
<1>1. \A k \in Keys : PaddedAccounts(k) \in Seq(Users \cup Paddings) /\ Len(PaddedAccounts(k)) \in Nat
  BY KeysFinite, PaddedIs, LenProperties
<1>2. Before(tier) \in Nat
  <2> DEFINE below == {k \in Keys : k < tier}
             f == [k \in below |-> Len(PaddedAccounts(k))]
  <2>1. IsFiniteSet(below) /\ \A k \in below : f[k] \in Nat
    BY <1>1, KeysFinite, FS_Subset
  <2>2. Before(tier) = SumFunctionOnSet(f, below)
    <3>1. DOMAIN f = below
      OBVIOUS
    <3>2. Before(tier) = SumFunction(f)
      BY DEF Before
    <3> HIDE DEF f, below
    <3> QED
      BY <3>1, <3>2, Zenon DEF SumFunction
  <2> HIDE DEF f, below
  <2> QED
    BY <2>1, <2>2, SumNat
<1> DEFINE L == Len(PaddedAccounts(tier))
           e(i) == Indexed(PaddedAccounts(tier)[i], Before(tier) + i - 1)
<1>3. L \in Nat /\ \A i \in 1 .. L : PaddedAccounts(tier)[i] \in Users \cup Paddings
  BY <1>1, ElementOfSeq
<1>4. ASSUME NEW i \in 1 .. L  PROVE e(i) \in Listed
  <2>1. Before(tier) + i - 1 \in Nat
    BY <1>2, <1>3
  <2> QED
    BY <1>3, <2>1 DEF Listed
<1>5. Numbered(tier) = [i \in 1 .. L |-> e(i)]
  BY DEF Numbered
<1> HIDE DEF L, e
<1>6. [i \in 1 .. L |-> e(i)] \in Seq(Listed) /\ Len([i \in 1 .. L |-> e(i)]) = L
  BY <1>3, <1>4
<1> QED
  BY <1>2, <1>5, <1>6 DEF L, e

\* Where a number falls among sums of natural numbers.
LEMMA SumUpTo ==
    ASSUME NEW D, D \subseteq Nat, IsFiniteSet(D), NEW b, \A k \in D : b[k] \in Nat, NEW t \in D
    PROVE  /\ SumFunctionOnSet(b, {k \in D : k < t}) \in Nat
           /\ SumFunctionOnSet(b, {k \in D : k <= t})
                  = SumFunctionOnSet(b, {k \in D : k < t}) + b[t]
<1> DEFINE upto == {k \in D : k <= t}
           below == {k \in D : k < t}
<1>1. IsFiniteSet(upto) /\ IsFiniteSet(below)
  BY FS_Subset
<1>2. t \in upto /\ upto \ {t} = below
  <2>1. \A k \in D : k \in Nat
    OBVIOUS
  <2>2. \A k : k \in upto \ {t} <=> k \in below
    <3>1. ASSUME NEW k \in D  PROVE k <= t /\ k # t <=> k < t
      <4>1. k \in Nat /\ t \in Nat
        BY <2>1
      <4> QED
        BY <4>1
    <3> QED
      BY <3>1, Zenon
  <2>3. upto \ {t} = below
    <3> HIDE DEF upto, below
    <3> QED
      BY <2>2
  <2> QED
    BY <2>1, <2>3
<1>3. \A k \in upto : b[k] \in Int
  OBVIOUS
<1>4. SumFunctionOnSet(b, below) \in Nat
  <2>1. \A k \in below : b[k] \in Nat
    OBVIOUS
  <2> HIDE DEF below
  <2> QED
    BY <1>1, <2>1, SumNat
<1> HIDE DEF upto, below
<1>5. SumFunctionOnSet(b, upto) = b[t] + SumFunctionOnSet(b, upto \ {t})
  BY <1>1, <1>2, <1>3, SumOrder
<1>6. SumFunctionOnSet(b, upto) = b[t] + SumFunctionOnSet(b, below)
  BY <1>2, <1>5, Zenon
<1> QED
  BY <1>4, <1>6 DEF upto, below

LEMMA SumPlace ==
    ASSUME NEW D, D \subseteq Nat, IsFiniteSet(D), NEW b, \A k \in D : b[k] \in Nat,
           NEW i \in Nat, i < SumFunctionOnSet(b, D)
    PROVE  \E t \in D : /\ SumFunctionOnSet(b, {k \in D : k < t}) <= i
                        /\ i < SumFunctionOnSet(b, {k \in D : k <= t})
<1> DEFINE E(t) == SumFunctionOnSet(b, {k \in D : k <= t})
           S == {t \in D : i < E(t)}
<1>1. D # {}
  <2>1. SumFunctionOnSet(b, {}) = 0
    BY SumEmpty
  <2> QED
    BY <2>1
<1>2. PICK bound \in Nat : \A k \in D : k <= bound
  <2> DEFINE f == [k \in D |-> k]
  <2>1. \A k \in D : f[k] \in Nat /\ f[k] = k
    OBVIOUS
  <2> HIDE DEF f
  <2>2. SumFunctionOnSet(f, D) \in Nat /\ \A k \in D : f[k] <= SumFunctionOnSet(f, D)
    BY <2>1, SumNat
  <2> QED
    BY <2>1, <2>2
<1>3. PICK m \in D : \A k \in D : k <= m
  BY <1>1, <1>2, GreatestNat
<1>4. m \in S
  <2>1. {k \in D : k <= m} = D
    BY <1>3
  <2>2. SumFunctionOnSet(b, {k \in D : k <= m}) = SumFunctionOnSet(b, D)
    BY <2>1, Zenon
  <2> QED
    BY <2>2
<1>5. PICK t \in S : \A k \in S : t <= k
  BY <1>4, LeastNat
<1> DEFINE below == {k \in D : k < t}
<1>6. SumFunctionOnSet(b, below) <= i
  <2>1. CASE below = {}
    <3>1. SumFunctionOnSet(b, below) = 0
      BY <2>1, SumEmpty
    <3> QED
      BY <3>1
  <2>2. CASE below # {}
    <3>1. PICK p \in below : \A k \in below : k <= p
      <4>1. below \subseteq Nat /\ \A k \in below : k <= bound
        BY <1>2
      <4> HIDE DEF below
      <4> QED
        BY <2>2, <4>1, GreatestNat
    <3>2. {k \in D : k <= p} = below
      <4>1. \A k \in D : k \in Nat
        OBVIOUS
      <4>2. t \in Nat /\ p \in D /\ p < t
        BY <4>1
      <4>3. \A k \in D : k <= p <=> k < t
        <5>1. ASSUME NEW k \in D, k < t  PROVE k <= p
          BY <3>1, <5>1
        <5>2. ASSUME NEW k \in D, k <= p  PROVE k < t
          BY <4>1, <4>2, <5>2
        <5> QED
          BY <5>1, <5>2
      <4> QED
        BY <4>3, Zenon
    <3>3. p \notin S
      BY <1>5, <3>1
    <3>4. SumFunctionOnSet(b, {k \in D : k <= p}) \in Int
      <4>1. p \in D
        OBVIOUS
      <4> HIDE DEF below
      <4>2. /\ SumFunctionOnSet(b, {k \in D : k < p}) \in Nat /\ b[p] \in Nat
            /\ SumFunctionOnSet(b, {k \in D : k <= p})
                   = SumFunctionOnSet(b, {k \in D : k < p}) + b[p]
        BY <4>1, SumUpTo
      <4> QED
        BY <4>2
    <3>5. E(p) <= i
      BY <3>1, <3>3, <3>4
    <3>6. E(p) = SumFunctionOnSet(b, below)
      BY <3>2, Zenon
    <3> QED
      BY <3>5, <3>6
  <2> QED
    BY <2>1, <2>2
<1> QED
  BY <1>5, <1>6

----------------------------------------------------------------------------
(* The batches.                                                            *)

\* The users of batch i.
OpsOf(i) ==
    LET tier == TierOfBatch(i)
        start == RelativeBatchNum(i) * OpsPerBatch[tier]
    IN  SubSeq(accounts[tier], start + 1, start + OpsPerBatch[tier])

\* The accounts of a tier fill its batches.
LEMMA BuiltTier ==
    ASSUME LoadInv, AllMerged, Built, NEW tier \in Keys
    PROVE  /\ DOMAIN accounts = Keys
           /\ accounts[tier] = Numbered(tier) /\ accounts[tier] \in Seq(Listed)
           /\ OpsPerBatch[tier] \in Nat \ {0}
           /\ BatchesOf(tier) \in Nat
           /\ Len(accounts[tier]) = BatchesOf(tier) * OpsPerBatch[tier]
<1> DEFINE n == Len(AccountInfo(tier))
           ops == OpsPerBatch[tier]
           batches == (n + ops - 1) \div ops
<1>1. tier \in AssetCountsTiers
  BY KeysFinite
<1>2. DOMAIN accounts = Keys /\ accounts[tier] = Numbered(tier)
  BY DEF Built
<1>3. /\ accounts[tier] \in Seq(Listed)
      /\ Len(accounts[tier]) = n + PaddingCount(n, tier) /\ n \in Nat
  BY <1>1, <1>2, PaddedIs, NumberedIs
<1>4. /\ batches \in Nat
      /\ n + PaddingCount(n, tier) = batches * ops
      /\ (n + PaddingCount(n, tier) + ops - 1) \div ops = batches
  BY <1>1, <1>3, PaddingFills
<1>5. BatchesOf(tier) = batches
  BY <1>3, <1>4, Zenon DEF BatchesOf
<1>6. ops \in Nat \ {0}
  BY <1>1, OpsAssumption
<1> QED
  BY <1>2, <1>3, <1>4, <1>5, <1>6

\* The numbers of batches by tier, and of the batches below a tier.
BatchCounts == [k \in Keys |-> BatchesOf(k)]
FirstBatch(tier) == SumFunctionOnSet(BatchCounts, {k \in Keys : k < tier})

LEMMA BatchSums ==
    ASSUME LoadInv, AllMerged, Built
    PROVE  /\ \A k \in Keys : BatchCounts[k] \in Nat /\ BatchCounts[k] = BatchesOf(k)
           /\ BatchNumber = SumFunctionOnSet(BatchCounts, Keys) /\ BatchNumber \in Nat
           /\ \A tier \in Keys : /\ FirstBatch(tier) \in Nat
                                 /\ EndBatchNum(tier) = FirstBatch(tier) + BatchesOf(tier)
                                 /\ EndBatchNum(tier)
                                        = SumFunctionOnSet(BatchCounts, {k \in Keys : k <= tier})
<1>1. \A k \in Keys : BatchCounts[k] \in Nat /\ BatchCounts[k] = BatchesOf(k)
  BY BuiltTier DEF BatchCounts
<1>2. \A k \in Keys : DOMAIN accounts = Keys
  BY BuiltTier
<1>3. DOMAIN accounts = Keys
  BY DEF Built
<1>4. BatchNumber = SumFunctionOnSet(BatchCounts, Keys)
  <2>1. BatchNumber = SumFunction(BatchCounts)
    BY <1>3 DEF BatchNumber, BatchCounts
  <2>2. DOMAIN BatchCounts = Keys
    BY DEF BatchCounts
  <2> QED
    BY <2>1, <2>2, Zenon DEF SumFunction
<1>5. BatchNumber \in Nat
  BY <1>1, <1>4, KeysFinite, SumNat
<1>6. ASSUME NEW tier \in Keys
      PROVE  /\ FirstBatch(tier) \in Nat
             /\ EndBatchNum(tier) = FirstBatch(tier) + BatchesOf(tier)
             /\ EndBatchNum(tier) = SumFunctionOnSet(BatchCounts, {k \in Keys : k <= tier})
  <2> DEFINE upto == {k \in Keys : k <= tier}
             f == [k \in upto |-> BatchesOf(k)]
  <2>1. EndBatchNum(tier) = SumFunction(f)
    BY <1>3 DEF EndBatchNum
  <2>2. SumFunction(f) = SumFunctionOnSet(f, upto)
    <3>1. DOMAIN f = upto
      OBVIOUS
    <3> HIDE DEF f, upto
    <3> QED
      BY <3>1, Zenon DEF SumFunction
  <2>3. IsFiniteSet(upto) /\ \A k \in upto : f[k] \in Int /\ f[k] = BatchCounts[k]
    BY <1>1, KeysFinite, FS_Subset
  <2>4. SumFunctionOnSet(f, upto) = SumFunctionOnSet(BatchCounts, upto)
    <3> HIDE DEF f, upto
    <3> QED
      BY <2>3, SumSame
  <2>5. /\ FirstBatch(tier) \in Nat
        /\ SumFunctionOnSet(BatchCounts, upto) = FirstBatch(tier) + BatchesOf(tier)
    <3> HIDE DEF BatchCounts
    <3> QED
      BY <1>1, KeysFinite, SumUpTo DEF FirstBatch
  <2> QED
    BY <2>1, <2>2, <2>4, <2>5
<1> QED
  BY <1>1, <1>4, <1>5, <1>6

\* Each number below BatchNumber is that of a batch of a tier.
LEMMA BatchPlace ==
    ASSUME LoadInv, AllMerged, Built, NEW i \in Nat, i < BatchNumber
    PROVE  /\ TierOfBatch(i) \in Keys
           /\ FirstBatch(TierOfBatch(i)) \in Nat
           /\ RelativeBatchNum(i) = i - FirstBatch(TierOfBatch(i))
           /\ RelativeBatchNum(i) \in Nat
           /\ RelativeBatchNum(i) < BatchesOf(TierOfBatch(i))
<1> DEFINE Within(tier) == EndBatchNum(tier) - BatchesOf(tier) <= i /\ i < EndBatchNum(tier)
           t == TierOfBatch(i)
<1>1. \A k \in Keys : BatchesOf(k) \in Nat
  BY BuiltTier
<1>2. PICK p \in Keys : /\ SumFunctionOnSet(BatchCounts, {k \in Keys : k < p}) <= i
                        /\ i < SumFunctionOnSet(BatchCounts, {k \in Keys : k <= p})
  <2>1. /\ Keys \subseteq Nat /\ IsFiniteSet(Keys)
        /\ \A k \in Keys : BatchCounts[k] \in Nat
        /\ i < SumFunctionOnSet(BatchCounts, Keys)
    BY BatchSums, KeysFinite
  <2> HIDE DEF BatchCounts
  <2> QED
    BY <2>1, SumPlace
<1>3. Within(p)
  <2>1. FirstBatch(p) <= i /\ i < EndBatchNum(p)
    BY <1>2, BatchSums DEF FirstBatch
  <2>2. FirstBatch(p) \in Nat /\ EndBatchNum(p) = FirstBatch(p) + BatchesOf(p)
    BY BatchSums
  <2> QED
    BY <1>1, <2>1, <2>2
<1>4. t \in Keys /\ Within(t)
  <2>1. DOMAIN accounts = Keys
    BY DEF Built
  <2>2. t = CHOOSE tier \in Keys : Within(tier)
    BY <2>1, Zenon DEF TierOfBatch
  <2> HIDE DEF t, Within
  <2> QED
    BY <1>3, <2>2, Zenon
<1>5. RelativeBatchNum(i) = i - (EndBatchNum(t) - BatchesOf(t))
  BY Zenon DEF RelativeBatchNum
<1>6. FirstBatch(t) \in Nat /\ EndBatchNum(t) = FirstBatch(t) + BatchesOf(t) /\ BatchesOf(t) \in Nat
  BY <1>1, <1>4, BatchSums
<1> HIDE DEF t
<1> QED
  BY <1>4, <1>5, <1>6 DEF t

\* Its users are listed accounts of the tier, next to each other.
LEMMA OpsAre ==
    ASSUME LoadInv, AllMerged, Built, NEW i \in Nat, i < BatchNumber
    PROVE  LET tier == TierOfBatch(i)
               start == RelativeBatchNum(i) * OpsPerBatch[tier]
           IN  /\ OpsOf(i) \in Seq(Listed) /\ Len(OpsOf(i)) = OpsPerBatch[tier]
               /\ start \in Nat /\ start + OpsPerBatch[tier] <= Len(accounts[tier])
               /\ \A u \in 1 .. OpsPerBatch[tier] : OpsOf(i)[u] = accounts[tier][start + u]
<1> DEFINE tier == TierOfBatch(i)
           ops == OpsPerBatch[tier]
           j == RelativeBatchNum(i)
           start == j * ops
           list == accounts[tier]
<1>1. tier \in Keys /\ j \in Nat /\ j < BatchesOf(tier)
  BY BatchPlace
<1>2. /\ list \in Seq(Listed) /\ ops \in Nat \ {0} /\ BatchesOf(tier) \in Nat
      /\ Len(list) = BatchesOf(tier) * ops
  BY <1>1, BuiltTier
<1>3. OpsOf(i) = SubSeq(list, start + 1, start + ops)
  BY DEF OpsOf
<1> HIDE DEF tier, ops, j, list
<1>4. start \in Nat /\ start + ops <= Len(list)
  <2>1. \A m, n \in Nat : m < n => (m + 1) * ops <= n * ops
    BY <1>2
  <2>2. (j + 1) * ops = j * ops + ops /\ j * ops \in Nat
    BY <1>1, <1>2
  <2> QED
    BY <1>1, <1>2, <2>1, <2>2
<1> HIDE DEF start
<1>5. \A k \in start + 1 .. start + ops : list[k] \in Listed
  <2>1. \A k \in 1 .. Len(list) : list[k] \in Listed
    BY <1>2, ElementOfSeq
  <2> QED
    BY <1>2, <1>4, <2>1
<1>6. /\ OpsOf(i) \in Seq(Listed)
      /\ Len(OpsOf(i)) = ops
      /\ \A u \in 1 .. ops : OpsOf(i)[u] = list[start + u]
  <2>1. start + 1 \in Int /\ start + ops \in Int /\ start + 1 <= start + ops
    BY <1>2, <1>4
  <2>2. /\ SubSeq(list, start + 1, start + ops) \in Seq(Listed)
        /\ Len(SubSeq(list, start + 1, start + ops)) = (start + ops) - (start + 1) + 1
        /\ \A u \in 1 .. (start + ops) - (start + 1) + 1 :
               SubSeq(list, start + 1, start + ops)[u] = list[(start + 1) + u - 1]
    BY <1>5, <2>1, SubSeqProperties
  <2>3. (start + ops) - (start + 1) + 1 = ops
    BY <1>2, <1>4
  <2>4. \A u \in 1 .. ops : (start + 1) + u - 1 = start + u
    BY <1>2, <1>4
  <2> QED
    BY <1>3, <2>2, <2>3, <2>4
<1> QED
  BY <1>4, <1>6 DEF tier, ops, j, start, list

\* Some prover's claims have been accepted for a row.
Accepted(row) == \E tier, assignment : CircuitAccepts(row, tier, assignment)

\* Rows are those of the first batches, and the proved ones are accepted.
BatchInv ==
    /\ phase \in {"start", "read", "loaded", "error"} => rows = <<>>
    /\ phase \in {"built", "refused"} \/ rows # <<>> => AllMerged /\ Built
    /\ rows # <<>> => Len(rows) <= BatchNumber
    /\ \A r \in 1 .. Len(rows) : rows[r].ops = OpsOf(r - 1)
    /\ \A r \in 1 .. proved : Accepted(rows[r])

\* What these definitions depend on.
LEMMA SameBatches ==
    ASSUME UNCHANGED <<merged, accounts>>
    PROVE  /\ Built' = Built /\ BatchNumber' = BatchNumber
           /\ \A i : OpsOf(i)' = OpsOf(i)
<1>1. Built' = Built
  BY DEF Built, Keys, Numbered, Before, Keys, PaddedAccounts, AccountInfo
<1>2. BatchNumber' = BatchNumber /\ \A i : OpsOf(i)' = OpsOf(i)
  BY DEF BatchNumber, BatchesOf, OpsOf, TierOfBatch, RelativeBatchNum, EndBatchNum
<1> QED
  BY <1>1, <1>2

LEMMA SameCircuit ==
    ASSUME UNCHANGED <<cex, tree>>, NEW row
    PROVE  Accepted(row)' = Accepted(row)
BY DEF Accepted, CircuitAccepts, AllTiersValid, Tiers, UserValid, UserChecked, ListValid, ChoicesValid,
       Covered, CircuitLeaf, CircuitCollateral, CollateralOf, ListWorth

\* A step that leaves the batches alone.
LEMMA BatchSame ==
    ASSUME LoadInv, BatchTypes, BatchInv,
           UNCHANGED <<cex, files, merged, accounts, tree, rows, proved>>,
           phase' \in {phase, "panic", "refused"},
           phase' = "refused" => AllMerged /\ Built
    PROVE  BatchInv'
<1>1. AllMerged' = AllMerged
  BY DEF AllMerged, Invalid
<1>2. ASSUME NEW r \in 1 .. proved  PROVE Accepted(rows[r])' = Accepted(rows[r])
  <2> DEFINE row == rows[r]
  <2>1. Accepted(row)' = Accepted(row)
    BY SameCircuit
  <2> QED
    BY <2>1
<1>3. (phase \in {"built", "refused"} \/ rows # <<>>)' => AllMerged /\ Built
  BY DEF BatchInv
<1> QED
  BY <1>1, <1>2, <1>3, SameBatches DEF BatchInv

\* While the files are loaded there is no batch.
LEMMA BatchLoads ==
    ASSUME BatchTypes, BatchInv, phase \in {"start", "read"}, phase' \in {"read", "loaded", "error", "panic"},
           UNCHANGED <<rows, proved>>
    PROVE  BatchInv'
<1>1. rows = <<>> /\ rows' = <<>> /\ Len(rows') = 0
  BY DEF BatchInv
<1>2. proved \in 0 .. Len(rows) /\ proved' = proved
  BY DEF BatchTypes
<1>3. 1 .. Len(rows') = {} /\ 1 .. proved' = {}
  BY <1>1, <1>2
<1> QED
  BY <1>1, <1>3 DEF BatchInv

\* The accounts are numbered.
LEMMA BatchBuild == ASSUME LoadInv, BatchTypes, BatchInv, BuildTree  PROVE BatchInv'
<1>1. /\ phase = "loaded" /\ phase' = "built"
      /\ accounts' = [tier \in Keys |-> Numbered(tier)]
      /\ UNCHANGED <<cex, files, merged, rows, proved>>
  BY DEF BuildTree, inputs, readVars, batchVars
<1>2. AllMerged'
  BY <1>1 DEF LoadInv, AllMerged, Invalid
<1>3. Built'
  BY <1>1 DEF Built, Keys, Numbered, Before, PaddedAccounts, AccountInfo
<1>4. rows = <<>> /\ rows' = <<>> /\ Len(rows') = 0
  BY <1>1 DEF BatchInv
<1>5. 1 .. Len(rows') = {} /\ 1 .. proved' = {}
  BY <1>1, <1>4 DEF BatchTypes
<1> QED
  BY <1>1, <1>2, <1>3, <1>4, <1>5 DEF BatchInv

\* A row more.
LEMMA BatchWrite == ASSUME LoadInv, BatchTypes, BatchInv, WriteBatch  PROVE BatchInv'
<1> DEFINE row == [ops |-> NextOps, before |-> totals, after |-> totals']
<1>1. /\ phase = "built" /\ phase' = phase /\ Len(rows) < BatchNumber
      /\ rows' = Append(rows, row)
      /\ UNCHANGED <<cex, files, merged, accounts, tree, proved>>
  BY DEF WriteBatch, More, loadVars, treeVars, inputs, readVars
<1>2. row.ops = OpsOf(Len(rows))
  BY DEF OpsOf, NextOps
<1>3. AllMerged /\ Built
  BY <1>1 DEF BatchInv
<1>4. BatchNumber \in Nat
  BY <1>3, BatchSums
<1> HIDE DEF row
<1>5. /\ Len(rows) \in Nat /\ Len(rows') = Len(rows) + 1
      /\ \A r \in 1 .. Len(rows) : rows'[r] = rows[r]
      /\ rows'[Len(rows) + 1] = row
  <2>1. PICK S : rows \in Seq(S)
    BY DEF BatchTypes
  <2>2. rows \in Seq(S \cup {row})
    BY <2>1, SeqMonotonic
  <2> QED
    BY <1>1, <2>2, AppendProperties, LenProperties
<1>6. AllMerged' /\ Built' /\ BatchNumber' = BatchNumber /\ \A i : OpsOf(i)' = OpsOf(i)
  BY <1>1, <1>3, SameBatches DEF AllMerged, Invalid
<1>7. Len(rows') <= BatchNumber'
  BY <1>1, <1>4, <1>5, <1>6
<1>8. ASSUME NEW r \in 1 .. Len(rows')  PROVE rows'[r].ops = OpsOf(r - 1)
  <2>1. CASE r = Len(rows) + 1
    BY <1>2, <1>5, <2>1
  <2>2. CASE r # Len(rows) + 1
    <3>1. r \in 1 .. Len(rows)
      BY <1>5, <2>2
    <3> QED
      BY <1>5, <3>1 DEF BatchInv
  <2> QED
    BY <2>1, <2>2
<1>9. ASSUME NEW r \in 1 .. proved'  PROVE Accepted(rows[r])' 
  <2>1. r \in 1 .. proved /\ r \in 1 .. Len(rows)
    BY <1>1, <1>5 DEF BatchTypes
  <2> DEFINE old == rows[r]
  <2>2. rows'[r] = rows[r]
    BY <1>5, <2>1
  <2>3. Accepted(rows[r])
    BY <2>1 DEF BatchInv
  <2>4. \A x : Accepted(x)' = Accepted(x)
    BY <1>1, SameCircuit
  <2> QED
    BY <2>2, <2>3, <2>4
<1> QED
  BY <1>1, <1>6, <1>7, <1>8, <1>9 DEF BatchInv

\* A row is proved: the circuit has accepted it.
LEMMA BatchProve == ASSUME LoadInv, BatchTypes, BatchInv, Prove  PROVE BatchInv'
<1>1. /\ phase = "built" /\ phase' = phase /\ proved < Len(rows) /\ proved' = proved + 1
      /\ CircuitAccepts(rows[proved + 1], TargetCounts(rows[proved + 1]), Assignment(rows[proved + 1]))
      /\ UNCHANGED <<cex, files, merged, accounts, tree, rows>>
  BY DEF Prove, Row, loadVars, treeVars, inputs, readVars
<1>2. AllMerged' = AllMerged
  BY <1>1 DEF AllMerged, Invalid
<1>3. ASSUME NEW r \in 1 .. proved'  PROVE Accepted(rows[r])'
  <2>1. Accepted(rows[r])
    <3>1. CASE r = proved + 1
      BY <1>1, <3>1 DEF Accepted
    <3>2. CASE r # proved + 1
      <4>1. r \in 1 .. proved
        BY <1>1, <3>2 DEF BatchTypes
      <4> QED
        BY <4>1 DEF BatchInv
    <3> QED
      BY <3>1, <3>2
  <2>2. \A x : Accepted(x)' = Accepted(x)
    BY <1>1, SameCircuit
  <2> QED
    BY <1>1, <2>1, <2>2
<1> QED
  BY <1>1, <1>2, <1>3, SameBatches DEF BatchInv

\* The invariant of the batches.
LEMMA BatchInvariant == Spec => []BatchInv
<1>1. Init => BatchInv
  <2> SUFFICES ASSUME Init  PROVE BatchInv
    OBVIOUS
  <2>1. rows = <<>> /\ proved = 0 /\ phase = "start" /\ Len(rows) = 0
    BY DEF Init, LoadInit
  <2>2. 1 .. Len(rows) = {} /\ 1 .. proved = {}
    BY <2>1
  <2> QED
    BY <2>1, <2>2 DEF BatchInv
<1>2. LoadInv /\ BatchTypes /\ BatchInv /\ [Next]_vars => BatchInv'
  <2> SUFFICES ASSUME LoadInv, BatchTypes, BatchInv, [Next]_vars  PROVE BatchInv'
    OBVIOUS
  <2>1. CASE Load
    <3>1. /\ phase \in {"start", "read"} /\ phase' \in {phase, "read", "loaded", "error", "panic"}
          /\ UNCHANGED <<rows, proved>> /\ phase' # "start"
      BY <2>1 DEF Load, Loader, StartPanics, StartFails, StartReaders, Merge, LoadFails, Loaded,
                  End, batchVars
    <3> QED
      BY <3>1, BatchLoads
  <2>2. CASE \E w \in Workers : ReadFiles(w)
    <3>1. phase = "read" /\ phase' \in {"read", "panic"} /\ UNCHANGED <<rows, proved>>
      BY <2>2 DEF ReadFiles, Reader, Read, ReadPanic, Send, End, batchVars
    <3> QED
      BY <3>1, BatchLoads
  <2>3. CASE BuildTree
    BY <2>3, BatchBuild
  <2>4. CASE WriteBatch
    BY <2>4, BatchWrite
  <2>5. CASE Prove
    BY <2>5, BatchProve
  <2>6. CASE WritePanics \/ ProveFails
    <3>1. /\ phase = "built" /\ phase' \in {"panic", "refused"}
          /\ UNCHANGED <<cex, files, merged, accounts, tree, rows, proved>>
      BY <2>6 DEF WritePanics, ProveFails, More, inputs, readVars, treeVars, batchVars
    <3>2. AllMerged /\ Built
      BY <3>1 DEF BatchInv
    <3> QED
      BY <3>1, <3>2, BatchSame
  <2>7. CASE Done \/ UNCHANGED vars
    <3>1. UNCHANGED <<phase, cex, files, merged, accounts, tree, rows, proved>>
      BY <2>7 DEF Done, vars, loadVars, inputs, readVars, treeVars, batchVars
    <3>2. phase' = "refused" => AllMerged /\ Built
      BY <3>1 DEF BatchInv
    <3> QED
      BY <3>1, <3>2, BatchSame
  <2> QED
    BY <2>1, <2>2, <2>3, <2>4, <2>5, <2>6, <2>7 DEF Next, Batches
<1> QED
  BY <1>1, <1>2, LoadInvariant, BatchTypesInvariant, PTL DEF Spec

\* Prices are natural numbers.
Prices == \A a \in Assets : cex[a].price \in Nat

LEMMA PricesInvariant == Spec => []Prices
<1>1. Init => Prices
  BY DEF Init, LoadInit, Prices, Parsed, Reserved
<1>2. CexInv /\ Prices /\ [Next]_vars => Prices'
  <2> SUFFICES ASSUME CexInv, Prices, [Next]_vars  PROVE Prices'
    OBVIOUS
  <2>1. CASE StartReaders
    <3>1. cex' = ParsedCex
      BY <2>1 DEF StartReaders
    <3>2. ASSUME NEW a \in Assets  PROVE ParsedCex[a].price \in Nat
      <4>1. CASE a < Len(cexFile)
        <5>1. Len(cexFile) \in Nat /\ a + 1 \in 1 .. Len(cexFile)
          BY <4>1, LenProperties, AssetCountsAssumption DEF CexInv, Assets
        <5>2. cexFile[a+1] \in AssetLines
          BY <5>1, ElementOfSeq DEF CexInv
        <5>3. cexFile[a+1].price \in Nat
          BY <5>2, MaxUintAssumption DEF AssetLines, Uints
        <5> QED
          BY <4>1, <5>3 DEF ParsedCex, Parsed
      <4>2. CASE ~ (a < Len(cexFile))
        BY <4>2 DEF ParsedCex, Parsed, Reserved
      <4> QED
        BY <4>1, <4>2
    <3> QED
      BY <3>1, <3>2 DEF Prices
  <2>2. CASE UNCHANGED cex
    BY <2>2 DEF Prices
  <2>3. StartReaders \/ UNCHANGED cex
    BY DEF Next, Load, Loader, Batches, Done, ReadFiles, Reader, StartPanics, StartFails,
           Merge, LoadFails, Loaded, End, Read, ReadPanic, Send, BuildTree, WriteBatch,
           WritePanics, Prove, ProveFails, vars, loadVars, inputs
  <2> QED
    BY <2>1, <2>2, <2>3
<1> QED
  BY <1>1, <1>2, CexInvariant, PTL DEF Spec

----------------------------------------------------------------------------
(* Debts are covered.                                                      *)

LEMMA FinitelyMany == IsFiniteSet(Assets) /\ IsFiniteSet(Kinds)
<1>1. IsFiniteSet(Assets)
  <2>1. AssetCounts - 1 \in Int
    BY AssetCountsAssumption
  <2> QED
    BY <2>1, FS_Interval DEF Assets
<1>2. IsFiniteSet(Kinds)
  <2>1. IsFiniteSet({}) /\ Kinds = (({} \cup {"loan"}) \cup {"margin"}) \cup {"portfolioMargin"}
    BY FS_EmptySet DEF Kinds
  <2>2. IsFiniteSet((({} \cup {"loan"}) \cup {"margin"}) \cup {"portfolioMargin"})
    BY <2>1, FS_AddElement
  <2> QED
    BY <2>1, <2>2
<1> QED
  BY <1>1, <1>2

\* The value that the tiers define is an integer, of nothing it is zero.
LEMMA DefinedInt ==
    ASSUME NEW tiers \in Tables, NEW value \in Nat
    PROVE  DefinedValue(tiers, value) \in Int
<1> DEFINE parts == PartsOf(tiers, value)
<1>1. parts \in Seq(Int) /\ Len(parts) = TierCount
  BY WholeAndParts, TierSequence
<1>2. TierCount \in 0 .. TierCount
  BY TierCountAssumption
<1> HIDE DEF parts
<1>3. PrefixSums(parts)[TierCount] \in Int
  BY <1>1, <1>2, PrefixSumsAre
<1> QED
  BY <1>3 DEF DefinedValue, parts

LEMMA DefinedOfNothing ==
    ASSUME NEW tiers \in Tables, TiersValid(tiers)
    PROVE  DefinedValue(tiers, 0) = 0
<1>1. 1 \in 1 .. TierCount /\ 0 \in Nat
  BY TierCountAssumption
<1>2. tiers[1].boundary \in Nat /\ tiers[1].ratio \in Nat /\ Lower(tiers, 1) = 0
  BY <1>1, TableFields
<1>3. DefinedValue(tiers, 0) =
          PrecomputedValues(tiers)[1 - 1] + Haircut(0 - Lower(tiers, 1), tiers[1].ratio)
  BY <1>1, <1>2, DefinedInTier, ValidRising
<1>4. PrecomputedValues(tiers)[0] = 0
  <2>1. WholeTiers(tiers) \in Seq(Int)
    BY <1>1, WholeAndParts, TierSequence
  <2> QED
    BY <2>1, PrefixSumsAre DEF PrecomputedValues
<1>5. Haircut(0 - 0, tiers[1].ratio) = 0
  BY <1>2 DEF Haircut, PercentageMultiplier
<1>6. 1 - 1 = 0 /\ 0 + 0 = 0
  OBVIOUS
<1> QED
  BY <1>2, <1>3, <1>4, <1>5, <1>6

\* By tiers: the value of an account's collaterals of an asset, and its debt.
DefinedOf(account) ==
    [a \in Assets |->
        SumFunction([k \in Kinds |-> DefinedValue(Tiers(a, k), CollateralOf(account, a, k))])]
DebtOf(account) == [a \in Assets |-> AmountOf(account, a).debt * cex[a].price]

LEMMA WorthByAsset ==
    ASSUME FromStrings, Prices, AllTiersValid, NEW account, Holding(account), NEW a \in Assets
    PROVE  /\ \A k \in Kinds : /\ CollateralOf(account, a, k) \in Nat
                               /\ Tiers(a, k) \in Tables /\ TiersValid(Tiers(a, k))
           /\ DefinedOf(account)[a] \in Int /\ DebtOf(account)[a] \in Int
           /\ AmountOf(account, a) = NoAmounts => DefinedOf(account)[a] = 0 /\ DebtOf(account)[a] = 0
<1>1. AmountOf(account, a) \in AmountsOf(Nat) /\ cex[a].price \in Nat
  BY DEF Holding, Prices
<1>2. /\ AmountOf(account, a).debt \in Nat
      /\ \A k \in Kinds : AmountOf(account, a).collateral[k] \in Nat
  BY <1>1 DEF AmountsOf
<1>3. \A k \in Kinds : CollateralOf(account, a, k) \in Nat
  BY <1>1, <1>2 DEF CollateralOf
<1>4. \A k \in Kinds : Tiers(a, k) \in Tables /\ TiersValid(Tiers(a, k))
  BY ParsedIsCircuit DEF FromStrings, AllTiersValid
<1>5. DebtOf(account)[a] \in Int
  BY <1>1, <1>2 DEF DebtOf
<1> DEFINE f == [k \in Kinds |-> DefinedValue(Tiers(a, k), CollateralOf(account, a, k))]
<1>6. \A k \in Kinds : f[k] \in Int
  BY <1>3, <1>4, DefinedInt
<1>7. DefinedOf(account)[a] = SumFunctionOnSet(f, Kinds)
  <2>1. DefinedOf(account)[a] = SumFunction(f) /\ DOMAIN f = Kinds
    BY DEF DefinedOf
  <2> HIDE DEF f
  <2> QED
    BY <2>1, Zenon DEF SumFunction
<1>8. SumFunctionOnSet(f, Kinds) \in Int
  <2> HIDE DEF f
  <2> QED
    BY <1>6, FinitelyMany, SumOrder
<1>9. ASSUME AmountOf(account, a) = NoAmounts
      PROVE  DefinedOf(account)[a] = 0 /\ DebtOf(account)[a] = 0
  <2>1. \A k \in Kinds : CollateralOf(account, a, k) = 0
    BY <1>1, <1>9, NoAmountsFields DEF CollateralOf
  <2>2. \A k \in Kinds : f[k] = 0
    BY <1>4, <2>1, DefinedOfNothing
  <2>3. SumFunctionOnSet(f, Kinds) = 0
    <3>1. {} \in SUBSET Kinds
      OBVIOUS
    <3> HIDE DEF f
    <3>2. SumFunctionOnSet(f, Kinds) = SumFunctionOnSet(f, {})
      BY <1>6, <2>2, <3>1, FinitelyMany, SumZeros
    <3> QED
      BY <3>2, SumEmpty
  <2>4. DebtOf(account)[a] = 0
    BY <1>1, <1>9, NoAmountsFields DEF DebtOf
  <2> QED
    BY <1>7, <2>3, <2>4
<1> QED
  BY <1>3, <1>4, <1>5, <1>7, <1>8, <1>9

\* A list that the circuit accepts leaves out nothing that counts: its sums are
\* those over all assets, and so are the sums over the assets of the account.
LEMMA ListSums ==
    ASSUME FromStrings, Prices, AllTiersValid, NEW account, Holding(account), NEW list, NEW tier, NEW choices,
           ListValid(account, list, tier), ChoicesValid(account, list, choices)
    PROVE  /\ ListWorth(account, list, "debt") = SumFunctionOnSet(DebtOf(account), Assets)
           /\ CircuitCollateral(account, list, choices)
                  = SumFunctionOnSet(DefinedOf(account), Assets)
<1> DEFINE S == ToSet(list)
           debt == [a \in S |-> AmountOf(account, a)["debt"] * cex[a].price]
           values == [a \in S |-> SumFunction([k \in Kinds |->
                         ChoiceValue(CircuitTiers(Tiers(a, k)), CollateralOf(account, a, k),
                                     choices[a][k])])]
<1>1. S \subseteq Assets /\ \A a \in Assets \ S : AmountOf(account, a) = NoAmounts
  BY DEF ListValid, IsAssetEmpty
<1>2. \A a \in Assets : DefinedOf(account)[a] \in Int /\ DebtOf(account)[a] \in Int
  BY WorthByAsset
<1>3. \A a \in Assets \ S : DefinedOf(account)[a] = 0 /\ DebtOf(account)[a] = 0
  BY <1>1, WorthByAsset
<1>4. ASSUME NEW a \in S  PROVE debt[a] = DebtOf(account)[a]
  BY <1>1 DEF DebtOf
<1>5. ASSUME NEW a \in S  PROVE values[a] = DefinedOf(account)[a]
  <2>1. a \in Assets
    BY <1>1
  <2>2. ASSUME NEW k \in Kinds
        PROVE  ChoiceValue(CircuitTiers(Tiers(a, k)), CollateralOf(account, a, k), choices[a][k])
                   = DefinedValue(Tiers(a, k), CollateralOf(account, a, k))
    <3>1. /\ Tiers(a, k) \in Tables /\ TiersValid(Tiers(a, k))
          /\ CollateralOf(account, a, k) \in Nat
      BY <2>1, WorthByAsset
    <3>2. ChoiceValid(CircuitTiers(Tiers(a, k)), CollateralOf(account, a, k), choices[a][k])
      BY DEF ChoicesValid
    <3> QED
      BY <3>1, <3>2, AcceptedIsDefined
  <2>3. [k \in Kinds |->
            ChoiceValue(CircuitTiers(Tiers(a, k)), CollateralOf(account, a, k), choices[a][k])]
          = [k \in Kinds |-> DefinedValue(Tiers(a, k), CollateralOf(account, a, k))]
    BY <2>2, Zenon
  <2> QED
    BY <2>1, <2>3 DEF DefinedOf
<1>6. DOMAIN debt = S /\ DOMAIN values = S
  OBVIOUS
<1>7. ListWorth(account, list, "debt") = SumFunction(debt)
  BY Zenon DEF ListWorth
<1>8. CircuitCollateral(account, list, choices) = SumFunction(values)
  BY Zenon DEF CircuitCollateral
<1> HIDE DEF debt, values, S
<1>9. SumFunction(debt) = SumFunctionOnSet(DebtOf(account), Assets)
  BY <1>1, <1>2, <1>3, <1>4, <1>6, FinitelyMany, SumSupport
<1>10. SumFunction(values) = SumFunctionOnSet(DefinedOf(account), Assets)
  BY <1>1, <1>2, <1>3, <1>5, <1>6, FinitelyMany, SumSupport
<1> QED
  BY <1>7, <1>8, <1>9, <1>10

LEMMA AccountSums ==
    ASSUME FromStrings, Prices, AllTiersValid, NEW account, Holding(account)
    PROVE  /\ Worth(cex, account.assets, "debt") = SumFunctionOnSet(DebtOf(account), Assets)
           /\ DefinedCollateral(account) = SumFunctionOnSet(DefinedOf(account), Assets)
<1> DEFINE S == DOMAIN account.assets
           debt == [a \in S |-> account.assets[a]["debt"] * cex[a].price]
           values == [a \in S |-> SumFunction([k \in Kinds |->
                         DefinedValue(Tiers(a, k), CollateralOf(account, a, k))])]
<1>1. S \subseteq Assets /\ \A a \in Assets \ S : AmountOf(account, a) = NoAmounts
  BY DEF Holding, AmountOf
<1>2. \A a \in Assets : DefinedOf(account)[a] \in Int /\ DebtOf(account)[a] \in Int
  BY WorthByAsset
<1>3. \A a \in Assets \ S : DefinedOf(account)[a] = 0 /\ DebtOf(account)[a] = 0
  BY <1>1, WorthByAsset
<1>4. \A a \in S : debt[a] = DebtOf(account)[a]
  BY <1>1 DEF DebtOf, AmountOf
<1>5. \A a \in S : values[a] = DefinedOf(account)[a]
  BY <1>1 DEF DefinedOf
<1>6. DOMAIN debt = S /\ DOMAIN values = S
  OBVIOUS
<1>7. Worth(cex, account.assets, "debt") = SumFunction(debt)
  BY Zenon DEF Worth
<1>8. DefinedCollateral(account) = SumFunction(values)
  BY Zenon DEF DefinedCollateral
<1> HIDE DEF debt, values, S
<1>9. SumFunction(debt) = SumFunctionOnSet(DebtOf(account), Assets)
  BY <1>1, <1>2, <1>3, <1>4, <1>6, FinitelyMany, SumSupport
<1>10. SumFunction(values) = SumFunctionOnSet(DefinedOf(account), Assets)
  BY <1>1, <1>2, <1>3, <1>5, <1>6, FinitelyMany, SumSupport
<1> QED
  BY <1>7, <1>8, <1>9, <1>10

\* An account that passes the checks of a user is covered.
LEMMA CheckedIsCovered ==
    ASSUME FromStrings, Prices, AllTiersValid, NEW account, Holding(account), NEW tier, NEW claim,
           UserChecked(account, tier, claim)
    PROVE  UserCovered(account)
<1>1. /\ ListValid(account, claim.list, tier)
      /\ ChoicesValid(account, claim.list, claim.choices)
      /\ Covered(account, claim.list, claim.choices)
  BY DEF UserChecked
<1>2. Worth(cex, account.assets, "debt") <= DefinedCollateral(account)
  <2>1. ListWorth(account, claim.list, "debt")
            <= CircuitCollateral(account, claim.list, claim.choices)
    BY <1>1 DEF Covered
  <2> QED
    BY <1>1, <2>1, ListSums, AccountSums
<1>3. ASSUME NEW a \in DOMAIN account.assets
      PROVE  TotalOf(account.assets[a]) <= account.assets[a].equity
  <2>1. a \in Assets /\ AmountOf(account, a) = account.assets[a]
    BY DEF Holding, AmountOf
  <2>2. CASE a \in ToSet(claim.list)
    BY <1>1, <2>1, <2>2 DEF Covered
  <2>3. CASE a \notin ToSet(claim.list)
    <3>1. account.assets[a] = NoAmounts
      BY <1>1, <2>1, <2>3 DEF ListValid, IsAssetEmpty
    <3>2. TotalOf(NoAmounts) = 0 /\ NoAmounts.equity = 0
      BY NoAmountsFields DEF TotalOf, Kinds
    <3> QED
      BY <3>1, <3>2
  <2> QED
    BY <2>2, <2>3
<1> QED
  BY <1>2, <1>3 DEF UserCovered

\* Against any claim: where the circuit checks a user, loaded or made up, in
\* whatever tier, with whatever list of assets and whatever tiers and flags of
\* the collaterals, that user is covered.  The tree need not have the user.
AnyClaimIsCovered ==
    AllTiersValid =>
        \A account, tier, claim :
            Holding(account) /\ UserChecked(account, tier, claim) => UserCovered(account)

\* In a proved batch each user's debt is covered by the value that the tiers
\* define, and no collateral counts twice; and so it would be in a proof from
\* any other claims than those that Assignment makes.
THEOREM Coverage == Spec => [](ProvedIsCovered /\ AnyClaimIsCovered)
<1>1. CexInv /\ Prices /\ LoadInv /\ BatchTypes /\ BatchInv => ProvedIsCovered
  <2> SUFFICES ASSUME CexInv, Prices, LoadInv, BatchTypes, BatchInv,
                      NEW r \in 1 .. proved, NEW u \in 1 .. Len(rows[r].ops)
               PROVE  UserCovered(rows[r].ops[u])
    BY DEF ProvedIsCovered
  <2>1. r \in 1 .. Len(rows) /\ Len(rows) \in Nat /\ rows # <<>>
    <3>1. PICK S : rows \in Seq(S)
      BY DEF BatchTypes
    <3>2. Len(rows) \in Nat /\ proved \in 0 .. Len(rows)
      BY <3>1, LenProperties DEF BatchTypes
    <3>3. r \in 1 .. Len(rows) /\ Len(rows) # 0
      BY <3>2
    <3> QED
      BY <3>1, <3>2, <3>3, EmptySeq
  <2>2. AllMerged /\ Built /\ r - 1 \in Nat /\ r - 1 < BatchNumber
    <3>1. Len(rows) <= BatchNumber /\ AllMerged /\ Built
      BY <2>1 DEF BatchInv
    <3>2. BatchNumber \in Nat
      BY <3>1, BatchSums
    <3> QED
      BY <2>1, <3>1, <3>2
  <2>3. rows[r].ops = OpsOf(r - 1) /\ OpsOf(r - 1) \in Seq(Listed)
    BY <2>1, <2>2, OpsAre DEF BatchInv
  <2>4. rows[r].ops[u] \in Listed
    BY <2>3, ElementOfSeq
  <2>5. PICK tier, assignment : CircuitAccepts(rows[r], tier, assignment)
    BY DEF BatchInv, Accepted
  <2>6. AllTiersValid /\ UserChecked(rows[r].ops[u], tier, assignment[u])
    BY <2>5 DEF CircuitAccepts, UserValid
  <2>7. Holding(rows[r].ops[u])
    BY <2>4, ListedAssets
  <2> QED
    BY <2>6, <2>7, CheckedIsCovered DEF CexInv
<1>2. CexInv /\ Prices => AnyClaimIsCovered
  BY CheckedIsCovered DEF CexInv, AnyClaimIsCovered
<1> QED
  BY <1>1, <1>2, CexInvariant, PricesInvariant, LoadInvariant, BatchTypesInvariant, BatchInvariant, PTL

----------------------------------------------------------------------------
(* The amounts of many accounts, part by part.                             *)

\* The five amounts of an asset, each by itself.
Parts == {"equity", "debt"} \cup Kinds
Part(m, p) == IF p \in Kinds THEN m.collateral[p] ELSE m[p]

\* A part of amounts is a natural number.
LEMMA PartsAre ==
    ASSUME NEW m \in AmountsOf(Nat)
    PROVE  /\ Part(m, "equity") = m.equity /\ Part(m, "debt") = m.debt
           /\ \A k \in Kinds : Part(m, k) = m.collateral[k]
           /\ \A p \in Parts : Part(m, p) \in Nat
<1>1. "equity" \notin Kinds /\ "debt" \notin Kinds
  BY DEF Kinds
<1>2. m.equity \in Nat /\ m.debt \in Nat /\ \A k \in Kinds : m.collateral[k] \in Nat
  BY DEF AmountsOf
<1> QED
  BY <1>1, <1>2 DEF Part, Parts

\* Amounts with the same parts are the same.
LEMMA PartsDetermine ==
    ASSUME NEW m \in AmountsOf(Nat), NEW n \in AmountsOf(Nat),
           \A p \in Parts : Part(m, p) = Part(n, p)
    PROVE  m = n
<1>1. m.equity = n.equity /\ m.debt = n.debt
  BY PartsAre DEF Parts
<1>2. \A k \in Kinds : m.collateral[k] = n.collateral[k]
  BY PartsAre DEF Parts
<1>3. m.collateral \in [Kinds -> Nat] /\ n.collateral \in [Kinds -> Nat]
  BY DEF AmountsOf
<1>4. m.collateral = n.collateral
  BY <1>2, <1>3
<1> QED
  BY <1>1, <1>4 DEF AmountsOf

\* Amounts fit into 64 bits if their parts do.
LEMMA PartsFit ==
    ASSUME NEW m \in AmountsOf(Nat)
    PROVE  AmountsFit(m) <=> \A p \in Parts : Part(m, p) <= MaxUint
BY PartsAre DEF AmountsFit, Parts

\* Amounts are added part by part.
LEMMA PartsAdd ==
    ASSUME NEW m \in AmountsOf(Nat), NEW n \in AmountsOf(Nat)
    PROVE  /\ AddAmounts(m, n) \in AmountsOf(Nat)
           /\ \A p \in Parts : Part(AddAmounts(m, n), p) = Part(m, p) + Part(n, p)
<1>1. /\ m.equity \in Nat /\ m.debt \in Nat /\ \A k \in Kinds : m.collateral[k] \in Nat
      /\ n.equity \in Nat /\ n.debt \in Nat /\ \A k \in Kinds : n.collateral[k] \in Nat
  BY DEF AmountsOf
<1> DEFINE c == [k \in Kinds |-> m.collateral[k] + n.collateral[k]]
           s == AddAmounts(m, n)
<1>2. s.equity = m.equity + n.equity /\ s.debt = m.debt + n.debt /\ s.collateral = c
  BY DEF AddAmounts
<1>3. c \in [Kinds -> Nat] /\ \A k \in Kinds : c[k] = m.collateral[k] + n.collateral[k]
  BY <1>1
<1>4. s \in AmountsOf(Nat)
  BY <1>1, <1>3 DEF AddAmounts, AmountsOf
<1> HIDE DEF s, c
<1>5. ASSUME NEW p \in Parts  PROVE Part(s, p) = Part(m, p) + Part(n, p)
  <2>1. CASE p \in Kinds
    BY <1>2, <1>3, <2>1 DEF Part
  <2>2. CASE p \notin Kinds
    <3>1. p = "equity" \/ p = "debt"
      BY <2>2 DEF Parts
    <3>2. Part(s, p) = s[p] /\ Part(m, p) = m[p] /\ Part(n, p) = n[p]
      BY <2>2 DEF Part
    <3> QED
      BY <1>2, <3>1, <3>2
  <2> QED
    BY <2>1, <2>2
<1> QED
  BY <1>4, <1>5 DEF s

\* So are those of a list.
LEMMA PartsSum ==
    ASSUME NEW n \in Nat, NEW f, DOMAIN f = 1 .. n, \A x \in 1 .. n : f[x] \in AmountsOf(Nat)
    PROVE  /\ SumAmounts(f) \in AmountsOf(Nat)
           /\ \A p \in Parts :
                  Part(SumAmounts(f), p) = SumFunctionOnSet([x \in 1 .. n |-> Part(f[x], p)], 1 .. n)
<1> DEFINE q == SumAmounts(f)
           D == 1 .. n
           equity == [x \in D |-> f[x].equity]
           debt == [x \in D |-> f[x].debt]
           kind(k) == [x \in D |-> f[x].collateral[k]]
           g(p) == [x \in D |-> Part(f[x], p)]
<1>1. IsFiniteSet(D)
  BY FS_Interval
<1>2. \A h : DOMAIN h = D => SumFunction(h) = SumFunctionOnSet(h, D)
  BY Zenon DEF SumFunction
<1>3. DOMAIN equity = D /\ DOMAIN debt = D /\ \A k : DOMAIN kind(k) = D
  OBVIOUS
<1>4. /\ q.equity = SumFunction(equity) /\ q.debt = SumFunction(debt)
      /\ q.collateral = [k \in Kinds |-> SumFunction(kind(k))]
      /\ q = [equity |-> q.equity, debt |-> q.debt, collateral |-> q.collateral]
  BY DEF SumAmounts
<1>5. ASSUME NEW x \in D
      PROVE  /\ equity[x] = f[x].equity /\ equity[x] \in Nat
             /\ debt[x] = f[x].debt /\ debt[x] \in Nat
             /\ \A k \in Kinds : kind(k)[x] = f[x].collateral[k] /\ kind(k)[x] \in Nat
             /\ \A p \in Parts : g(p)[x] = Part(f[x], p) /\ g(p)[x] \in Nat
  BY PartsAre DEF AmountsOf
<1>6. ASSUME NEW x \in D
      PROVE  g("equity")[x] = equity[x] /\ g("debt")[x] = debt[x]
             /\ \A k \in Kinds : g(k)[x] = kind(k)[x]
  BY <1>5, PartsAre
<1>7. "equity" \in Parts /\ "debt" \in Parts /\ Kinds \subseteq Parts
      /\ "equity" \notin Kinds /\ "debt" \notin Kinds
  BY DEF Parts, Kinds
<1>8. \A p \in Parts : p = "equity" \/ p = "debt" \/ p \in Kinds
  BY DEF Parts
<1> HIDE DEF q, D, equity, debt, kind, g
<1>9. /\ q.equity = SumFunctionOnSet(g("equity"), D) /\ q.equity \in Nat
      /\ q.debt = SumFunctionOnSet(g("debt"), D) /\ q.debt \in Nat
      /\ \A k \in Kinds : /\ q.collateral[k] = SumFunctionOnSet(g(k), D)
                          /\ q.collateral[k] \in Nat
  <2>1. ASSUME NEW p \in Parts, NEW h, DOMAIN h = D,
               \A x \in D : h[x] \in Nat /\ g(p)[x] = h[x]
        PROVE  SumFunction(h) = SumFunctionOnSet(g(p), D) /\ SumFunction(h) \in Nat
    <3>1. SumFunctionOnSet(h, D) = SumFunctionOnSet(g(p), D)
      BY <1>1, <2>1, SumSame
    <3>2. SumFunctionOnSet(h, D) \in Nat
      BY <1>1, <2>1, SumNat
    <3> QED
      BY <1>2, <2>1, <3>1, <3>2
  <2>2. SumFunction(equity) = SumFunctionOnSet(g("equity"), D) /\ SumFunction(equity) \in Nat
    BY <1>3, <1>5, <1>6, <1>7, <2>1
  <2>3. SumFunction(debt) = SumFunctionOnSet(g("debt"), D) /\ SumFunction(debt) \in Nat
    BY <1>3, <1>5, <1>6, <1>7, <2>1
  <2>4. ASSUME NEW k \in Kinds
        PROVE  SumFunction(kind(k)) = SumFunctionOnSet(g(k), D) /\ SumFunction(kind(k)) \in Nat
    BY <1>3, <1>5, <1>6, <1>7, <2>1
  <2> QED
    BY <1>4, <2>2, <2>3, <2>4
<1>10. q \in AmountsOf(Nat)
  <2>1. q.collateral \in [Kinds -> Nat]
    BY <1>4, <1>9
  <2> QED
    BY <1>4, <1>9, <2>1 DEF AmountsOf
<1>11. ASSUME NEW p \in Parts  PROVE Part(q, p) = SumFunctionOnSet(g(p), D)
  BY <1>7, <1>8, <1>9 DEF Part
<1> QED
  BY <1>10, <1>11 DEF q, g, D

----------------------------------------------------------------------------
(* Sums of lists.                                                          *)

\* The sum of a list, each element with its weight.
ListSum(w, s) == SumFunctionOnSet([u \in 1 .. Len(s) |-> w[s[u]]], 1 .. Len(s))

\* f has the weights of the elements of s.
WeightsOf(S, w, s, f) ==
    /\ \A x \in S : w[x] \in Nat
    /\ s \in Seq(S)
    /\ \A u \in 1 .. Len(s) : f[u] = w[s[u]]

\* Their sum is the sum of the list.
LEMMA ListSumIs ==
    ASSUME NEW S, NEW w, NEW s, NEW f, WeightsOf(S, w, s, f)
    PROVE  ListSum(w, s) = SumFunctionOnSet(f, 1 .. Len(s)) /\ ListSum(w, s) \in Nat
<1>0. (\A x \in S : w[x] \in Nat) /\ s \in Seq(S) /\ \A u \in 1 .. Len(s) : f[u] = w[s[u]]
  BY DEF WeightsOf
<1> DEFINE g == [u \in 1 .. Len(s) |-> w[s[u]]]
<1>1. IsFiniteSet(1 .. Len(s))
  BY <1>0, LenProperties, FS_Interval
<1>2. \A u \in 1 .. Len(s) : g[u] \in Nat /\ g[u] = f[u]
  BY <1>0, ElementOfSeq
<1> HIDE DEF g
<1>3. SumFunctionOnSet(g, 1 .. Len(s)) = SumFunctionOnSet(f, 1 .. Len(s))
  BY <1>1, <1>2, SumSame
<1>4. SumFunctionOnSet(g, 1 .. Len(s)) \in Nat
  BY <1>1, <1>2, SumNat
<1> QED
  BY <1>3, <1>4 DEF ListSum, g

\* The sums of the shortest lists.
LEMMA ListSumSmall ==
    ASSUME NEW w
    PROVE  /\ ListSum(w, <<>>) = 0
           /\ \A x : w[x] \in Nat => ListSum(w, <<x>>) = w[x]
<1>1. ListSum(w, <<>>) = 0
  <2>1. 1 .. Len(<<>>) = {}
    OBVIOUS
  <2> QED
    BY <2>1, SumEmpty DEF ListSum
<1>2. ASSUME NEW x, w[x] \in Nat  PROVE ListSum(w, <<x>>) = w[x]
  <2> DEFINE g == [u \in 1 .. Len(<<x>>) |-> w[<<x>>[u]]]
  <2>1. 1 .. Len(<<x>>) = {1} /\ g[1] = w[x]
    OBVIOUS
  <2> HIDE DEF g
  <2>2. SumFunctionOnSet(g, {1}) = g[1]
    BY <1>2, <2>1, SumSingle
  <2>3. ListSum(w, <<x>>) = SumFunctionOnSet(g, 1 .. Len(<<x>>))
    BY DEF ListSum, g
  <2>4. ListSum(w, <<x>>) = SumFunctionOnSet(g, {1})
    BY <2>1, <2>3, Zenon
  <2> QED
    BY <2>1, <2>2, <2>4
<1> QED
  BY <1>1, <1>2

\* Two lists in one.
LEMMA ListSumConcat ==
    ASSUME NEW S, NEW w, \A x \in S : w[x] \in Nat, NEW s \in Seq(S), NEW t \in Seq(S)
    PROVE  ListSum(w, s \o t) = ListSum(w, s) + ListSum(w, t)
<1> DEFINE m == Len(s)
           n == Len(t)
           r == s \o t
           f == [u \in 1 .. m + n |-> w[r[u]]]
           g == [u \in 1 .. n |-> w[t[u]]]
           A == 1 .. m
           B == m + 1 .. m + n
<1>1. m \in Nat /\ n \in Nat
  BY LenProperties
<1>2. /\ r \in Seq(S) /\ Len(r) = m + n
      /\ \A i \in 1 .. m + n : r[i] = IF i <= m THEN s[i] ELSE t[i - m]
  BY ConcatProperties
<1> HIDE DEF m, n, r
<1>3. \A u \in 1 .. m + n : f[u] = w[r[u]] /\ f[u] \in Nat
  BY <1>2, ElementOfSeq
<1>4. \A u \in 1 .. m : f[u] = w[s[u]]
  BY <1>1, <1>2
<1>5. \A u \in 1 .. n : f[m + u] = w[t[u]] /\ g[u] = w[t[u]]
  <2> SUFFICES ASSUME NEW u \in 1 .. n  PROVE f[m + u] = w[t[u]] /\ g[u] = w[t[u]]
    OBVIOUS
  <2>1. m + u \in 1 .. m + n /\ ~ (m + u <= m) /\ (m + u) - m = u
    BY <1>1
  <2> QED
    BY <1>2, <2>1
<1>6. \A u \in 1 .. n : w[t[u]] \in Nat
  BY ElementOfSeq DEF n
<1>7. IsFiniteSet(A) /\ IsFiniteSet(B) /\ A \cap B = {} /\ A \cup B = 1 .. m + n
  <2>1. m + 1 \in Int /\ m + n \in Int
    BY <1>1
  <2>2. IsFiniteSet(A) /\ IsFiniteSet(B)
    BY <1>1, <2>1, FS_Interval
  <2> QED
    BY <1>1, <2>2
<1> HIDE DEF f, g
<1>8. ListSum(w, r) = SumFunctionOnSet(f, 1 .. m + n)
  <2>1. \A u \in 1 .. Len(r) : f[u] = w[r[u]]
    BY <1>2, <1>3
  <2>2. r \in Seq(S)
    BY <1>2
  <2>3. ListSum(w, r) = SumFunctionOnSet(f, 1 .. Len(r))
    <3>1. WeightsOf(S, w, r, f)
      BY <2>1, <2>2 DEF WeightsOf
    <3> QED
      BY <3>1, ListSumIs
  <2> QED
    BY <1>2, <2>3
<1>9. ListSum(w, s) = SumFunctionOnSet(f, A) /\ ListSum(w, s) \in Nat
  <2>1. \A u \in 1 .. Len(s) : f[u] = w[s[u]]
    BY <1>4 DEF m
  <2> QED
    <3>1. WeightsOf(S, w, s, f)
      BY <2>1 DEF WeightsOf, m
    <3> QED
      BY <3>1, ListSumIs DEF m
<1>10. ListSum(w, t) = SumFunctionOnSet(g, 1 .. n) /\ ListSum(w, t) \in Nat
  <2>1. \A u \in 1 .. Len(t) : g[u] = w[t[u]]
    BY <1>5 DEF n
  <2> QED
    <3>1. WeightsOf(S, w, t, g)
      BY <2>1 DEF WeightsOf, n
    <3> QED
      BY <3>1, ListSumIs DEF n
<1>11. SumFunctionOnSet(f, B) = SumFunctionOnSet(g, 1 .. n)
  <2>1. \A u \in 1 .. n : g[u] \in Int /\ f[m + u] = g[u]
    BY <1>5, <1>6
  <2>2. m \in Int /\ n \in Nat
    BY <1>1
  <2>3. SumFunctionOnSet(f, m + 1 .. m + n) = SumFunctionOnSet(g, 1 .. n)
    <3>1. ShiftedBy(m, n, f, g)
      BY <2>1, <2>2 DEF ShiftedBy
    <3> QED
      BY <3>1, SumShift
  <2> QED
    BY <2>3 DEF B
<1>12. \A x \in A \cup B : f[x] \in Int
  BY <1>3, <1>7
<1> HIDE DEF A, B
<1>13. SumFunctionOnSet(f, A \cup B) = SumFunctionOnSet(f, A) + SumFunctionOnSet(f, B)
  BY <1>7, <1>12, SumUnion
<1>14. SumFunctionOnSet(f, 1 .. m + n) = SumFunctionOnSet(f, A) + SumFunctionOnSet(f, B)
  BY <1>7, <1>13, Zenon
<1> QED
  BY <1>8, <1>9, <1>10, <1>11, <1>14 DEF r

\* The sum of a flattened list is that of the sums of its parts.
LEMMA ListSumFlatten ==
    ASSUME NEW S, NEW w, \A x \in S : w[x] \in Nat, NEW seqs \in Seq(Seq(S)),
           NEW h, \A i \in 1 .. Len(seqs) : h[i] = ListSum(w, seqs[i])
    PROVE  /\ ListSum(w, FlattenSeq(seqs)) = SumFunctionOnSet(h, 1 .. Len(seqs))
           /\ \A i \in 1 .. Len(seqs) : h[i] \in Nat
<1>0. ASSUME NEW s \in Seq(S), NEW t \in Seq(S)
      PROVE  ListSum(w, s \o t) = ListSum(w, s) + ListSum(w, t)
  BY ListSumConcat
<1>1. Len(seqs) \in Nat /\ \A i \in 1 .. Len(seqs) : seqs[i] \in Seq(S)
  BY LenProperties, ElementOfSeq
<1>2. PICK g \in [0 .. Len(seqs) -> Seq(S)] :
          /\ g[0] = <<>>
          /\ \A i \in 1 .. Len(seqs) : g[i] = g[i-1] \o seqs[i]
          /\ g[Len(seqs)] = FlattenSeq(seqs)
  BY FlattenIs
<1>3. \A i \in 1 .. Len(seqs) : h[i] \in Nat
  <2> SUFFICES ASSUME NEW i \in 1 .. Len(seqs)  PROVE h[i] \in Nat
    OBVIOUS
  <2> DEFINE s == seqs[i]
             f == [u \in 1 .. Len(s) |-> w[s[u]]]
  <2>1. s \in Seq(S) /\ \A u \in 1 .. Len(s) : f[u] = w[s[u]]
    BY <1>1
  <2> HIDE DEF s, f
  <2>2. ListSum(w, s) \in Nat
    <3>1. WeightsOf(S, w, s, f)
      BY <2>1 DEF WeightsOf
    <3> QED
      BY <3>1, ListSumIs
  <2> QED
    BY <2>2 DEF s
<1> DEFINE y == [i \in 0 .. Len(seqs) |-> ListSum(w, g[i])]
<1>4. y[0] = 0
  BY <1>1, <1>2, ListSumSmall
<1>5. ASSUME NEW i \in 1 .. Len(seqs)  PROVE y[i] = y[i-1] + h[i]
  <2>1. i \in 0 .. Len(seqs) /\ i - 1 \in 0 .. Len(seqs)
    BY <1>1
  <2>2. g[i-1] \in Seq(S) /\ seqs[i] \in Seq(S) /\ g[i] = g[i-1] \o seqs[i]
    BY <1>1, <1>2, <2>1
  <2>3. ListSum(w, g[i-1] \o seqs[i]) = ListSum(w, g[i-1]) + ListSum(w, seqs[i])
    <3> DEFINE s == g[i-1]
               t == seqs[i]
    <3>1. s \in Seq(S) /\ t \in Seq(S)
      BY <2>2
    <3> HIDE DEF s, t, y
    <3>2. ListSum(w, s \o t) = ListSum(w, s) + ListSum(w, t)
      BY <1>0, <3>1
    <3> QED
      BY <3>2 DEF s, t
  <2>4. y[i] = ListSum(w, g[i]) /\ y[i-1] = ListSum(w, g[i-1])
    BY <2>1
  <2> HIDE DEF y
  <2> QED
    BY <2>2, <2>3, <2>4
<1>6. y[Len(seqs)] = ListSum(w, FlattenSeq(seqs))
  BY <1>1, <1>2
<1> HIDE DEF y
<1>7. y[Len(seqs)] = SumFunctionOnSet(h, 1 .. Len(seqs))
  <2> DEFINE n == Len(seqs)
  <2>1. n \in Nat /\ (\A i \in 1 .. n : h[i] \in Int) /\ \A i \in 1 .. n : y[i] = y[i-1] + h[i]
    BY <1>1, <1>3, <1>5
  <2> HIDE DEF n
  <2>2. y[n] = SumFunctionOnSet(h, 1 .. n)
    BY <1>4, <2>1, SumSteps
  <2> QED
    BY <2>2 DEF n
<1> QED
  BY <1>3, <1>6, <1>7

----------------------------------------------------------------------------
(* What an account has of an asset.                                        *)

\* What an account, and a row, has of an asset.
Everyone == Listed \cup Users \cup Paddings
Weight(a, p) == [account \in Everyone |-> Part(AmountOf(account, a), p)]
RowWeight(a, p) == [row \in ValidRows |-> Part(Owned(row, a), p)]

\* A row's account has what the row has.
LEMMA OwnedTyped ==
    ASSUME NEW row \in ValidRows, NEW a
    PROVE  /\ Owned(row, a) \in AmountsOf(Nat)
           /\ AmountOf(Account(cex, row), a) = Owned(row, a)
           /\ Account(cex, row) \in Users
<1>1. Account(cex, row).assets = [x \in AssetsOf(row) |-> Amounts(row, x)]
  BY DEF Account
<1>2. AmountOf(Account(cex, row), a) = Owned(row, a)
  BY <1>1 DEF AmountOf, Owned
<1>3. Owned(row, a) \in AmountsOf(Nat)
  BY ValidAmounts, NoAmountsFields DEF Owned
<1> QED
  BY <1>2, <1>3 DEF Users

\* Accounts have natural numbers of an asset, padding has nothing.
LEMMA EveryoneTyped ==
    ASSUME NEW account \in Everyone, NEW a
    PROVE  /\ AmountOf(account, a) \in AmountsOf(Nat)
           /\ account \in Paddings => AmountOf(account, a) = NoAmounts
<1>1. account \in Listed => AmountOf(account, a) \in AmountsOf(Nat)
  BY ListedAssets
<1>2. ASSUME account \in Users  PROVE AmountOf(account, a) \in AmountsOf(Nat)
  <2>1. PICK row \in ValidRows : account = Account(cex, row)
    BY <1>2 DEF Users
  <2> QED
    BY <2>1, OwnedTyped
<1>3. account \in Paddings => AmountOf(account, a) = NoAmounts
  BY PaddingFields DEF Paddings, AmountOf
<1> QED
  BY <1>1, <1>2, <1>3, NoAmountsFields DEF Everyone

\* So weights are natural numbers.
LEMMA WeightsNat ==
    ASSUME NEW a, NEW p \in Parts
    PROVE  /\ \A account \in Everyone : /\ Weight(a, p)[account] = Part(AmountOf(account, a), p)
                                        /\ Weight(a, p)[account] \in Nat
           /\ \A row \in ValidRows : /\ RowWeight(a, p)[row] = Part(Owned(row, a), p)
                                     /\ RowWeight(a, p)[row] \in Nat
                                     /\ RowWeight(a, p)[row] = Weight(a, p)[Account(cex, row)]
<1>1. ASSUME NEW account \in Everyone
      PROVE  /\ Weight(a, p)[account] = Part(AmountOf(account, a), p)
             /\ Weight(a, p)[account] \in Nat
  BY EveryoneTyped, PartsAre DEF Weight
<1>2. ASSUME NEW row \in ValidRows
      PROVE  /\ RowWeight(a, p)[row] = Part(Owned(row, a), p)
             /\ RowWeight(a, p)[row] \in Nat
             /\ RowWeight(a, p)[row] = Weight(a, p)[Account(cex, row)]
  <2>1. /\ Owned(row, a) \in AmountsOf(Nat) /\ Account(cex, row) \in Everyone
        /\ AmountOf(Account(cex, row), a) = Owned(row, a)
    BY OwnedTyped DEF Everyone
  <2>2. RowWeight(a, p)[row] = Part(Owned(row, a), p)
    BY DEF RowWeight
  <2>3. Part(Owned(row, a), p) \in Nat
    BY <2>1, PartsAre
  <2>4. Weight(a, p)[Account(cex, row)] = Part(AmountOf(Account(cex, row), a), p)
    BY <1>1, <2>1
  <2> QED
    BY <2>1, <2>2, <2>3, <2>4
<1> QED
  BY <1>1, <1>2

\* The users of a batch, part by part.
LEMMA AddedIs ==
    ASSUME NEW before \in [Assets -> AmountsOf(Nat)], NEW ops \in Seq(Everyone)
    PROVE  /\ Added(before, ops) \in [Assets -> AmountsOf(Nat)]
           /\ \A a \in Assets : \A p \in Parts :
                  Part(Added(before, ops)[a], p) = Part(before[a], p) + ListSum(Weight(a, p), ops)
<1> DEFINE n == Len(ops)
           own(a) == [u \in 1 .. n |-> AmountOf(ops[u], a)]
<1>1. n \in Nat /\ \A u \in 1 .. n : ops[u] \in Everyone
  BY LenProperties, ElementOfSeq
<1>2. Added(before, ops) = [a \in Assets |-> AddAmounts(before[a], SumAmounts(own(a)))]
  BY DEF Added
<1>3. ASSUME NEW a \in Assets
      PROVE  /\ SumAmounts(own(a)) \in AmountsOf(Nat)
             /\ \A p \in Parts : Part(SumAmounts(own(a)), p) = ListSum(Weight(a, p), ops)
  <2> DEFINE f == own(a)
             g(p) == [x \in 1 .. n |-> Part(f[x], p)]
  <2>1. DOMAIN f = 1 .. n /\ \A u \in 1 .. n : f[u] = AmountOf(ops[u], a)
    OBVIOUS
  <2>2. \A u \in 1 .. n : f[u] \in AmountsOf(Nat)
    BY <1>1, <2>1, EveryoneTyped
  <2> HIDE DEF f
  <2>3. /\ SumAmounts(f) \in AmountsOf(Nat)
        /\ \A p \in Parts : Part(SumAmounts(f), p) = SumFunctionOnSet(g(p), 1 .. n)
    BY <1>1, <2>1, <2>2, PartsSum
  <2>4. ASSUME NEW p \in Parts  PROVE ListSum(Weight(a, p), ops) = SumFunctionOnSet(g(p), 1 .. n)
    <3> DEFINE w == Weight(a, p)
               h == g(p)
    <3>1. \A x \in Everyone : w[x] \in Nat /\ w[x] = Part(AmountOf(x, a), p)
      BY WeightsNat
    <3>2. \A u \in 1 .. n : h[u] = w[ops[u]]
      BY <1>1, <2>1, <3>1
    <3>3. \A u \in 1 .. Len(ops) : h[u] = w[ops[u]]
      BY <3>2
    <3> HIDE DEF w, h
    <3>4. ListSum(w, ops) = SumFunctionOnSet(h, 1 .. Len(ops))
      <4>1. WeightsOf(Everyone, w, ops, h)
        BY <3>1, <3>3 DEF WeightsOf
      <4> QED
        BY <4>1, ListSumIs
    <3> QED
      BY <3>4 DEF w, h
  <2> QED
    BY <2>3, <2>4 DEF f
<1> HIDE DEF own, n
<1>4. ASSUME NEW a \in Assets
      PROVE  /\ Added(before, ops)[a] \in AmountsOf(Nat)
             /\ \A p \in Parts : Part(Added(before, ops)[a], p)
                                     = Part(before[a], p) + ListSum(Weight(a, p), ops)
  <2>1. Added(before, ops)[a] = AddAmounts(before[a], SumAmounts(own(a))) /\ before[a] \in AmountsOf(Nat)
    BY <1>2
  <2> QED
    BY <1>3, <2>1, PartsAdd
<1>5. Added(before, ops) \in [Assets -> AmountsOf(Nat)]
  BY <1>2, <1>4
<1> QED
  BY <1>4, <1>5

----------------------------------------------------------------------------
(* Tiers.                                                                  *)

\* There is a tier for every valid row.
LEMMA RowTier ==
    ASSUME NEW row \in ValidRows
    PROVE  /\ TierFor(Cardinality(AssetsOf(row))) \in AssetCountsTiers
           /\ Cardinality(AssetsOf(row)) \in Nat
           /\ Cardinality(AssetsOf(row)) <= TierFor(Cardinality(AssetsOf(row)))
<1> DEFINE count == Cardinality(AssetsOf(row))
           fits == {t \in AssetCountsTiers : count <= t}
<1>1. IsFiniteSet(Assets) /\ Cardinality(Assets) = AssetCounts
  <2>1. IsFiniteSet(0 .. AssetCounts - 1)
        /\ Cardinality(0 .. AssetCounts - 1)
               = IF 0 > AssetCounts - 1 THEN 0 ELSE (AssetCounts - 1) - 0 + 1
    BY AssetCountsAssumption, FS_Interval
  <2> QED
    BY <2>1, AssetCountsAssumption DEF Assets
<1>2. count \in Nat /\ count <= AssetCounts
  BY <1>1, ValidAmounts, FS_Subset, FS_CardinalityType
<1>3. AssetCounts \in fits /\ fits \subseteq Nat
  <2>1. AssetCounts \in AssetCountsTiers
    BY TiersAssumption
  <2>2. AssetCountsTiers \subseteq Nat
    BY TiersAssumption, AssetCountsAssumption
  <2> HIDE DEF count
  <2>3. AssetCounts \in fits
    BY <1>2, <2>1
  <2> QED
    BY <2>2, <2>3
<1>4. PICK t \in fits : \A s \in fits : t <= s
  BY <1>3, LeastNat
<1>5. TierFor(count) = CHOOSE x \in fits : \A s \in fits : x <= s
  BY DEF TierFor
<1> HIDE DEF count
<1>6. TierFor(count) \in fits
  <2> HIDE DEF fits
  <2> QED
    BY <1>4, <1>5, Zenon
<1> QED
  BY <1>2, <1>6 DEF count

\* All tiers together have each row of a file once.
LEMMA FilePart ==
    ASSUME NEW file \in Seq(ValidRows), NEW a \in Assets, NEW p \in Parts,
           NEW h, \A t \in AssetCountsTiers : h[t] = ListSum(Weight(a, p), AccountsOfTier(cex, file, t))
    PROVE  SumFunctionOnSet(h, AssetCountsTiers) = ListSum(RowWeight(a, p), file)
<1> DEFINE n == Len(file)
           w == Weight(a, p)
           v == RowWeight(a, p)
           Ts == AssetCountsTiers
           goes(i) == TierFor(Cardinality(AssetsOf(file[i])))
           part(i, t) == IF GoesTo(cex, file[i], t) THEN <<Account(cex, file[i])>> ELSE <<>>
           parts(t) == [i \in 1 .. n |-> part(i, t)]
           g == [t \in Ts |-> [i \in 1 .. n |-> ListSum(w, part(i, t))]]
           col == [i \in 1 .. n |-> [t \in Ts |-> ListSum(w, part(i, t))]]
           c == [i \in 1 .. n |-> v[file[i]]]
<1>1. n \in Nat /\ \A i \in 1 .. n : file[i] \in ValidRows
  BY LenProperties, ElementOfSeq
<1>2. IsFiniteSet(Ts) /\ IsFiniteSet(1 .. n)
  <2>1. IsFiniteSet(1 .. AssetCounts) /\ Ts \subseteq 1 .. AssetCounts
    BY AssetCountsAssumption, TiersAssumption, FS_Interval
  <2>2. IsFiniteSet(1 .. n)
    BY <1>1, FS_Interval
  <2> HIDE DEF Ts
  <2> QED
    BY <2>1, <2>2, FS_Subset
<1>3. /\ \A x \in Users : w[x] \in Nat
      /\ \A row \in ValidRows : /\ v[row] \in Nat /\ v[row] = w[Account(cex, row)]
                                /\ Account(cex, row) \in Users
  BY WeightsNat, OwnedTyped DEF Everyone
<1>4. ASSUME NEW i \in 1 .. n, NEW t \in Ts
      PROVE  /\ part(i, t) \in Seq(Users)
             /\ ListSum(w, part(i, t)) = IF goes(i) = t THEN v[file[i]] ELSE 0
             /\ goes(i) \in Ts
  <2>1. file[i] \in ValidRows
    BY <1>1
  <2>2. RowOutcome(cex, file[i]) = "valid"
    BY <2>1 DEF ValidRows
  <2>3. GoesTo(cex, file[i], t) <=> goes(i) = t
    BY <2>2 DEF GoesTo
  <2>4. Account(cex, file[i]) \in Users /\ v[file[i]] = w[Account(cex, file[i])] /\ v[file[i]] \in Nat
    BY <1>3, <2>1
  <2>5. goes(i) \in Ts
    BY <2>1, RowTier
  <2> HIDE DEF goes, w, v, Ts
  <2>6. CASE goes(i) = t
    <3>1. part(i, t) = <<Account(cex, file[i])>>
      BY <2>3, <2>6
    <3> HIDE DEF part
    <3>2. ListSum(w, <<Account(cex, file[i])>>) = w[Account(cex, file[i])]
      BY <2>4, ListSumSmall
    <3> QED
      BY <2>4, <2>5, <2>6, <3>1, <3>2
  <2>7. CASE goes(i) # t
    <3>1. part(i, t) = <<>>
      BY <2>3, <2>7
    <3> HIDE DEF part
    <3>2. ListSum(w, <<>>) = 0 /\ <<>> \in Seq(Users)
      BY ListSumSmall, EmptySeq
    <3> QED
      BY <2>5, <2>7, <3>1, <3>2
  <2> QED
    BY <2>6, <2>7
<1>5. ASSUME NEW t \in Ts
      PROVE  h[t] = SumFunctionOnSet(g[t], 1 .. n) /\ \A i \in 1 .. n : g[t][i] \in Nat
  <2> DEFINE seqs == parts(t)
             e == g[t]
  <2>1. AccountsOfTier(cex, file, t) = FlattenSeq(seqs)
    BY Zenon DEF AccountsOfTier
  <2>2. seqs \in Seq(Seq(Users)) /\ Len(seqs) = n
    <3> HIDE DEF part
    <3> QED
      BY <1>1, <1>4
  <2>3. \A i \in 1 .. n : e[i] = ListSum(w, seqs[i])
    <3> HIDE DEF part, w
    <3> QED
      OBVIOUS
  <2>4. h[t] = ListSum(w, FlattenSeq(seqs))
    BY <2>1, Zenon
  <2> HIDE DEF seqs, e, n, w
  <2>5. \A i \in 1 .. Len(seqs) : e[i] = ListSum(w, seqs[i])
    BY <2>2, <2>3
  <2>6. /\ ListSum(w, FlattenSeq(seqs)) = SumFunctionOnSet(e, 1 .. Len(seqs))
        /\ \A i \in 1 .. Len(seqs) : e[i] \in Nat
    <3>1. \A x \in Users : w[x] \in Nat
      BY <1>3
    <3>2. seqs \in Seq(Seq(Users))
      BY <2>2
    <3> HIDE DEF g, parts, part, col, c, v, Ts, goes
    <3>3. ASSUME NEW l \in Seq(Seq(Users)), NEW k, \A i \in 1 .. Len(l) : k[i] = ListSum(w, l[i])
          PROVE  /\ ListSum(w, FlattenSeq(l)) = SumFunctionOnSet(k, 1 .. Len(l))
                 /\ \A i \in 1 .. Len(l) : k[i] \in Nat
      BY <3>1, <3>3, ListSumFlatten
    <3> QED
      BY <2>5, <3>2, <3>3
  <2> QED
    BY <2>2, <2>4, <2>6 DEF e
<1>6. ASSUME NEW i \in 1 .. n
      PROVE  c[i] = SumFunctionOnSet(col[i], Ts)
  <2> DEFINE d == col[i]
  <2>1. \A t \in Ts : d[t] = (IF goes(i) = t THEN v[file[i]] ELSE 0)
    <3> HIDE DEF part, w, v, goes
    <3> QED
      BY <1>4
  <2>2. v[file[i]] \in Nat /\ file[i] \in ValidRows
    BY <1>1, <1>3
  <2>3. goes(i) \in Ts
    BY <2>2, RowTier
  <2>4. c[i] = v[file[i]]
    OBVIOUS
  <2> HIDE DEF d, v, goes, c, Ts, w
  <2>5. (\A t \in Ts : d[t] \in Int) /\ \A t \in Ts \ {goes(i)} : d[t] = 0
    BY <2>1, <2>2
  <2>6. SumFunctionOnSet(d, Ts) = SumFunctionOnSet(d, {goes(i)})
    <3>1. {goes(i)} \in SUBSET Ts
      BY <2>3
    <3> QED
      BY <1>2, <2>5, <3>1, SumZeros
  <2>7. d[goes(i)] = v[file[i]] /\ d[goes(i)] \in Int
    BY <2>1, <2>2, <2>3
  <2>8. SumFunctionOnSet(d, {goes(i)}) = d[goes(i)]
    BY <2>7, SumSingle
  <2> QED
    BY <2>4, <2>6, <2>7, <2>8 DEF d
<1>7. \A i \in 1 .. n : \A t \in Ts : col[i][t] = g[t][i]
  <2> HIDE DEF part, w
  <2> QED
    OBVIOUS
<1>8. ListSum(v, file) = SumFunctionOnSet(c, 1 .. n)
  <2>1. \A u \in 1 .. Len(file) : c[u] = v[file[u]]
    OBVIOUS
  <2> HIDE DEF c, v
  <2> QED
    <3>1. WeightsOf(ValidRows, v, file, c)
      BY <1>3, <2>1 DEF WeightsOf
    <3> QED
      BY <3>1, ListSumIs
<1> HIDE DEF g, col, c, n, v, w, Ts
<1>9. SumFunctionOnSet(h, Ts) = SumFunctionOnSet(c, 1 .. n)
  <2>1. \A t \in Ts : \A i \in 1 .. n : g[t][i] \in Int
    BY <1>5
  <2>2. \A t \in Ts : h[t] = SumFunctionOnSet(g[t], 1 .. n)
    BY <1>5
  <2>3. \A i \in 1 .. n : c[i] = SumFunctionOnSet(col[i], Ts)
    BY <1>6
  <2> DEFINE D == 1 .. n
  <2>4. IsFiniteSet(Ts) /\ IsFiniteSet(D)
    BY <1>2
  <2>5. \A t \in Ts : \A i \in D : g[t][i] \in Int
    BY <2>1
  <2>6. \A i \in D : \A t \in Ts : col[i][t] = g[t][i]
    BY <1>7
  <2>7. \A t \in Ts : h[t] = SumFunctionOnSet(g[t], D)
    BY <2>2
  <2>8. \A i \in D : c[i] = SumFunctionOnSet(col[i], Ts)
    BY <2>3
  <2> HIDE DEF D
  <2>9. RowsAndColumns(Ts, D, g, col, h, c)
    BY <2>4, <2>5, <2>6, <2>7, <2>8 DEF RowsAndColumns
  <2> QED
    BY <2>9, SumByColumns DEF D
<1> QED
  BY <1>8, <1>9 DEF Ts, v

----------------------------------------------------------------------------
(* All rows.                                                               *)

\* So the files are lists of valid rows.
LEMMA FilesValid ==
    ASSUME LoadInv, AllMerged
    PROVE  /\ files \in Seq(Seq(ValidRows))
           /\ FlattenSeq(files) \in Seq(ValidRows)
<1>1. Len(files) \in Nat /\ \A i \in 1 .. Len(files) : files[i] \in Seq(UserRows)
  BY LenProperties, ElementOfSeq DEF LoadInv, LoadTypes
<1>2. ASSUME NEW i \in 1 .. Len(files)  PROVE files[i] \in Seq(ValidRows)
  <2> DEFINE file == files[i]
  <2>1. file \in Seq(UserRows) /\ \A j \in 1 .. Len(file) : RowOutcome(cex, file[j]) = "valid"
    BY <1>1, MergedValid
  <2> HIDE DEF file
  <2>2. \A j \in 1 .. Len(file) : file[j] \in ValidRows
    BY <2>1, ElementOfSeq DEF ValidRows
  <2>3. Len(file) \in Nat /\ file = [j \in 1 .. Len(file) |-> file[j]]
    BY <2>1, LenProperties
  <2> QED
    BY <2>2, <2>3 DEF file
<1>3. files = [i \in 1 .. Len(files) |-> files[i]]
  BY DEF LoadInv, LoadTypes
<1>4. files \in Seq(Seq(ValidRows))
  BY <1>1, <1>2, <1>3
<1> QED
  BY <1>4, FlattenTyped

\* What the accounts of all tiers have of an asset is what all rows have of it.
LEMMA FilesPart ==
    ASSUME LoadInv, AllMerged, NEW a \in Assets, NEW p \in Parts,
           NEW h, \A t \in AssetCountsTiers : h[t] = ListSum(Weight(a, p), AccountInfo(t))
    PROVE  /\ RowsAmounts(a) \in AmountsOf(Nat)
           /\ SumFunctionOnSet(h, AssetCountsTiers) = Part(RowsAmounts(a), p)
<1> DEFINE n == Len(files)
           D == 1 .. n
           w == Weight(a, p)
           v == RowWeight(a, p)
           Ts == AssetCountsTiers
           part(i, t) == ListSum(w, AccountsOfTier(cex, files[i], t))
           g == [t \in Ts |-> [i \in D |-> part(i, t)]]
           col == [i \in D |-> [t \in Ts |-> part(i, t)]]
           c == [i \in D |-> ListSum(v, files[i])]
           all == FlattenSeq(files)
<1>1. /\ files \in Seq(Seq(ValidRows)) /\ all \in Seq(ValidRows) /\ n \in Nat
      /\ \A i \in D : files[i] \in Seq(ValidRows) /\ files[i] \in Seq(UserRows)
  <2>1. \A i \in 1 .. Len(files) : files[i] \in Seq(UserRows)
    BY ElementOfSeq DEF LoadInv, LoadTypes
  <2> QED
    BY <2>1, FilesValid, LenProperties, ElementOfSeq
<1>2. IsFiniteSet(Ts) /\ IsFiniteSet(D)
  <2>1. IsFiniteSet(1 .. AssetCounts) /\ Ts \subseteq 1 .. AssetCounts
    BY AssetCountsAssumption, TiersAssumption, FS_Interval
  <2>2. IsFiniteSet(D)
    BY <1>1, FS_Interval
  <2> HIDE DEF Ts, D
  <2> QED
    BY <2>1, <2>2, FS_Subset
<1>3. (\A x \in Users : w[x] \in Nat) /\ \A row \in ValidRows : v[row] \in Nat /\ v[row] = Part(Owned(row, a), p)
  BY WeightsNat DEF Everyone
<1>4. ASSUME NEW t \in Ts
      PROVE  h[t] = SumFunctionOnSet(g[t], D) /\ \A i \in D : g[t][i] \in Nat
  <2> DEFINE seqs == [i \in 1 .. n |-> AccountsOfTier(cex, files[i], t)]
             e == g[t]
  <2>1. AccountInfo(t) = FlattenSeq(seqs)
    BY AccountsOfFiles
  <2>2. seqs \in Seq(Seq(Users)) /\ Len(seqs) = n
    <3>1. \A i \in 1 .. n : AccountsOfTier(cex, files[i], t) \in Seq(Users)
      BY <1>1, AccountsOfFile
    <3> QED
      BY <1>1, <3>1
  <2>3. \A i \in 1 .. n : e[i] = ListSum(w, seqs[i])
    <3> HIDE DEF w
    <3> QED
      OBVIOUS
  <2>4. h[t] = ListSum(w, FlattenSeq(seqs))
    BY <2>1, Zenon
  <2> HIDE DEF seqs, e, n, w
  <2>5. \A i \in 1 .. Len(seqs) : e[i] = ListSum(w, seqs[i])
    BY <2>2, <2>3
  <2>6. /\ ListSum(w, FlattenSeq(seqs)) = SumFunctionOnSet(e, 1 .. Len(seqs))
        /\ \A i \in 1 .. Len(seqs) : e[i] \in Nat
    <3>1. \A x \in Users : w[x] \in Nat
      BY <1>3
    <3>2. seqs \in Seq(Seq(Users))
      BY <2>2
    <3> HIDE DEF D, g, part, col, c, v, Ts, all
    <3>3. ASSUME NEW l \in Seq(Seq(Users)), NEW k, \A i \in 1 .. Len(l) : k[i] = ListSum(w, l[i])
          PROVE  /\ ListSum(w, FlattenSeq(l)) = SumFunctionOnSet(k, 1 .. Len(l))
                 /\ \A i \in 1 .. Len(l) : k[i] \in Nat
      <4> DEFINE U == Users
      <4>1. (\A x \in U : w[x] \in Nat) /\ l \in Seq(Seq(U))
        BY <3>1
      <4> HIDE DEF U
      <4> QED
        BY <3>3, <4>1, ListSumFlatten
    <3> QED
      BY <2>5, <3>2, <3>3
  <2> QED
    BY <2>2, <2>4, <2>6 DEF e
<1>5. ASSUME NEW i \in D  PROVE c[i] = SumFunctionOnSet(col[i], Ts)
  <2> DEFINE file == files[i]
             k == col[i]
  <2>1. file \in Seq(ValidRows)
    BY <1>1
  <2>2. \A t \in Ts : k[t] = ListSum(w, AccountsOfTier(cex, file, t))
    <3> HIDE DEF w
    <3> QED
      OBVIOUS
  <2>3. c[i] = ListSum(v, file)
    OBVIOUS
  <2> HIDE DEF file, k, c
  <2>4. SumFunctionOnSet(k, AssetCountsTiers) = ListSum(RowWeight(a, p), file)
    BY <2>1, <2>2, FilePart
  <2> QED
    BY <2>3, <2>4 DEF k
<1>6. ListSum(v, all) = SumFunctionOnSet(c, D)
  <2>1. \A i \in 1 .. Len(files) : c[i] = ListSum(v, files[i])
    OBVIOUS
  <2>2. \A row \in ValidRows : v[row] \in Nat
    BY <1>3
  <2> HIDE DEF w, c, v, g, col, part, Ts
  <2>3. files \in Seq(Seq(ValidRows))
    BY <1>1
  <2> HIDE DEF D, n, all
  <2>4. ListSum(v, FlattenSeq(files)) = SumFunctionOnSet(c, 1 .. Len(files))
    BY <2>1, <2>2, <2>3, ListSumFlatten
  <2> QED
    BY <2>4 DEF D, n, all
<1>7. RowsAmounts(a) \in AmountsOf(Nat) /\ Part(RowsAmounts(a), p) = ListSum(v, all)
  <2> DEFINE m == Len(all)
             own == [i \in 1 .. m |-> Owned(all[i], a)]
             parts == [x \in 1 .. m |-> Part(own[x], p)]
  <2>1. m \in Nat /\ \A i \in 1 .. m : all[i] \in ValidRows
    BY <1>1, LenProperties, ElementOfSeq
  <2>2. RowsAmounts(a) = SumAmounts(own)
    BY DEF RowsAmounts
  <2>3. DOMAIN own = 1 .. m /\ \A i \in 1 .. m : own[i] = Owned(all[i], a) /\ own[i] \in AmountsOf(Nat)
    BY <2>1, OwnedTyped
  <2>4. \A u \in 1 .. m : parts[u] = v[all[u]]
    <3> HIDE DEF v, all
    <3> QED
      BY <1>3, <2>1, <2>3
  <2> HIDE DEF own, all
  <2>5. /\ SumAmounts(own) \in AmountsOf(Nat)
        /\ Part(SumAmounts(own), p) = SumFunctionOnSet(parts, 1 .. m)
    BY <2>1, <2>3, PartsSum
  <2>6. ListSum(v, all) = SumFunctionOnSet(parts, 1 .. Len(all))
    <3>1. \A u \in 1 .. Len(all) : parts[u] = v[all[u]]
      BY <2>4
    <3>2. \A row \in ValidRows : v[row] \in Nat
      BY <1>3
    <3>3. all \in Seq(ValidRows)
      BY <1>1
    <3> HIDE DEF parts, v, w, c, g, col, part, Ts, D, n, m
    <3> QED
      <4>1. WeightsOf(ValidRows, v, all, parts)
        BY <3>1, <3>2, <3>3 DEF WeightsOf
      <4> QED
        BY <4>1, ListSumIs
  <2> QED
    BY <2>2, <2>5, <2>6
<1> HIDE DEF g, col, c, n, v, w, Ts, all, part
<1>8. SumFunctionOnSet(h, Ts) = SumFunctionOnSet(c, D)
  <2> HIDE DEF D
  <2>1. IsFiniteSet(Ts) /\ IsFiniteSet(D)
    BY <1>2
  <2>2. \A t \in Ts : \A i \in D : g[t][i] \in Int
    BY <1>4
  <2>3. \A i \in D : \A t \in Ts : col[i][t] = g[t][i]
    <3> HIDE DEF part
    <3> QED
      BY DEF g, col
  <2>4. \A t \in Ts : h[t] = SumFunctionOnSet(g[t], D)
    BY <1>4
  <2>5. \A i \in D : c[i] = SumFunctionOnSet(col[i], Ts)
    BY <1>5
  <2>6. RowsAndColumns(Ts, D, g, col, h, c)
    BY <2>1, <2>2, <2>3, <2>4, <2>5 DEF RowsAndColumns
  <2> QED
    BY <2>6, SumByColumns
<1> HIDE DEF D
<1> QED
  BY <1>6, <1>7, <1>8 DEF Ts

----------------------------------------------------------------------------
(* All tiers.                                                              *)

\* Padding and numbers do not change what a tier's accounts have.
LEMMA TierPart ==
    ASSUME LoadInv, AllMerged, Built, NEW tier \in Keys, NEW a, NEW p \in Parts
    PROVE  /\ ListSum(Weight(a, p), accounts[tier]) = ListSum(Weight(a, p), AccountInfo(tier))
           /\ ListSum(Weight(a, p), accounts[tier]) \in Nat
<1> DEFINE w == Weight(a, p)
           info == AccountInfo(tier)
           n == Len(info)
           list == accounts[tier]
           L == Len(list)
           f == [i \in 1 .. L |-> w[list[i]]]
<1>1. tier \in AssetCountsTiers
  BY KeysFinite
<1>2. \A x \in Everyone : w[x] \in Nat /\ w[x] = Part(AmountOf(x, a), p)
  BY WeightsNat
<1>3. info \in Seq(Users) /\ n \in Nat
  BY <1>1, AccountsOfFiles, LenProperties
<1>4. list \in Seq(Listed) /\ L \in Nat
  BY BuiltTier, LenProperties
<1>5. /\ PaddedAccounts(tier) \in Seq(Users \cup Paddings) /\ L = Len(PaddedAccounts(tier))
      /\ L = n + PaddingCount(n, tier) /\ PaddingCount(n, tier) \in Nat
      /\ \A i \in 1 .. L : list[i] = Indexed(PaddedAccounts(tier)[i], Before(tier) + i - 1)
      /\ \A i \in 1 .. n : PaddedAccounts(tier)[i] = info[i]
      /\ \A i \in 1 .. L : i > n => PaddedAccounts(tier)[i] = PaddingAccount(tier)
  <2>1. list = Numbered(tier)
    BY BuiltTier
  <2>2. /\ Len(Numbered(tier)) = Len(PaddedAccounts(tier))
        /\ \A i \in 1 .. Len(PaddedAccounts(tier)) :
               Numbered(tier)[i] = Indexed(PaddedAccounts(tier)[i], Before(tier) + i - 1)
    BY NumberedIs
  <2>3. /\ PaddedAccounts(tier) \in Seq(Users \cup Paddings)
        /\ PaddingCount(n, tier) \in Nat
        /\ Len(PaddedAccounts(tier)) = n + PaddingCount(n, tier)
        /\ \A i \in 1 .. n : PaddedAccounts(tier)[i] = info[i]
        /\ \A i \in 1 .. Len(PaddedAccounts(tier)) :
               i > n => PaddedAccounts(tier)[i] = PaddingAccount(tier)
    BY <1>1, PaddedIs
  <2> HIDE DEF n, list, info
  <2> QED
    BY <2>1, <2>2, <2>3
<1> HIDE DEF n, list, info, w
<1>6. \A x, i : AmountOf(Indexed(x, i), a) = AmountOf(x, a)
  BY DEF AmountOf, Indexed
<1>7. ASSUME NEW i \in 1 .. L
      PROVE  /\ f[i] \in Nat
             /\ i <= n => f[i] = w[info[i]]
             /\ i > n => f[i] = 0
  <2> DEFINE x == PaddedAccounts(tier)[i]
             j == Before(tier) + i - 1
  <2>1. list[i] \in Listed /\ f[i] = w[list[i]]
    BY <1>4, ElementOfSeq
  <2>2. list[i] = Indexed(x, j)
    BY <1>5
  <2>3. x \in Users \cup Paddings
    BY <1>5, ElementOfSeq
  <2>4. i > n => x \in Paddings
    <3>1. i > n => x = PaddingAccount(tier)
      BY <1>5
    <3> QED
      BY <1>1, <3>1 DEF Paddings
  <2>5. i <= n => x = info[i]
    <3>1. i <= n => i \in 1 .. n
      BY <1>3, <1>4
    <3> QED
      BY <1>5, <3>1
  <2> HIDE DEF x, j, f
  <2>6. list[i] \in Everyone /\ x \in Everyone
    BY <2>1, <2>3 DEF Everyone
  <2>7. w[list[i]] = Part(AmountOf(list[i], a), p) /\ w[x] = Part(AmountOf(x, a), p) /\ w[x] \in Nat
    BY <1>2, <2>6
  <2>8. f[i] = w[x]
    BY <1>6, <2>1, <2>2, <2>7
  <2>9. i > n => AmountOf(x, a) = NoAmounts
    BY <2>4, <2>6, EveryoneTyped
  <2>10. Part(NoAmounts, p) = 0
    BY NoAmountsFields, PartsAre DEF Parts
  <2> QED
    BY <2>5, <2>7, <2>8, <2>9, <2>10
<1>8. \A i \in 1 .. n : i \in 1 .. L /\ f[i] = w[info[i]]
  <2> HIDE DEF f
  <2>1. \A i \in 1 .. n : i \in 1 .. L /\ i <= n
    BY <1>3, <1>5
  <2> QED
    BY <1>7, <2>1
<1>9. ListSum(w, list) = SumFunctionOnSet(f, 1 .. L)
  BY DEF ListSum
<1>10. ListSum(w, info) = SumFunctionOnSet(f, 1 .. n) /\ ListSum(w, info) \in Nat
  <2>1. \A x \in Users : w[x] \in Nat
    BY <1>2 DEF Everyone
  <2>2. \A i \in 1 .. Len(info) : f[i] = w[info[i]]
    BY <1>8 DEF n
  <2> HIDE DEF f
  <2>3. ListSum(w, info) = SumFunctionOnSet(f, 1 .. Len(info)) /\ ListSum(w, info) \in Nat
    <3>1. WeightsOf(Users, w, info, f)
      BY <1>3, <2>1, <2>2 DEF WeightsOf
    <3> QED
      BY <3>1, ListSumIs
  <2> QED
    BY <2>3 DEF n
<1> HIDE DEF f
<1>11. SumFunctionOnSet(f, 1 .. L) = SumFunctionOnSet(f, 1 .. n)
  <2>1. IsFiniteSet(1 .. L)
    BY <1>4, FS_Interval
  <2>2. 1 .. n \in SUBSET (1 .. L)
    BY <1>8
  <2>3. \A i \in 1 .. L : f[i] \in Int
    BY <1>7
  <2>4. \A i \in (1 .. L) \ (1 .. n) : f[i] = 0
    <3> SUFFICES ASSUME NEW i \in 1 .. L, i \notin 1 .. n  PROVE f[i] = 0
      OBVIOUS
    <3>1. i > n
      BY <1>3, <1>4
    <3> QED
      BY <1>7, <3>1
  <2> DEFINE A == 1 .. L
             B == 1 .. n
  <2>5. IsFiniteSet(A) /\ B \in SUBSET A /\ (\A i \in A : f[i] \in Int) /\ \A i \in A \ B : f[i] = 0
    BY <2>1, <2>2, <2>3, <2>4
  <2> HIDE DEF A, B
  <2>6. SumFunctionOnSet(f, A) = SumFunctionOnSet(f, B)
    BY <2>5, SumZeros
  <2> QED
    BY <2>6 DEF A, B
<1> QED
  BY <1>9, <1>10, <1>11 DEF w, list, info

\* The tiers together have what all rows have.
LEMMA TiersPart ==
    ASSUME LoadInv, AllMerged, Built, NEW a \in Assets, NEW p \in Parts,
           NEW h, \A t \in Keys : h[t] = ListSum(Weight(a, p), accounts[t])
    PROVE  /\ SumFunctionOnSet(h, Keys) = Part(RowsAmounts(a), p)
           /\ RowsAmounts(a) \in AmountsOf(Nat)
           /\ \A t \in Keys : h[t] \in Nat
<1> DEFINE Ts == AssetCountsTiers
           w == Weight(a, p)
           g == [t \in Ts |-> ListSum(w, AccountInfo(t))]
<1>1. SumFunctionOnSet(g, Ts) = Part(RowsAmounts(a), p) /\ RowsAmounts(a) \in AmountsOf(Nat)
  <2>1. \A t \in AssetCountsTiers : g[t] = ListSum(Weight(a, p), AccountInfo(t))
    OBVIOUS
  <2> HIDE DEF g
  <2> QED
    BY <2>1, FilesPart
<1>2. ASSUME NEW t \in Ts, t \notin Keys  PROVE g[t] = 0
  <2>1. AccountInfo(t) = <<>>
    BY <1>2 DEF Keys
  <2>2. g[t] = ListSum(w, <<>>)
    BY <2>1
  <2> QED
    BY <2>2, ListSumSmall
<1>3. ASSUME NEW t \in Keys  PROVE g[t] = h[t] /\ h[t] \in Nat
  <2>1. t \in Ts
    BY KeysFinite
  <2>2. ListSum(w, accounts[t]) = ListSum(w, AccountInfo(t)) /\ ListSum(w, accounts[t]) \in Nat
    BY TierPart
  <2>3. g[t] = ListSum(w, AccountInfo(t))
    BY <2>1
  <2> QED
    BY <2>2, <2>3
<1> HIDE DEF g, w
<1>4. IsFiniteSet(Ts) /\ Keys \in SUBSET Ts /\ IsFiniteSet(Keys)
  <2>1. IsFiniteSet(1 .. AssetCounts) /\ Ts \subseteq 1 .. AssetCounts
    BY AssetCountsAssumption, TiersAssumption, FS_Interval
  <2> HIDE DEF Ts
  <2>2. IsFiniteSet(Ts)
    BY <2>1, FS_Subset
  <2> QED
    BY <2>2, KeysFinite DEF Ts
<1>5. (\A t \in Ts : g[t] \in Int) /\ \A t \in Ts \ Keys : g[t] = 0
  BY <1>2, <1>3
<1> HIDE DEF Ts
<1>6. SumFunctionOnSet(g, Ts) = SumFunctionOnSet(g, Keys)
  BY <1>4, <1>5, SumZeros
<1>7. SumFunctionOnSet(g, Keys) = SumFunctionOnSet(h, Keys)
  <2>1. \A t \in Keys : g[t] \in Int /\ g[t] = h[t]
    BY <1>3
  <2> QED
    BY <1>4, <2>1, SumSame
<1> QED
  BY <1>1, <1>3, <1>6, <1>7

----------------------------------------------------------------------------
(* All batches.                                                            *)

\* The numbers of a tier's batches are those of no other tier.
LEMMA PlaceUnique ==
    ASSUME LoadInv, AllMerged, Built, NEW tier \in Keys,
           NEW i \in Nat, FirstBatch(tier) <= i, i < FirstBatch(tier) + BatchesOf(tier)
    PROVE  i < BatchNumber /\ TierOfBatch(i) = tier /\ RelativeBatchNum(i) = i - FirstBatch(tier)
<1> DEFINE b == BatchCounts
           upto(t) == {k \in Keys : k <= t}
           below(t) == {k \in Keys : k < t}
<1>1. /\ Keys \subseteq Nat /\ IsFiniteSet(Keys)
      /\ \A k \in Keys : b[k] \in Nat /\ BatchesOf(k) \in Nat
      /\ BatchNumber = SumFunctionOnSet(b, Keys) /\ BatchNumber \in Nat
  BY KeysFinite, BatchSums, BuiltTier
<1>2. \A t \in Keys : /\ FirstBatch(t) \in Nat /\ FirstBatch(t) = SumFunctionOnSet(b, below(t))
                      /\ FirstBatch(t) + BatchesOf(t) = SumFunctionOnSet(b, upto(t))
  BY BatchSums DEF FirstBatch
<1> HIDE DEF b
<1>3. ASSUME NEW S \in SUBSET Keys, NEW T \in SUBSET S
      PROVE  SumFunctionOnSet(b, T) <= SumFunctionOnSet(b, S)
  <2>1. IsFiniteSet(S) /\ \A k \in S : b[k] \in Nat
    BY <1>1, FS_Subset
  <2> QED
    BY <2>1, SumPart
<1>4. i < BatchNumber
  <2>1. upto(tier) \in SUBSET Keys
    OBVIOUS
  <2>2. SumFunctionOnSet(b, upto(tier)) <= SumFunctionOnSet(b, Keys)
    BY <1>3, <2>1
  <2>3. SumFunctionOnSet(b, upto(tier)) = FirstBatch(tier) + BatchesOf(tier)
    BY <1>2
  <2> HIDE DEF upto
  <2>4. FirstBatch(tier) \in Nat /\ BatchesOf(tier) \in Nat
    BY <1>1, <1>2
  <2> QED
    BY <1>1, <2>2, <2>3, <2>4
<1> DEFINE t == TierOfBatch(i)
<1>5. /\ t \in Keys /\ RelativeBatchNum(i) = i - FirstBatch(t)
      /\ RelativeBatchNum(i) \in Nat /\ RelativeBatchNum(i) < BatchesOf(t)
  BY <1>4, BatchPlace
<1> HIDE DEF t
<1>6. ASSUME NEW x \in Keys, NEW y \in Keys, x < y
      PROVE  FirstBatch(x) + BatchesOf(x) <= FirstBatch(y)
  <2>1. below(y) \in SUBSET Keys /\ upto(x) \in SUBSET below(y)
    <3>1. \A k \in Keys : k \in Nat
      BY <1>1
    <3>2. ASSUME NEW k \in Keys, k <= x  PROVE k < y
      BY <1>6, <3>1, <3>2
    <3> QED
      BY <3>2
  <2>2. SumFunctionOnSet(b, upto(x)) <= SumFunctionOnSet(b, below(y))
    <3> HIDE DEF upto, below
    <3> QED
      BY <1>3, <2>1
  <2> QED
    BY <1>2, <2>2
<1>7. t = tier
  <2>1. /\ FirstBatch(t) \in Nat /\ BatchesOf(t) \in Nat /\ FirstBatch(tier) \in Nat
        /\ BatchesOf(tier) \in Nat /\ t \in Nat /\ tier \in Nat
    BY <1>1, <1>2, <1>5
  <2>2. FirstBatch(t) <= i /\ i < FirstBatch(t) + BatchesOf(t)
    BY <1>5, <2>1
  <2>3. ~ (t < tier) /\ ~ (tier < t)
    BY <1>5, <1>6, <2>1, <2>2
  <2> QED
    BY <2>1, <2>3
<1> QED
  BY <1>4, <1>5, <1>7 DEF t

\* A tier's batches have what its accounts have.
LEMMA TierBatches ==
    ASSUME LoadInv, AllMerged, Built, NEW tier \in Keys, NEW a, NEW p \in Parts,
           NEW f, \A x \in 1 .. BatchNumber : f[x] = ListSum(Weight(a, p), OpsOf(x - 1))
    PROVE  SumFunctionOnSet(f, FirstBatch(tier) + 1 .. FirstBatch(tier) + BatchesOf(tier))
               = ListSum(Weight(a, p), accounts[tier])
<1> DEFINE w == Weight(a, p)
           list == accounts[tier]
           n == BatchesOf(tier)
           ops == OpsPerBatch[tier]
           first == FirstBatch(tier)
           F == [x \in 1 .. Len(list) |-> w[list[x]]]
           d == [i \in 1 .. n |-> ops]
           start == [i \in 1 .. n + 1 |-> (i - 1) * ops]
           h == [i \in 1 .. n |-> f[first + i]]
<1>1. /\ list \in Seq(Listed) /\ ops \in Nat \ {0} /\ n \in Nat /\ Len(list) = n * ops
      /\ n * ops \in Nat /\ first \in Nat
  <2>1. /\ list \in Seq(Listed) /\ ops \in Nat \ {0} /\ n \in Nat /\ Len(list) = n * ops
        /\ first \in Nat
    BY BuiltTier, BatchSums
  <2> HIDE DEF n, ops, list, first
  <2> QED
    BY <2>1, LenProperties
<1>2. \A x \in Everyone : w[x] \in Nat
  BY WeightsNat
<1>3. ListSum(w, list) = SumFunctionOnSet(F, 1 .. Len(list))
  BY DEF ListSum
<1>4. ASSUME NEW x \in 1 .. Len(list)  PROVE F[x] = w[list[x]] /\ F[x] \in Nat
  <2>1. list[x] \in Listed
    BY <1>1, ElementOfSeq
  <2>2. list[x] \in Everyone
    BY <2>1 DEF Everyone
  <2> HIDE DEF w
  <2> QED
    BY <1>2, <2>2
<1>5. ASSUME NEW i \in 1 .. n
      PROVE  /\ start[i] = (i - 1) * ops /\ start[i] \in Nat
             /\ d[i] = ops
             /\ h[i] = SumFunctionOnSet(F, start[i] + 1 .. start[i] + ops)
             /\ h[i] \in Nat
             /\ h[i] = f[first + i]
  <2> DEFINE x == first + i
             j == x - 1
             batch == OpsOf(j)
             m == (i - 1) * ops
             G == [u \in 1 .. ops |-> w[batch[u]]]
  <2>1. j \in Nat /\ first <= j /\ j < first + n /\ j - first = i - 1 /\ x - 1 = j
    BY <1>1
  <2>2. j < BatchNumber /\ TierOfBatch(j) = tier /\ RelativeBatchNum(j) = j - first
    <3> HIDE DEF j
    <3> QED
      BY <2>1, PlaceUnique
  <2>3. x \in 1 .. BatchNumber
    <3>1. BatchNumber \in Nat
      BY BatchSums
    <3> HIDE DEF j, n, first
    <3>2. x = j + 1
      BY <1>1, <2>1
    <3> HIDE DEF x
    <3> QED
      BY <2>1, <2>2, <3>1, <3>2
  <2>4. /\ batch \in Seq(Listed) /\ Len(batch) = ops
        /\ m \in Nat /\ m + ops <= Len(list)
        /\ \A u \in 1 .. ops : batch[u] = list[m + u]
    <3> DEFINE r == RelativeBatchNum(j)
    <3>1. r = i - 1
      BY <2>1, <2>2
    <3> HIDE DEF j
    <3>2. /\ OpsOf(j) \in Seq(Listed) /\ Len(OpsOf(j)) = OpsPerBatch[TierOfBatch(j)]
          /\ r * OpsPerBatch[TierOfBatch(j)] \in Nat
          /\ r * OpsPerBatch[TierOfBatch(j)] + OpsPerBatch[TierOfBatch(j)] <= Len(accounts[TierOfBatch(j)])
          /\ \A u \in 1 .. OpsPerBatch[TierOfBatch(j)] :
                 OpsOf(j)[u] = accounts[TierOfBatch(j)][r * OpsPerBatch[TierOfBatch(j)] + u]
      BY <2>1, <2>2, OpsAre
    <3> HIDE DEF r
    <3> QED
      BY <2>2, <3>1, <3>2
  <2>5. f[x] = ListSum(w, batch)
    <3>1. f[x] = ListSum(Weight(a, p), OpsOf(x - 1))
      BY <2>3
    <3> QED
      BY <2>1, <3>1
  <2> HIDE DEF batch, j, m, x
  <2>6. \A u \in 1 .. ops : G[u] = w[batch[u]] /\ F[m + u] = G[u] /\ G[u] \in Int
    <3> SUFFICES ASSUME NEW u \in 1 .. ops
                 PROVE  G[u] = w[batch[u]] /\ F[m + u] = G[u] /\ G[u] \in Int
      OBVIOUS
    <3>1. G[u] = w[batch[u]]
      OBVIOUS
    <3>2. m + u \in 1 .. Len(list) /\ batch[u] = list[m + u]
      <4> HIDE DEF ops, list, n
      <4> QED
        BY <1>1, <2>4
    <3> HIDE DEF G, F
    <3>3. F[m + u] = w[list[m + u]] /\ F[m + u] \in Nat
      BY <1>4, <3>2
    <3> QED
      BY <3>1, <3>2, <3>3
  <2>7. ListSum(w, batch) = SumFunctionOnSet(G, 1 .. ops) /\ ListSum(w, batch) \in Nat
    <3>1. \A y \in Listed : w[y] \in Nat
      BY <1>2 DEF Everyone
    <3>2. batch \in Seq(Listed) /\ \A u \in 1 .. Len(batch) : G[u] = w[batch[u]]
      BY <2>4, <2>6
    <3>3. Len(batch) = ops
      BY <2>4
    <3> HIDE DEF G, w, ops, F, h, d, start, list
    <3>4. ListSum(w, batch) = SumFunctionOnSet(G, 1 .. Len(batch)) /\ ListSum(w, batch) \in Nat
      <4>1. WeightsOf(Listed, w, batch, G)
        BY <3>1, <3>2 DEF WeightsOf
      <4> QED
        BY <4>1, ListSumIs
    <3> QED
      BY <3>3, <3>4
  <2> HIDE DEF G, F
  <2>8. SumFunctionOnSet(F, m + 1 .. m + ops) = SumFunctionOnSet(G, 1 .. ops)
    <3>1. m \in Int /\ ops \in Nat
      BY <1>1, <2>4
    <3>2. \A u \in 1 .. ops : G[u] \in Int /\ F[m + u] = G[u]
      BY <2>6
    <3> HIDE DEF ops, start, d, h, w, list, n, first
    <3> QED
      <4>1. ShiftedBy(m, ops, F, G)
        BY <3>1, <3>2 DEF ShiftedBy
      <4> QED
        BY <4>1, SumShift
  <2>9. start[i] = m /\ d[i] = ops /\ h[i] = f[x]
    <3>1. i \in 1 .. n + 1
      BY <1>1
    <3> QED
      BY <3>1 DEF m, x
  <2>10. h[i] = f[first + i] /\ m = (i - 1) * ops
    BY DEF m
  <2> HIDE DEF start, d, h, w, ops
  <2> QED
    BY <2>4, <2>5, <2>7, <2>8, <2>9, <2>10
<1>6. SumsBefore(start, d, n) /\ start[n+1] = Len(list)
  <2>1. n + 1 \in 1 .. n + 1 /\ (n + 1) - 1 = n /\ start[n+1] = ((n + 1) - 1) * ops
    BY <1>1
  <2>2. start[n+1] = Len(list)
    <3> HIDE DEF start, n, ops, list
    <3> QED
      BY <1>1, <2>1
  <2>3. ASSUME NEW t \in 1 .. n + 1
        PROVE  start[t] = IF t = 1 THEN 0 ELSE start[t-1] + d[t-1]
    <3>1. start[t] = (t - 1) * ops
      OBVIOUS
    <3>2. CASE t = 1
      <4>1. (1 - 1) * ops = 0
        BY <1>1
      <4> HIDE DEF start
      <4> QED
        BY <3>1, <3>2, <4>1
    <3>3. CASE t # 1
      <4>1. t - 1 \in 1 .. n /\ t - 1 \in 1 .. n + 1
        BY <1>1, <3>3
      <4>2. d[t-1] = ops /\ start[t-1] = ((t - 1) - 1) * ops
        BY <4>1
      <4>3. \A k \in Nat : k * ops = (k - 1) * ops + ops
        <5> HIDE DEF ops
        <5> QED
          BY <1>1
      <4> HIDE DEF start, d, ops
      <4>4. t - 1 \in Nat
        BY <4>1
      <4> QED
        BY <3>1, <3>3, <4>2, <4>3, <4>4
    <3> QED
      BY <3>2, <3>3
  <2>4. start = [t \in 1 .. n + 1 |-> start[t]]
    OBVIOUS
  <2> HIDE DEF start, d
  <2>5. start = [t \in 1 .. n + 1 |-> IF t = 1 THEN 0 ELSE start[t-1] + d[t-1]]
    BY <2>3, <2>4
  <2> QED
    BY <2>2, <2>5 DEF SumsBefore
<1> HIDE DEF F, d, start, h, w
<1>7. InBlocks(n, d, start, F, h)
  <2> HIDE DEF n, ops, first
  <2>1. \A x \in 1 .. start[n+1] : F[x] \in Int
    BY <1>4, <1>6
  <2>2. \A i \in 1 .. n : d[i] \in Nat /\ h[i] = SumFunctionOnSet(F, start[i] + 1 .. start[i] + d[i])
    BY <1>1, <1>5
  <2> QED
    BY <1>1, <1>6, <2>1, <2>2 DEF InBlocks
<1>8. SumFunctionOnSet(F, 1 .. start[n+1]) = SumFunctionOnSet(h, 1 .. n)
  BY <1>7, SumBlocks
<1>9. SumFunctionOnSet(f, first + 1 .. first + n) = SumFunctionOnSet(h, 1 .. n)
  <2>1. \A i \in 1 .. n : h[i] \in Int /\ f[first + i] = h[i]
    BY <1>5
  <2>2. first \in Int /\ n \in Nat
    BY <1>1
  <2> HIDE DEF first, n
  <2> QED
    <3>1. ShiftedBy(first, n, f, h)
      BY <2>1, <2>2 DEF ShiftedBy
    <3> QED
      BY <3>1, SumShift
<1> QED
  BY <1>3, <1>6, <1>8, <1>9 DEF w

\* What the users of each batch have of an asset.
BatchWeight(a, p) == [x \in 1 .. BatchNumber |-> ListSum(Weight(a, p), OpsOf(x - 1))]

\* The users of a batch, and their weight.
LEMMA BatchOps ==
    ASSUME LoadInv, AllMerged, Built, NEW i \in Nat, i < BatchNumber, NEW a, NEW p \in Parts
    PROVE  /\ OpsOf(i) \in Seq(Everyone)
           /\ BatchWeight(a, p)[i+1] = ListSum(Weight(a, p), OpsOf(i))
           /\ BatchWeight(a, p)[i+1] \in Nat
<1> DEFINE w == Weight(a, p)
           ops == OpsOf(i)
           f == [u \in 1 .. Len(ops) |-> w[ops[u]]]
<1>1. ops \in Seq(Everyone)
  <2>1. ops \in Seq(Listed)
    BY OpsAre
  <2>2. Listed \subseteq Everyone
    BY DEF Everyone
  <2> HIDE DEF ops
  <2> QED
    BY <2>1, <2>2, SeqMonotonic
<1>2. \A x \in Everyone : w[x] \in Nat
  BY WeightsNat
<1>3. i + 1 \in 1 .. BatchNumber /\ (i + 1) - 1 = i
  BY BatchSums
<1>4. BatchWeight(a, p)[i+1] = ListSum(w, ops)
  BY <1>3 DEF BatchWeight
<1>5. \A u \in 1 .. Len(ops) : f[u] = w[ops[u]]
  OBVIOUS
<1> HIDE DEF w, ops, f
<1>6. ListSum(w, ops) \in Nat
  <2>1. WeightsOf(Everyone, w, ops, f)
    BY <1>1, <1>2, <1>5 DEF WeightsOf
  <2> QED
    BY <2>1, ListSumIs
<1> QED
  BY <1>1, <1>4, <1>6 DEF w, ops

\* All batches together have what all rows have.
LEMMA BatchesPart ==
    ASSUME LoadInv, AllMerged, Built, NEW a \in Assets, NEW p \in Parts
    PROVE  /\ SumFunctionOnSet(BatchWeight(a, p), 1 .. BatchNumber) = Part(RowsAmounts(a), p)
           /\ RowsAmounts(a) \in AmountsOf(Nat)
           /\ \A x \in 1 .. BatchNumber : BatchWeight(a, p)[x] \in Nat
<1> DEFINE w == Weight(a, p)
           f == BatchWeight(a, p)
           D == 1 .. BatchNumber
           b == [x \in D |-> TierOfBatch(x - 1)]
           class == [t \in Keys |-> FirstBatch(t) + 1 .. FirstBatch(t) + BatchesOf(t)]
           h == [t \in Keys |-> ListSum(w, accounts[t])]
<1>1. /\ IsFiniteSet(Keys) /\ Keys \subseteq Nat /\ BatchNumber \in Nat
      /\ \A t \in Keys : FirstBatch(t) \in Nat /\ BatchesOf(t) \in Nat
  BY KeysFinite, BatchSums, BuiltTier
<1>2. IsFiniteSet(D)
  BY <1>1, FS_Interval
<1>3. \A x \in D : f[x] \in Nat
  <2> SUFFICES ASSUME NEW x \in D  PROVE f[x] \in Nat
    OBVIOUS
  <2> DEFINE i == x - 1
  <2>1. i \in Nat /\ i < BatchNumber /\ i + 1 = x
    BY <1>1
  <2> HIDE DEF i
  <2>2. BatchWeight(a, p)[i+1] \in Nat
    BY <2>1, BatchOps
  <2> QED
    BY <2>1, <2>2
<1>4. ASSUME NEW x \in D
      PROVE  /\ b[x] \in Keys
             /\ x - 1 \in Nat /\ x - 1 < BatchNumber
             /\ FirstBatch(b[x]) <= x - 1 /\ x - 1 < FirstBatch(b[x]) + BatchesOf(b[x])
  <2> DEFINE i == x - 1
  <2>1. i \in Nat /\ i < BatchNumber /\ b[x] = TierOfBatch(i)
    BY <1>1
  <2> HIDE DEF i, b
  <2>2. /\ b[x] \in Keys /\ FirstBatch(b[x]) \in Nat
        /\ RelativeBatchNum(i) = i - FirstBatch(b[x])
        /\ RelativeBatchNum(i) \in Nat /\ RelativeBatchNum(i) < BatchesOf(b[x])
    BY <2>1, BatchPlace
  <2>3. BatchesOf(b[x]) \in Nat
    BY <1>1, <2>2
  <2>4. FirstBatch(b[x]) <= i /\ i < FirstBatch(b[x]) + BatchesOf(b[x])
    BY <2>1, <2>2, <2>3
  <2> QED
    BY <2>1, <2>2, <2>4 DEF i
<1>5. ASSUME NEW t \in Keys, NEW x \in class[t]
      PROVE  x \in D /\ b[x] = t
  <2> DEFINE i == x - 1
  <2>1. /\ FirstBatch(t) \in Nat /\ BatchesOf(t) \in Nat /\ x \in Int
        /\ FirstBatch(t) + 1 <= x /\ x <= FirstBatch(t) + BatchesOf(t)
    BY <1>1
  <2>2. i \in Nat /\ FirstBatch(t) <= i /\ i < FirstBatch(t) + BatchesOf(t) /\ x = i + 1
    BY <2>1
  <2> HIDE DEF i
  <2>3. i < BatchNumber /\ TierOfBatch(i) = t
    BY <2>2, PlaceUnique
  <2>4. x \in D
    BY <1>1, <2>2, <2>3
  <2>5. b[x] = TierOfBatch(i)
    BY <2>4 DEF i
  <2> QED
    BY <2>3, <2>4, <2>5
<1>6. \A t \in Keys : h[t] = SumFunctionOnSet(f, class[t])
  <2> SUFFICES ASSUME NEW t \in Keys  PROVE h[t] = SumFunctionOnSet(f, class[t])
    OBVIOUS
  <2>1. \A x \in 1 .. BatchNumber : f[x] = ListSum(Weight(a, p), OpsOf(x - 1))
    BY DEF BatchWeight
  <2>2. h[t] = ListSum(Weight(a, p), accounts[t])
        /\ class[t] = FirstBatch(t) + 1 .. FirstBatch(t) + BatchesOf(t)
    OBVIOUS
  <2> HIDE DEF f, h, class
  <2>3. SumFunctionOnSet(f, FirstBatch(t) + 1 .. FirstBatch(t) + BatchesOf(t))
            = ListSum(Weight(a, p), accounts[t])
    BY <2>1, TierBatches
  <2> QED
    BY <2>2, <2>3
<1>7. /\ \A t \in Keys : class[t] \in SUBSET D
      /\ \A t \in Keys : \A x \in D : x \in class[t] <=> b[x] = t
  <2>1. ASSUME NEW t \in Keys, NEW x \in D, b[x] = t  PROVE x \in class[t]
    <3>1. /\ x - 1 \in Nat /\ FirstBatch(t) <= x - 1 /\ x - 1 < FirstBatch(t) + BatchesOf(t)
          /\ FirstBatch(t) \in Nat /\ BatchesOf(t) \in Nat /\ x \in Int
      BY <1>1, <1>4, <2>1
    <3>2. FirstBatch(t) + 1 <= x /\ x <= FirstBatch(t) + BatchesOf(t)
      BY <3>1
    <3> HIDE DEF D, b
    <3> QED
      BY <3>1, <3>2
  <2> HIDE DEF D, b, class
  <2>2. \A t \in Keys : class[t] \in SUBSET D
    BY <1>5
  <2>3. \A t \in Keys : \A x \in D : x \in class[t] <=> b[x] = t
    BY <1>5, <2>1
  <2> QED
    BY <2>2, <2>3
<1>8. /\ SumFunctionOnSet(h, Keys) = Part(RowsAmounts(a), p)
      /\ RowsAmounts(a) \in AmountsOf(Nat)
  <2>1. \A t \in Keys : h[t] = ListSum(Weight(a, p), accounts[t])
    OBVIOUS
  <2> HIDE DEF h
  <2> QED
    BY <2>1, TiersPart
<1> HIDE DEF f, D, b, class, h, w
<1>9. InClasses(D, Keys, b, class, f, h)
  <2>1. \A x \in D : f[x] \in Int /\ b[x] \in Keys
    BY <1>3, <1>4
  <2> QED
    BY <1>1, <1>2, <1>6, <1>7, <2>1 DEF InClasses
<1>10. SumFunctionOnSet(f, D) = SumFunctionOnSet(h, Keys)
  BY <1>9, SumClasses
<1> QED
  BY <1>3, <1>8, <1>10 DEF f, D

\* The totals are those of the batches written.  A panic means that with the
\* next batch they do not fit.
TotalsInv ==
    /\ totals \in [Assets -> AmountsOf(Nat)]
    /\ \A a \in Assets : \A p \in Parts :
           Part(totals[a], p) = SumFunctionOnSet(BatchWeight(a, p), 1 .. Len(rows))
    /\ phase = "panic" /\ rows # <<>> =>
           Len(rows) < BatchNumber /\ ~TotalsFit(Added(totals, OpsOf(Len(rows))))

\* Without a batch they are zero.
LEMMA TotalsZero ==
    ASSUME rows = <<>>, \A a \in Assets : totals[a] = NoAmounts, totals \in [Assets -> AmountsOf(Nat)]
    PROVE  TotalsInv
<1>1. 1 .. Len(rows) = {}
  OBVIOUS
<1>2. ASSUME NEW a \in Assets, NEW p \in Parts
      PROVE  Part(totals[a], p) = SumFunctionOnSet(BatchWeight(a, p), 1 .. Len(rows))
  <2>1. SumFunctionOnSet(BatchWeight(a, p), 1 .. Len(rows)) = 0
    BY <1>1, SumEmpty
  <2>2. Part(NoAmounts, p) = 0
    BY NoAmountsFields, PartsAre DEF Parts
  <2> QED
    BY <2>1, <2>2
<1> QED
  BY <1>2 DEF TotalsInv

----------------------------------------------------------------------------
(* The totals.                                                             *)

\* What the next batch makes of the totals.
LEMMA NextTotals ==
    ASSUME LoadInv, AllMerged, Built, TotalsInv, Len(rows) \in Nat, Len(rows) < BatchNumber
    PROVE  LET after == Added(totals, OpsOf(Len(rows))) IN
           /\ after \in [Assets -> AmountsOf(Nat)]
           /\ \A a \in Assets : \A p \in Parts :
                  Part(after[a], p) = SumFunctionOnSet(BatchWeight(a, p), 1 .. Len(rows) + 1)
<1> DEFINE n == Len(rows)
           ops == OpsOf(n)
           after == Added(totals, ops)
<1>1. totals \in [Assets -> AmountsOf(Nat)] /\ n \in Nat /\ n < BatchNumber /\ BatchNumber \in Nat
  BY BatchSums DEF TotalsInv
<1> HIDE DEF n
<1>2. ops \in Seq(Everyone)
  BY <1>1, BatchOps DEF Parts
<1>3. /\ after \in [Assets -> AmountsOf(Nat)]
      /\ \A a \in Assets : \A p \in Parts :
             Part(after[a], p) = Part(totals[a], p) + ListSum(Weight(a, p), ops)
  <2> HIDE DEF ops
  <2> QED
    BY <1>1, <1>2, AddedIs
<1>4. ASSUME NEW a \in Assets, NEW p \in Parts
      PROVE  Part(after[a], p) = SumFunctionOnSet(BatchWeight(a, p), 1 .. n + 1)
  <2> DEFINE f == BatchWeight(a, p)
  <2>1. Part(totals[a], p) = SumFunctionOnSet(f, 1 .. n)
    BY DEF TotalsInv, n
  <2>2. f[n+1] = ListSum(Weight(a, p), ops)
    BY <1>1, BatchOps
  <2>3. \A x \in 1 .. n + 1 : f[x] \in Int
    <3>1. \A x \in 1 .. BatchNumber : f[x] \in Nat
      BY BatchesPart
    <3> HIDE DEF f
    <3> QED
      BY <1>1, <3>1
  <2> HIDE DEF f, after, ops
  <2>4. SumFunctionOnSet(f, 1 .. n + 1) = SumFunctionOnSet(f, 1 .. n) + f[n+1]
    BY <1>1, <2>3, SumAppend
  <2> QED
    BY <1>3, <2>1, <2>2, <2>4 DEF f
<1> QED
  BY <1>3, <1>4 DEF n

\* What the batches have depends on these variables only.
LEMMA SameWeights ==
    ASSUME UNCHANGED <<cex, merged, accounts>>
    PROVE  /\ BatchNumber' = BatchNumber /\ \A i : OpsOf(i)' = OpsOf(i)
           /\ \A a, p : BatchWeight(a, p)' = BatchWeight(a, p)
<1>1. BatchNumber' = BatchNumber /\ \A i : OpsOf(i)' = OpsOf(i)
  BY SameBatches
<1>2. \A a, p : Weight(a, p)' = Weight(a, p)
  BY DEF Weight, Everyone, Listed, Users, ValidRows
<1>3. ASSUME NEW a, NEW p  PROVE BatchWeight(a, p)' = BatchWeight(a, p)
  BY <1>1, <1>2 DEF BatchWeight
<1> QED
  BY <1>1, <1>3

\* The totals are always those of the batches written.
LEMMA TotalsInvariant == Spec => []TotalsInv
<1>1. Init => TotalsInv
  <2> SUFFICES ASSUME Init  PROVE TotalsInv
    OBVIOUS
  <2>1. rows = <<>> /\ totals = [a \in Assets |-> NoAmounts]
    BY DEF Init
  <2>2. totals \in [Assets -> AmountsOf(Nat)] /\ \A a \in Assets : totals[a] = NoAmounts
    BY <2>1, NoAmountsFields
  <2> QED
    BY <2>1, <2>2, TotalsZero
<1>2. LoadInv /\ BatchTypes /\ BatchInv /\ TotalsInv /\ [Next]_vars => TotalsInv'
  <2> SUFFICES ASSUME LoadInv, BatchTypes, BatchInv, TotalsInv, [Next]_vars  PROVE TotalsInv'
    OBVIOUS
  <2>1. CASE UNCHANGED <<totals, rows>> /\ rows = <<>>
    <3>1. 1 .. Len(rows) = {} /\ 1 .. Len(rows') = {} /\ rows' = <<>> /\ totals' = totals
      BY <2>1
    <3>2. ASSUME NEW a \in Assets, NEW p \in Parts
          PROVE  Part(totals'[a], p) = SumFunctionOnSet(BatchWeight(a, p)', 1 .. Len(rows'))
      <4>1. \A f : SumFunctionOnSet(f, {}) = 0
        BY SumEmpty
      <4>2. Part(totals[a], p) = SumFunctionOnSet(BatchWeight(a, p), 1 .. Len(rows))
        BY DEF TotalsInv
      <4> QED
        BY <3>1, <4>1, <4>2
    <3> QED
      BY <3>1, <3>2 DEF TotalsInv
  <2>2. CASE WriteBatch
    <3> DEFINE row == [ops |-> NextOps, before |-> totals, after |-> totals']
    <3>1. /\ phase = "built" /\ phase' = phase /\ Len(rows) < BatchNumber
          /\ totals' = Added(totals, NextOps) /\ rows' = Append(rows, row)
          /\ UNCHANGED <<cex, merged, accounts>>
      BY <2>2 DEF WriteBatch, More, loadVars, treeVars, readVars
    <3>2. AllMerged /\ Built /\ NextOps = OpsOf(Len(rows))
      BY <3>1 DEF BatchInv, OpsOf, NextOps
    <3> HIDE DEF row
    <3>3. Len(rows) \in Nat /\ Len(rows') = Len(rows) + 1
      <4>1. PICK S : rows \in Seq(S)
        BY DEF BatchTypes
      <4>2. rows \in Seq(S \cup {row})
        BY <4>1, SeqMonotonic
      <4> QED
        BY <3>1, <4>2, AppendProperties, LenProperties
    <3>4. /\ totals' \in [Assets -> AmountsOf(Nat)]
          /\ \A a \in Assets : \A p \in Parts :
                 Part(totals'[a], p) = SumFunctionOnSet(BatchWeight(a, p), 1 .. Len(rows) + 1)
      BY <3>1, <3>2, <3>3, NextTotals
    <3>5. \A a, p : BatchWeight(a, p)' = BatchWeight(a, p)
      BY <3>1, SameWeights
    <3> QED
      BY <3>1, <3>3, <3>4, <3>5 DEF TotalsInv
  <2>3. CASE WritePanics
    <3>1. /\ Len(rows) < BatchNumber /\ ~TotalsFit(Added(totals, NextOps))
          /\ NextOps = OpsOf(Len(rows))
          /\ UNCHANGED <<cex, merged, accounts, totals, rows>>
      BY <2>3 DEF WritePanics, More, readVars, treeVars, batchVars, OpsOf, NextOps
    <3>2. /\ BatchNumber' = BatchNumber /\ \A i : OpsOf(i)' = OpsOf(i)
          /\ \A a, p : BatchWeight(a, p)' = BatchWeight(a, p)
      BY <3>1, SameWeights
    <3>3. ~TotalsFit(Added(totals, OpsOf(Len(rows))))
      BY <3>1
    <3>4. (Len(rows) < BatchNumber /\ ~TotalsFit(Added(totals, OpsOf(Len(rows)))))'
      <4>1. Added(totals, OpsOf(Len(rows)))' = Added(totals, OpsOf(Len(rows)))
        BY <3>1, <3>2 DEF Added
      <4> QED
        BY <3>1, <3>2, <3>3, <4>1 DEF TotalsFit
    <3> QED
      BY <3>1, <3>2, <3>4 DEF TotalsInv
  <2>4. CASE UNCHANGED <<cex, merged, accounts, totals, rows>> /\ phase' \in {phase, "refused"}
    <3>1. /\ BatchNumber' = BatchNumber /\ \A i : OpsOf(i)' = OpsOf(i)
          /\ \A a, p : BatchWeight(a, p)' = BatchWeight(a, p)
      BY <2>4, SameWeights
    <3>2. ASSUME phase' = "panic", rows' # <<>>
          PROVE  (Len(rows) < BatchNumber /\ ~TotalsFit(Added(totals, OpsOf(Len(rows)))))'
      <4>1. Len(rows) < BatchNumber /\ ~TotalsFit(Added(totals, OpsOf(Len(rows))))
        BY <2>4, <3>2 DEF TotalsInv
      <4>2. Added(totals, OpsOf(Len(rows)))' = Added(totals, OpsOf(Len(rows)))
        BY <2>4, <3>1 DEF Added
      <4> QED
        BY <2>4, <3>1, <4>1, <4>2 DEF TotalsFit
    <3> QED
      BY <2>4, <3>1, <3>2 DEF TotalsInv
  <2>5. Load \/ (\E w \in Workers : ReadFiles(w)) \/ BuildTree
            => UNCHANGED <<totals, rows>> /\ rows = <<>>
    BY DEF Load, Loader, StartPanics, StartFails, StartReaders, Merge, LoadFails, Loaded, ReadFiles, Reader,
           Read, ReadPanic, Send, End, BuildTree, batchVars, BatchInv
  <2>6. Prove \/ ProveFails \/ Done \/ UNCHANGED vars
            => UNCHANGED <<cex, merged, accounts, totals, rows>> /\ phase' \in {phase, "refused"}
    BY DEF Prove, ProveFails, Done, vars, loadVars, readVars, treeVars, batchVars
  <2> QED
    BY <2>1, <2>2, <2>3, <2>4, <2>5, <2>6 DEF Next, Batches
<1> QED
  BY <1>1, <1>2, LoadInvariant, BatchTypesInvariant, BatchInvariant, PTL DEF Spec

\* When every batch is proved, the totals are what all rows of all files own
\* and owe; and if the process panics, that does not fit.
THEOREM TotalsTrue == Spec => []TotalsAreTrue
<1>1. LoadInv /\ BatchTypes /\ BatchInv /\ TotalsInv => TotalsAreTrue
  <2> SUFFICES ASSUME LoadInv, BatchTypes, BatchInv, TotalsInv  PROVE TotalsAreTrue
    OBVIOUS
  <2>1. ASSUME AllProved, NEW a \in Assets  PROVE totals[a] = RowsAmounts(a)
    <3>1. AllMerged /\ Built /\ Len(rows) = BatchNumber
      BY <2>1 DEF AllProved, BatchInv
    <3>2. totals[a] \in AmountsOf(Nat)
      BY DEF TotalsInv
    <3>3. ASSUME NEW p \in Parts
          PROVE  RowsAmounts(a) \in AmountsOf(Nat) /\ Part(totals[a], p) = Part(RowsAmounts(a), p)
      <4>1. Part(totals[a], p) = SumFunctionOnSet(BatchWeight(a, p), 1 .. BatchNumber)
        BY <3>1 DEF TotalsInv
      <4> QED
        BY <3>1, <4>1, BatchesPart
    <3>4. "equity" \in Parts
      BY DEF Parts
    <3> QED
      BY <3>2, <3>3, <3>4, PartsDetermine
  <2>2. ASSUME rows # <<>>, phase = "panic"
        PROVE  ~TotalsFit([a \in Assets |-> RowsAmounts(a)])
    <3> DEFINE n == Len(rows)
               after == Added(totals, OpsOf(n))
    <3>1. AllMerged /\ Built /\ n < BatchNumber /\ ~TotalsFit(after)
      BY <2>2 DEF BatchInv, TotalsInv
    <3>2. n \in Nat /\ BatchNumber \in Nat
      <4>1. PICK S : rows \in Seq(S)
        BY DEF BatchTypes
      <4> QED
        BY <3>1, <4>1, LenProperties, BatchSums
    <3>3. /\ after \in [Assets -> AmountsOf(Nat)]
          /\ \A a \in Assets : \A p \in Parts :
                 Part(after[a], p) = SumFunctionOnSet(BatchWeight(a, p), 1 .. n + 1)
      BY <3>1, <3>2, NextTotals
    <3> HIDE DEF n, after
    <3>4. ASSUME NEW a \in Assets, NEW p \in Parts
          PROVE  /\ RowsAmounts(a) \in AmountsOf(Nat)
                 /\ Part(after[a], p) \in Nat
                 /\ Part(after[a], p) <= Part(RowsAmounts(a), p)
      <4> DEFINE f == BatchWeight(a, p)
                 A == 1 .. n + 1
                 B == 1 .. BatchNumber
      <4>1. /\ SumFunctionOnSet(f, B) = Part(RowsAmounts(a), p)
            /\ RowsAmounts(a) \in AmountsOf(Nat) /\ \A x \in B : f[x] \in Nat
        BY <3>1, BatchesPart
      <4>2. IsFiniteSet(B) /\ A \in SUBSET B
        BY <3>1, <3>2, FS_Interval
      <4>3. Part(after[a], p) = SumFunctionOnSet(f, A)
        BY <3>3
      <4>4. Part(after[a], p) \in Nat
        BY <3>3, PartsAre
      <4> HIDE DEF f, A, B
      <4>5. SumFunctionOnSet(f, A) <= SumFunctionOnSet(f, B)
        BY <4>1, <4>2, SumPart
      <4> QED
        BY <4>1, <4>3, <4>4, <4>5
    <3>5. PICK a \in Assets : ~AmountsFit(after[a])
      BY <3>1 DEF TotalsFit
    <3>6. PICK p \in Parts : ~ (Part(after[a], p) <= MaxUint)
      BY <3>3, <3>5, PartsFit
    <3>7. RowsAmounts(a) \in AmountsOf(Nat) /\ ~ (Part(RowsAmounts(a), p) <= MaxUint)
      <4>1. Part(RowsAmounts(a), p) \in Nat
        BY <3>4, PartsAre
      <4> QED
        BY <3>4, <3>6, <4>1, MaxUintAssumption
    <3>8. ~AmountsFit(RowsAmounts(a))
      BY <3>7, PartsFit
    <3> QED
      BY <3>8 DEF TotalsFit
  <2> QED
    BY <2>1, <2>2 DEF TotalsAreTrue
<1> QED
  BY <1>1, LoadInvariant, BatchTypesInvariant, BatchInvariant, TotalsInvariant, PTL

----------------------------------------------------------------------------
(* The padding of a user's assets.                                         *)

\* How many of a set's numbers are smaller than one.
Ranked(used, v) == Cardinality({x \in used : x < v})

\* Ranks are 0, 1, ... in the order of the numbers.
LEMMA RanksRise ==
    ASSUME NEW used \in SUBSET Nat, IsFiniteSet(used)
    PROVE  /\ \A v \in used : Ranked(used, v) \in 0 .. Cardinality(used) - 1
           /\ \A v, x \in used : v < x => Ranked(used, v) < Ranked(used, x)
<1>1. Cardinality(used) \in Nat /\ \A y \in used : y \in Nat
  BY FS_CardinalityType
<1>2. ASSUME NEW v \in used
      PROVE  /\ IsFiniteSet({y \in used : y < v}) /\ Ranked(used, v) \in Nat
             /\ IsFiniteSet({y \in used : y <= v})
             /\ Cardinality({y \in used : y <= v}) = Ranked(used, v) + 1
  <2> DEFINE A == {y \in used : y < v}
  <2>1. A \in SUBSET used /\ IsFiniteSet(A) /\ Cardinality(A) \in Nat
    BY FS_Subset, FS_CardinalityType
  <2>2. v \notin A
    BY <1>1
  <2>3. {y \in used : y <= v} = A \cup {v}
    <3>1. \A y \in used : y <= v <=> y < v \/ y = v
      BY <1>1
    <3> QED
      BY <3>1
  <2>4. Ranked(used, v) = Cardinality(A)
    BY DEF Ranked
  <2> HIDE DEF A
  <2>5. IsFiniteSet(A \cup {v}) /\ Cardinality(A \cup {v}) = Cardinality(A) + 1
    BY <2>1, <2>2, FS_AddElement
  <2> QED
    BY <2>1, <2>3, <2>4, <2>5 DEF A
<1>3. ASSUME NEW v \in used, NEW x \in used, v < x  PROVE Ranked(used, v) + 1 <= Ranked(used, x)
  <2> DEFINE A == {y \in used : y <= v}
             B == {y \in used : y < x}
  <2>1. A \in SUBSET B
    <3>1. \A y \in used : y <= v => y < x
      BY <1>1, <1>3
    <3> QED
      BY <3>1
  <2>2. IsFiniteSet(B) /\ Ranked(used, x) = Cardinality(B)
    BY <1>2 DEF Ranked
  <2>3. Cardinality(A) = Ranked(used, v) + 1
    BY <1>2
  <2> HIDE DEF A, B
  <2> QED
    BY <2>1, <2>2, <2>3, FS_Subset
<1>4. ASSUME NEW v \in used  PROVE Ranked(used, v) + 1 <= Cardinality(used)
  <2> DEFINE A == {y \in used : y <= v}
  <2>1. A \in SUBSET used /\ Cardinality(A) = Ranked(used, v) + 1
    BY <1>2
  <2> HIDE DEF A
  <2> QED
    BY <2>1, FS_Subset
<1>5. \A v \in used : Ranked(used, v) \in Nat
  BY <1>2
<1>6. \A v \in used : Ranked(used, v) \in 0 .. Cardinality(used) - 1
  BY <1>1, <1>4, <1>5
<1>7. \A v, x \in used : v < x => Ranked(used, v) < Ranked(used, x)
  BY <1>3, <1>5
<1> QED
  BY <1>6, <1>7

\* So the numbers of a set in ascending order are a list of all of them.
LEMMA AscendingIs ==
    ASSUME NEW used \in SUBSET Nat, IsFiniteSet(used)
    PROVE  /\ Cardinality(used) \in Nat
           /\ Ascending(used) \in [1 .. Cardinality(used) -> used]
           /\ \A i, j \in 1 .. Cardinality(used) : i < j => Ascending(used)[i] < Ascending(used)[j]
           /\ \A i \in 1 .. Cardinality(used) : Ranked(used, Ascending(used)[i]) = i - 1
           /\ \A v \in used : \E i \in 1 .. Cardinality(used) : Ascending(used)[i] = v
<1> DEFINE n == Cardinality(used)
           T == 0 .. n - 1
           f == [v \in used |-> Ranked(used, v)]
           s == Ascending(used)
<1>1. n \in Nat
  BY FS_CardinalityType
<1> HIDE DEF n
<1>2. \A v \in used : f[v] \in T
  BY RanksRise DEF n
<1>3. \A v, x \in used : v < x => f[v] < f[x]
  BY RanksRise
<1>4. f \in [used -> T]
  BY <1>2
<1> HIDE DEF f
<1>5. f \in Injection(used, T)
  <2>1. ASSUME NEW v \in used, NEW x \in used, v # x  PROVE f[v] # f[x]
    <3>1. v < x \/ x < v
      BY <2>1
    <3>2. f[v] \in Int /\ f[x] \in Int
      BY <1>2
    <3> QED
      BY <1>3, <3>1, <3>2
  <2> QED
    BY <1>4, <2>1 DEF Injection, IsInjective
<1>6. f \in Surjection(used, T)
  <2>1. IsFiniteSet(T) /\ Cardinality(T) = n
    BY <1>1, FS_Interval
  <2> QED
    BY <1>5, <2>1, FS_Injection DEF n
<1>7. ASSUME NEW i \in 1 .. n  PROVE s[i] \in used /\ f[s[i]] = i - 1
  <2>1. i - 1 \in T
    BY <1>1
  <2>2. \E v \in used : f[v] = i - 1
    BY <1>6, <2>1 DEF Surjection
  <2>3. \E v \in used : Ranked(used, v) = i - 1
    BY <2>2 DEF f
  <2>4. s[i] = CHOOSE v \in used : Ranked(used, v) = i - 1
    BY Zenon DEF Ascending, Ranked, n
  <2>5. s[i] \in used /\ Ranked(used, s[i]) = i - 1
    BY <2>3, <2>4
  <2> QED
    BY <2>5 DEF f
<1>8. s \in [1 .. n -> used]
  <2> DEFINE pick(i) == CHOOSE v \in used : Cardinality({x \in used : x < v}) = i - 1
             r == [i \in 1 .. n |-> pick(i)]
  <2>1. s = r
    BY Zenon DEF Ascending, n
  <2> HIDE DEF s, pick
  <2>2. r = [i \in 1 .. n |-> r[i]]
    OBVIOUS
  <2> HIDE DEF r
  <2> QED
    BY <1>7, <2>1, <2>2
<1> HIDE DEF s
<1>9. ASSUME NEW i \in 1 .. n, NEW j \in 1 .. n, i < j  PROVE s[i] < s[j]
  <2>1. s[i] \in Nat /\ s[j] \in Nat /\ f[s[i]] = i - 1 /\ f[s[j]] = j - 1
    BY <1>7
  <2>2. s[j] < s[i] => f[s[j]] < f[s[i]]
    BY <1>3, <1>7
  <2> QED
    BY <1>1, <1>9, <2>1, <2>2
<1>10. ASSUME NEW v \in used  PROVE \E i \in 1 .. n : s[i] = v
  <2> DEFINE i == f[v] + 1
  <2>1. i \in 1 .. n
    BY <1>1, <1>2
  <2>2. f[s[i]] = f[v] /\ s[i] \in used
    BY <1>1, <1>2, <1>7, <2>1
  <2>3. s[i] = v
    BY <1>5, <2>2 DEF Injection, IsInjective
  <2> QED
    BY <2>1, <2>3
<1>11. \A i \in 1 .. n : Ranked(used, s[i]) = i - 1
  BY <1>7 DEF f
<1> QED
  BY <1>1, <1>8, <1>9, <1>10, <1>11 DEF n, s

\* The numbers below n in ascending order.
LEMMA AscendingInterval ==
    ASSUME NEW n \in Nat
    PROVE  /\ Cardinality(0 .. n - 1) = n
           /\ \A i \in 1 .. n : Ascending(0 .. n - 1)[i] = i - 1
<1> DEFINE S == 0 .. n - 1
<1>1. S \in SUBSET Nat /\ IsFiniteSet(S) /\ Cardinality(S) = n
  BY FS_Interval
<1>2. ASSUME NEW v \in S  PROVE Ranked(S, v) = v
  <2>1. {x \in S : x < v} = 0 .. v - 1
    BY <1>2
  <2>2. Cardinality(0 .. v - 1) = v
    BY <1>2, FS_Interval
  <2> QED
    BY <2>1, <2>2 DEF Ranked
<1> HIDE DEF S
<1>3. \A i \in 1 .. n : Ascending(S)[i] \in S /\ Ranked(S, Ascending(S)[i]) = i - 1
  BY <1>1, AscendingIs
<1> QED
  BY <1>1, <1>2, <1>3 DEF S

\* The recursion of FoldLeft.
PlacedIn(F, start, list, s) ==
    IF s = {} THEN start ELSE LET x == Max(s) IN PlaceAsset(F[s \ {x}], list[x])
Places(F, start, list, S) == F = [s \in SUBSET S |-> PlacedIn(F, start, list, s)]

\* It has a solution.
LEMMA PlacesExist ==
    ASSUME NEW bound \in Nat, NEW start, NEW list
    PROVE  \E F : Places(F, start, list, 1 .. bound)
<1> DEFINE S == 1 .. bound
<1>0. IsFiniteSet(S) /\ \A x \in S : x \in Nat /\ x <= bound
  BY FS_Interval
<1> HIDE DEF S
<1> DEFINE Bad == {n \in Nat :
                       ~ \E F : /\ F = [s \in SUBSET S |-> F[s]]
                                /\ \A s \in SUBSET S :
                                       Cardinality(s) <= n => F[s] = PlacedIn(F, start, list, s)}
<1>1. \A s \in SUBSET S : IsFiniteSet(s) /\ Cardinality(s) \in Nat /\ Cardinality(s) <= Cardinality(S)
  BY <1>0, FS_Subset, FS_CardinalityType
<1>2. ASSUME NEW s \in SUBSET S, s # {}  PROVE Max(s) \in s
  <2>1. \E m \in s : \A k \in s : k <= m
    BY <1>0, <1>2, GreatestNat
  <2>2. \E m \in s : \A k \in s : m >= k
    BY <1>0, <2>1
  <2> QED
    BY <2>2, Zenon DEF Max
<1>3. Bad = {}
  <2> SUFFICES ASSUME Bad # {}  PROVE FALSE
    OBVIOUS
  <2>1. PICK m \in Bad : \A n \in Bad : m <= n
    BY LeastNat
  <2>2. PICK F : /\ F = [s \in SUBSET S |-> F[s]]
                 /\ \A s \in SUBSET S : Cardinality(s) <= m - 1 => F[s] = PlacedIn(F, start, list, s)
    <3>1. CASE m = 0
      <4> DEFINE G == [s \in SUBSET S |-> 0]
      <4>1. G = [s \in SUBSET S |-> G[s]] /\ \A s \in SUBSET S : ~ (Cardinality(s) <= m - 1)
        BY <1>1, <3>1
      <4> HIDE DEF G
      <4> QED
        BY <4>1
    <3>2. CASE m # 0
      <4>1. m \in Nat
        BY <2>1
      <4> HIDE DEF Bad
      <4>2. m - 1 \in Nat /\ m - 1 \notin Bad
        BY <2>1, <3>2, <4>1
      <4> QED
        BY <4>2 DEF Bad
    <3> QED
      BY <3>1, <3>2
  <2> DEFINE G == [s \in SUBSET S |-> PlacedIn(F, start, list, s)]
  <2>3. ASSUME NEW s \in SUBSET S, Cardinality(s) <= m  PROVE G[s] = PlacedIn(G, start, list, s)
    <3> DEFINE x == Max(s)
    <3>1. CASE s = {}
      BY <3>1 DEF PlacedIn
    <3>2. CASE s # {}
      <4>1. x \in s
        BY <1>2, <3>2
      <4> HIDE DEF x
      <4>2. s \ {x} \in SUBSET S /\ Cardinality(s \ {x}) = Cardinality(s) - 1
        BY <1>1, <4>1, FS_RemoveElement
      <4>3. Cardinality(s \ {x}) <= m - 1
        BY <1>1, <2>1, <2>3, <4>2
      <4>4. G[s \ {x}] = PlacedIn(F, start, list, s \ {x}) /\ F[s \ {x}] = PlacedIn(F, start, list, s \ {x})
        BY <2>2, <4>2, <4>3
      <4>5. F[s \ {x}] = G[s \ {x}]
        BY <4>4
      <4> HIDE DEF G
      <4>6. /\ PlacedIn(F, start, list, s) = PlaceAsset(F[s \ {x}], list[x])
            /\ PlacedIn(G, start, list, s) = PlaceAsset(G[s \ {x}], list[x])
        BY <3>2, Zenon DEF PlacedIn, x
      <4>7. G[s] = PlacedIn(F, start, list, s)
        BY DEF G
      <4> QED
        BY <4>5, <4>6, <4>7
    <3> QED
      BY <3>1, <3>2
  <2>4. G = [s \in SUBSET S |-> G[s]]
    OBVIOUS
  <2> HIDE DEF G
  <2>5. m \notin Bad
    BY <2>3, <2>4
  <2> QED
    BY <2>1, <2>5
<1>4. Cardinality(S) \in Nat /\ Cardinality(S) \notin Bad
  BY <1>0, <1>3, FS_CardinalityType
<1>5. PICK F : F = [s \in SUBSET S |-> F[s]]
               /\ \A s \in SUBSET S : Cardinality(s) <= Cardinality(S) => F[s] = PlacedIn(F, start, list, s)
  BY <1>4
<1>6. \A s \in SUBSET S : F[s] = PlacedIn(F, start, list, s)
  BY <1>1, <1>5
<1>7. Places(F, start, list, S)
  BY <1>5, <1>6, Zenon DEF Places
<1> QED
  BY <1>7 DEF S

\* The loop over a list of assets, round by round.
Rounds(g, start, list, n) ==
    /\ g[0] = start
    /\ \A i \in 1 .. n : g[i] = PlaceAsset(g[i-1], list[i])
    /\ g[n] = FoldLeft(PlaceAsset, start, list)

LEMMA LoopIs ==
    ASSUME NEW n \in Nat, NEW list, DOMAIN list = 1 .. n, NEW start
    PROVE  \E g : Rounds(g, start, list, n)
<1> DEFINE F == CHOOSE F : Places(F, start, list, 1 .. n)
           g == [i \in 0 .. n |-> F[1 .. i]]
<1>1. FoldLeft(PlaceAsset, start, list) = (CHOOSE G : Places(G, start, list, DOMAIN list))[DOMAIN list]
  BY Zenon DEF FoldLeft, MapThenFoldSet, Places, PlacedIn
<1>2. FoldLeft(PlaceAsset, start, list) = F[1 .. n]
  BY <1>1
<1>3. Places(F, start, list, 1 .. n)
  <2>1. \E G : Places(G, start, list, 1 .. n)
    BY PlacesExist
  <2> QED
    BY <2>1, Zenon
<1> HIDE DEF F
<1>4. \A s \in SUBSET (1 .. n) : F[s] = PlacedIn(F, start, list, s)
  BY <1>3, Zenon DEF Places
<1>5. F[1 .. 0] = start
  <2>1. 1 .. 0 = {}
    OBVIOUS
  <2>2. F[{}] = PlacedIn(F, start, list, {})
    BY <1>4
  <2> QED
    BY <2>1, <2>2 DEF PlacedIn
<1>6. ASSUME NEW i \in 1 .. n  PROVE F[1 .. i] = PlaceAsset(F[1 .. i - 1], list[i])
  <2>1. Max(1 .. i) = i
    <3>1. \A x \in 1 .. i : (\A y \in 1 .. i : x >= y) <=> x = i
      OBVIOUS
    <3>2. i \in 1 .. i
      OBVIOUS
    <3> QED
      BY <3>1, <3>2 DEF Max
  <2>2. (1 .. i) \ {i} = 1 .. i - 1 /\ 1 .. i # {} /\ 1 .. i \in SUBSET (1 .. n)
    <3>1. i \in Nat /\ i <= n /\ i \in 1 .. i
      OBVIOUS
    <3>2. \A x : x \in 1 .. i - 1 <=> x \in 1 .. i /\ x # i
      BY <3>1
    <3>3. \A x \in 1 .. i : x \in 1 .. n
      BY <3>1
    <3> QED
      BY <3>1, <3>2, <3>3
  <2>3. F[1 .. i] = PlacedIn(F, start, list, 1 .. i)
    BY <1>4, <2>2
  <2>4. PlacedIn(F, start, list, 1 .. i) = PlaceAsset(F[(1 .. i) \ {Max(1 .. i)}], list[Max(1 .. i)])
    BY <2>2, Zenon DEF PlacedIn
  <2> QED
    BY <2>1, <2>2, <2>3, <2>4
<1>7. /\ g[0] = start
      /\ \A i \in 1 .. n : g[i] = PlaceAsset(g[i-1], list[i])
      /\ g[n] = FoldLeft(PlaceAsset, start, list)
  <2>1. 0 \in 0 .. n /\ n \in 0 .. n /\ \A i \in 1 .. n : i \in 0 .. n /\ i - 1 \in 0 .. n
    OBVIOUS
  <2> QED
    BY <1>2, <1>5, <1>6, <2>1
<1> HIDE DEF g
<1>8. Rounds(g, start, list, n)
  BY <1>7, Zenon DEF Rounds
<1> QED
  BY <1>8

Increasing(s) == \A i, j \in 1 .. Len(s) : i < j => s[i] < s[j]

\* Numbers that follow each other.
LEMMA ConsecutiveIs ==
    ASSUME NEW first \in Nat, NEW n \in Nat
    PROVE  /\ Consecutive(first, n) \in Seq(Nat)
           /\ Len(Consecutive(first, n)) = n
           /\ \A i \in 1 .. n : Consecutive(first, n)[i] = first + i - 1
<1>1. \A i \in 1 .. n : first + i - 1 \in Nat
  OBVIOUS
<1> QED
  BY <1>1 DEF Consecutive

\* The list that a round of the loop makes of one.
IsRound(list, indexes, first, gap, v) ==
    /\ indexes \in Seq(Nat) /\ first \in Nat /\ gap \in Nat /\ v \in Nat
    /\ list = indexes \o Consecutive(first, gap) \o <<v>>

LEMMA RoundIs ==
    ASSUME NEW list, NEW indexes, NEW first, NEW gap, NEW v, IsRound(list, indexes, first, gap, v)
    PROVE  LET m == Len(indexes)
           IN  /\ list \in Seq(Nat) /\ Len(list) = m + gap + 1 /\ m \in Nat
               /\ \A k \in 1 .. m : list[k] = indexes[k]
               /\ \A k \in m + 1 .. m + gap : list[k] = first + (k - m) - 1
               /\ list[m + gap + 1] = v
<1> DEFINE m == Len(indexes)
           c == Consecutive(first, gap)
           e == indexes \o c
<1>0. /\ indexes \in Seq(Nat) /\ first \in Nat /\ gap \in Nat /\ v \in Nat
      /\ list = indexes \o Consecutive(first, gap) \o <<v>>
  BY DEF IsRound
<1>1. c \in Seq(Nat) /\ Len(c) = gap /\ \A k \in 1 .. gap : c[k] = first + k - 1
  BY <1>0, ConsecutiveIs
<1> HIDE DEF c
<1>2. /\ e \in Seq(Nat) /\ Len(e) = m + gap /\ m \in Nat
      /\ \A k \in 1 .. m + gap : e[k] = IF k <= m THEN indexes[k] ELSE c[k - m]
  BY <1>0, <1>1, ConcatProperties, LenProperties
<1> HIDE DEF m
<1> DEFINE one == <<v>>
<1> HIDE DEF e
<1>3. one \in Seq(Nat) /\ Len(one) = 1 /\ one[1] = v
  BY <1>0
<1> HIDE DEF one
<1>4. /\ list \in Seq(Nat) /\ Len(list) = m + gap + 1
      /\ \A k \in 1 .. m + gap + 1 : list[k] = IF k <= m + gap THEN e[k] ELSE one[k - (m + gap)]
  <2>1. /\ e \o one \in Seq(Nat) /\ Len(e \o one) = Len(e) + Len(one)
        /\ \A k \in 1 .. Len(e) + Len(one) : (e \o one)[k] = IF k <= Len(e) THEN e[k] ELSE one[k - Len(e)]
    BY <1>2, <1>3, ConcatProperties
  <2>2. list = e \o one
    BY <1>0 DEF one, e, c
  <2>3. Len(e) = m + gap /\ Len(one) = 1
    BY <1>2, <1>3
  <2> QED
    BY <2>1, <2>2, <2>3
<1>5. ASSUME NEW k \in 1 .. m  PROVE list[k] = indexes[k]
  <2>1. m \in Nat /\ gap \in Nat
    BY <1>0, <1>2
  <2>2. k \in 1 .. m + gap + 1 /\ k <= m + gap /\ k <= m /\ k \in 1 .. m + gap
    BY <2>1
  <2>3. list[k] = e[k]
    BY <1>4, <2>2
  <2> QED
    BY <1>2, <2>2, <2>3
<1>6. ASSUME NEW k \in m + 1 .. m + gap  PROVE list[k] = first + (k - m) - 1
  <2>1. k \in 1 .. m + gap /\ ~(k <= m) /\ k - m \in 1 .. gap /\ k \in 1 .. m + gap + 1
    BY <1>0, <1>2
  <2> QED
    BY <1>1, <1>2, <1>4, <2>1
<1>7. list[m + gap + 1] = v
  <2>1. m + gap + 1 \in 1 .. m + gap + 1 /\ ~(m + gap + 1 <= m + gap) /\ (m + gap + 1) - (m + gap) = 1
    <3>1. m \in Nat /\ gap \in Nat
      BY <1>0, <1>2
    <3> QED
      BY <3>1
  <2> QED
    BY <1>3, <1>4, <2>1
<1> QED
  BY <1>2, <1>4, <1>5, <1>6, <1>7 DEF m

\* The list of the loop when the first i of the assets in s are placed: it
\* rises, has these assets, and while padding is left it has no gap.
Placed(list, s, i, padding) ==
    /\ list.indexes \in Seq(Nat) /\ list.next \in Nat /\ list.padding \in 0 .. padding
    /\ Len(list.indexes) = i + padding - list.padding
    /\ Increasing(list.indexes)
    /\ \A k \in 1 .. Len(list.indexes) : list.indexes[k] < list.next
    /\ list.next = IF i = 0 THEN 0 ELSE s[i] + 1
    /\ \A j \in 1 .. i : \E k \in 1 .. Len(list.indexes) : list.indexes[k] = s[j]
    /\ list.padding > 0 =>
           Len(list.indexes) = list.next /\ \A k \in 1 .. Len(list.indexes) : list.indexes[k] = k - 1
    /\ padding = 0 => \A k \in 1 .. i : list.indexes[k] = s[k]

\* A round keeps it so.
LEMMA RoundPlaces ==
    ASSUME NEW n \in Nat, NEW s \in [1 .. n -> Nat],
           \A i, j \in 1 .. n : i < j => s[i] < s[j],
           NEW i \in 0 .. n - 1, NEW padding \in Nat, NEW list, Placed(list, s, i, padding)
    PROVE  Placed(PlaceAsset(list, s[i+1]), s, i + 1, padding)
<1> DEFINE v == s[i+1]
           turn == PlaceAsset(list, v)
           first == list.next
           left == list.padding
           gap == Smaller(v - first, left)
           old == list.indexes
           new == old \o Consecutive(first, gap) \o <<v>>
           m == Len(old)
<1>1. /\ old \in Seq(Nat) /\ first \in Nat /\ left \in Nat /\ left <= padding
      /\ m = i + padding - left /\ m \in Nat
      /\ first = IF i = 0 THEN 0 ELSE s[i] + 1
  BY DEF Placed
<1>2. /\ \A j, k \in 1 .. m : j < k => old[j] < old[k]
      /\ \A k \in 1 .. m : old[k] < first /\ old[k] \in Nat
      /\ \A j \in 1 .. i : \E k \in 1 .. m : old[k] = s[j]
      /\ left > 0 => m = first /\ \A k \in 1 .. m : old[k] = k - 1
      /\ padding = 0 => \A k \in 1 .. i : old[k] = s[k]
  <2>1. \A k \in 1 .. m : old[k] \in Nat
    BY <1>1, ElementOfSeq
  <2> USE DEF Placed
  <2>2. \A j, k \in 1 .. m : j < k => old[j] < old[k]
    BY DEF Increasing
  <2>3. \A k \in 1 .. m : old[k] < first
    OBVIOUS
  <2>4. \A j \in 1 .. i : \E k \in 1 .. m : old[k] = s[j]
    OBVIOUS
  <2>5. left > 0 => m = first /\ \A k \in 1 .. m : old[k] = k - 1
    OBVIOUS
  <2>6. padding = 0 => \A k \in 1 .. i : old[k] = s[k]
    OBVIOUS
  <2> QED
    BY <2>1, <2>2, <2>3, <2>4, <2>5, <2>6
<1>3. turn.indexes = new /\ turn.next = v + 1 /\ turn.padding = left - gap
  BY DEF PlaceAsset
<1> HIDE DEF turn, old, first, left
<1>4. v \in Nat /\ first <= v /\ i \in Nat
  <2>1. i + 1 \in 1 .. n
    OBVIOUS
  <2>2. i # 0 => i \in 1 .. n /\ s[i] < v /\ s[i] \in Nat
    BY <2>1
  <2> QED
    BY <1>1, <2>1, <2>2
<1> HIDE DEF v
<1>5. gap \in Nat /\ gap <= left /\ gap <= v - first /\ (gap = v - first \/ gap = left)
  BY <1>1, <1>4 DEF Smaller
<1> HIDE DEF gap
<1>6. /\ new \in Seq(Nat) /\ Len(new) = m + gap + 1
      /\ \A k \in 1 .. m : new[k] = old[k]
      /\ \A k \in m + 1 .. m + gap : new[k] = first + (k - m) - 1
      /\ new[m + gap + 1] = v
  <2>1. old \in Seq(Nat) /\ first \in Nat /\ gap \in Nat /\ v \in Nat
    BY <1>1, <1>4, <1>5
  <2>2. IsRound(new, old, first, gap, v)
    BY <2>1 DEF IsRound
  <2> HIDE DEF new
  <2> QED
    BY <2>2, RoundIs
<1> HIDE DEF new, m
<1>7. \A k \in 1 .. m + gap + 1 : k \in 1 .. m \/ k \in m + 1 .. m + gap \/ k = m + gap + 1
  <2>1. m \in Nat /\ gap \in Nat
    BY <1>1, <1>5
  <2> QED
    BY <2>1
<1>8. ASSUME NEW j \in 1 .. m + gap + 1, NEW k \in 1 .. m + gap + 1, j < k  PROVE new[j] < new[k]
  <2>1. m \in Nat /\ gap \in Nat /\ first \in Nat /\ v \in Nat /\ gap <= v - first
    BY <1>1, <1>4, <1>5
  <2>2. CASE j \in 1 .. m
    <3>1. new[j] = old[j] /\ old[j] < first /\ old[j] \in Nat
      BY <1>2, <1>6, <2>2
    <3>2. CASE k \in 1 .. m
      BY <1>2, <1>6, <1>8, <2>2, <3>2
    <3>3. CASE k \in m + 1 .. m + gap
      <4>1. new[k] = first + (k - m) - 1
        BY <1>6, <3>3
      <4> QED
        BY <2>1, <3>1, <3>3, <4>1
    <3>4. CASE k = m + gap + 1
      BY <1>6, <2>1, <3>1, <3>4
    <3> QED
      BY <1>7, <3>2, <3>3, <3>4
  <2>3. CASE j \in m + 1 .. m + gap
    <3>1. new[j] = first + (j - m) - 1
      BY <1>6, <2>3
    <3>2. CASE k \in m + 1 .. m + gap
      <4>1. new[k] = first + (k - m) - 1
        BY <1>6, <3>2
      <4> QED
        BY <1>8, <2>1, <3>1, <4>1
    <3>3. CASE k = m + gap + 1
      <4>1. new[k] = v /\ j - m <= gap
        BY <1>6, <2>1, <2>3, <3>3
      <4> QED
        BY <2>1, <2>3, <3>1, <4>1
    <3>4. ~ (k \in 1 .. m)
      BY <1>8, <2>1, <2>3
    <3> QED
      BY <1>7, <3>2, <3>3, <3>4
  <2>4. j # m + gap + 1
    BY <1>8, <2>1
  <2> QED
    BY <1>7, <2>2, <2>3, <2>4
<1>9. ASSUME NEW k \in 1 .. m + gap + 1  PROVE new[k] < v + 1
  <2>1. m \in Nat /\ gap \in Nat /\ m + gap + 1 \in 1 .. m + gap + 1
    BY <1>1, <1>5
  <2>2. k # m + gap + 1 => k < m + gap + 1
    BY <2>1
  <2>3. k # m + gap + 1 => new[k] < v
    BY <1>6, <1>8, <2>1, <2>2
  <2>4. new[k] \in Nat
    BY <1>6, ElementOfSeq
  <2> QED
    BY <1>4, <1>6, <2>3, <2>4
<1>10. ASSUME NEW j \in 1 .. i + 1  PROVE \E k \in 1 .. m + gap + 1 : new[k] = s[j]
  <2>1. m \in Nat /\ gap \in Nat
    BY <1>1, <1>5
  <2>2. CASE j = i + 1
    <3>1. m + gap + 1 \in 1 .. m + gap + 1
      BY <2>1
    <3> QED
      BY <1>6, <2>2, <3>1 DEF v
  <2>3. CASE j # i + 1
    <3>1. j \in 1 .. i
      BY <1>4, <2>3
    <3>2. PICK k \in 1 .. m : old[k] = s[j]
      BY <1>2, <3>1
    <3>3. k \in 1 .. m + gap + 1
      BY <2>1
    <3> QED
      BY <1>6, <3>2, <3>3
  <2> QED
    BY <2>2, <2>3
<1>11. ASSUME left - gap > 0
       PROVE  m + gap + 1 = v + 1 /\ \A k \in 1 .. m + gap + 1 : new[k] = k - 1
  <2>1. left > 0 /\ gap = v - first
    BY <1>1, <1>5, <1>11
  <2>2. m = first /\ \A k \in 1 .. m : old[k] = k - 1
    BY <1>2, <2>1
  <2>3. m \in Nat /\ v \in Nat /\ m + gap = v
    <3>1. m \in Nat /\ v \in Nat /\ first \in Nat
      BY <1>1, <1>4
    <3> QED
      BY <2>1, <2>2, <3>1
  <2>4. ASSUME NEW k \in 1 .. m + gap + 1  PROVE new[k] = k - 1
    <3>1. CASE k \in 1 .. m
      BY <1>6, <2>2, <3>1
    <3>2. CASE k \in m + 1 .. m + gap
      <4>1. new[k] = m + (k - m) - 1
        BY <1>6, <2>2, <3>2
      <4> QED
        BY <2>3, <3>2, <4>1
    <3>3. CASE k = m + gap + 1
      BY <1>6, <2>3, <3>3
    <3> QED
      BY <1>7, <3>1, <3>2, <3>3
  <2> QED
    BY <2>3, <2>4
<1>12. ASSUME padding = 0, NEW k \in 1 .. i + 1  PROVE new[k] = s[k]
  <2>1. left = 0 /\ gap = 0 /\ m = i
    BY <1>1, <1>4, <1>5, <1>12
  <2>2. CASE k = i + 1
    <3>1. new[m + gap + 1] = v /\ m + gap + 1 = k
      BY <1>4, <1>6, <2>1, <2>2
    <3> QED
      BY <2>2, <3>1 DEF v
  <2>3. CASE k # i + 1
    <3>1. k \in 1 .. i
      BY <1>4, <2>3
    <3>2. old[k] = s[k] /\ new[k] = old[k]
      BY <1>2, <1>6, <1>12, <2>1, <3>1
    <3> QED
      BY <3>2
  <2> QED
    BY <2>2, <2>3
<1>13. Increasing(new)
  BY <1>6, <1>8 DEF Increasing
<1>14. Placed(turn, s, i + 1, padding)
  <2>1. /\ turn.indexes \in Seq(Nat) /\ Len(turn.indexes) = m + gap + 1 /\ turn.indexes = new
        /\ turn.next = v + 1 /\ turn.padding = left - gap
    BY <1>3, <1>6
  <2>2. /\ turn.next \in Nat /\ turn.padding \in 0 .. padding
        /\ m + gap + 1 = (i + 1) + padding - turn.padding
    <3>1. left - gap \in 0 .. padding /\ m + gap + 1 = (i + 1) + padding - (left - gap)
      BY <1>1, <1>4, <1>5
    <3> QED
      BY <1>4, <2>1, <3>1
  <2>3. turn.next = IF i + 1 = 0 THEN 0 ELSE s[i+1] + 1
    <3>1. i + 1 # 0
      BY <1>4
    <3> QED
      BY <2>1, <3>1 DEF v
  <2>4. \A k \in 1 .. Len(turn.indexes) : turn.indexes[k] < turn.next
    BY <1>9, <2>1
  <2>5. \A j \in 1 .. i + 1 : \E k \in 1 .. Len(turn.indexes) : turn.indexes[k] = s[j]
    BY <1>10, <2>1
  <2>6. turn.padding > 0 =>
            Len(turn.indexes) = turn.next /\ \A k \in 1 .. Len(turn.indexes) : turn.indexes[k] = k - 1
    BY <1>11, <2>1
  <2>7. padding = 0 => \A k \in 1 .. i + 1 : turn.indexes[k] = s[k]
    BY <1>12, <2>1
  <2>8. Increasing(turn.indexes) /\ Len(turn.indexes) = (i + 1) + padding - turn.padding
    BY <1>13, <2>1, <2>2
  <2> QED
    BY <2>1, <2>2, <2>3, <2>4, <2>5, <2>6, <2>7, <2>8 DEF Placed
<1> QED
  BY <1>14 DEF turn, v

\* The list that the loop over all the assets that are used leaves.
LoopLeaves(list, used, n, count) ==
    /\ Placed(list, Ascending(used), n, count - n)
    /\ PaddedIndexes(used, count) = list.indexes \o Consecutive(list.next, list.padding)

LEMMA LoopPlaces ==
    ASSUME NEW used \in SUBSET Nat, IsFiniteSet(used),
           NEW count \in Nat, Cardinality(used) <= count
    PROVE  \E list : LoopLeaves(list, used, Cardinality(used), count)
<1> DEFINE n == Cardinality(used)
           s == Ascending(used)
           padding == count - n
           start == [indexes |-> <<>>, next |-> 0, padding |-> padding]
<1>1. /\ n \in Nat /\ s \in [1 .. n -> used]
      /\ \A i, j \in 1 .. n : i < j => s[i] < s[j]
  BY AscendingIs
<1>2. DOMAIN s = 1 .. n /\ s \in [1 .. n -> Nat]
  BY <1>1
<1>3. PaddedIndexes(used, count)
          = LET list == FoldLeft(PlaceAsset, start, s)
            IN  list.indexes \o Consecutive(list.next, count - Len(list.indexes))
  BY DEF PaddedIndexes
<1>4. padding \in Nat
  BY <1>1
<1>5. Placed(start, s, 0, padding)
  <2>1. start.indexes = <<>> /\ start.next = 0 /\ start.padding = padding
    OBVIOUS
  <2> HIDE DEF start, padding
  <2> QED
    BY <1>4, <2>1 DEF Placed, Increasing
<1> HIDE DEF n, s, start, padding
<1>6. PICK g : /\ g[0] = start
               /\ \A i \in 1 .. n : g[i] = PlaceAsset(g[i-1], s[i])
               /\ g[n] = FoldLeft(PlaceAsset, start, s)
  <2>1. n \in Nat /\ DOMAIN s = 1 .. n
    BY <1>1, <1>2
  <2>2. \E g : Rounds(g, start, s, n)
    BY <2>1, LoopIs
  <2> QED
    BY <2>2 DEF Rounds
<1> DEFINE Bad == {i \in Nat : i <= n /\ ~Placed(g[i], s, i, padding)}
<1>7. Bad = {}
  <2> SUFFICES ASSUME Bad # {}  PROVE FALSE
    OBVIOUS
  <2>1. PICK m \in Bad : \A i \in Bad : m <= i
    BY LeastNat
  <2>2. m \in Nat /\ m <= n /\ ~Placed(g[m], s, m, padding)
    BY <2>1
  <2>3. m # 0
    BY <1>5, <1>6, <2>2
  <2>4. m - 1 \in 0 .. n - 1 /\ m \in 1 .. n /\ (m - 1) + 1 = m
    BY <1>1, <2>2, <2>3
  <2>5. Placed(g[m-1], s, m - 1, padding)
    <3>1. m - 1 \notin Bad
      BY <2>1, <2>2, <2>4
    <3> QED
      BY <1>1, <2>4, <3>1
  <2>6. Placed(PlaceAsset(g[m-1], s[(m - 1) + 1]), s, (m - 1) + 1, padding)
    <3> HIDE DEF Bad
    <3> QED
      BY <1>1, <1>2, <1>4, <2>4, <2>5, RoundPlaces
  <2> QED
    BY <1>6, <2>2, <2>4, <2>6
<1>8. Placed(g[n], s, n, padding)
  BY <1>1, <1>7
<1> DEFINE list == g[n]
<1>9. Len(list.indexes) = n + padding - list.padding /\ list.padding \in Int
  BY <1>8 DEF Placed
<1>10. count - Len(list.indexes) = list.padding
  <2>1. padding = count - n
    BY DEF padding
  <2> HIDE DEF list
  <2> QED
    BY <1>1, <1>9, <2>1
<1>11. PaddedIndexes(used, count) = list.indexes \o Consecutive(list.next, list.padding)
  BY <1>3, <1>6, <1>10
<1> HIDE DEF list
<1>12. Placed(list, s, n, padding)
  BY <1>8 DEF list
<1> QED
  <2>1. Placed(list, Ascending(used), Cardinality(used), count - Cardinality(used))
    BY <1>12 DEF n, s, padding
  <2> QED
    BY <1>11, <2>1 DEF LoopLeaves, n

\* The padded list has room for all that is used, rises, and goes no further
\* than the assets there are.
THEOREM PaddedListIs ==
    ASSUME NEW used \in SUBSET (0 .. AssetCounts - 1),
           NEW count \in Nat, Cardinality(used) <= count, count <= AssetCounts
    PROVE  LET list == PaddedIndexes(used, count) IN
           /\ list \in Seq(Nat) /\ Len(list) = count
           /\ Increasing(list)
           /\ \A k \in 1 .. count : list[k] \in 0 .. AssetCounts - 1
           /\ \A v \in used : \E k \in 1 .. count : list[k] = v
<1> DEFINE n == Cardinality(used)
           s == Ascending(used)
           padding == count - n
           list == PaddedIndexes(used, count)
<1>1. used \in SUBSET Nat /\ IsFiniteSet(used) /\ AssetCounts \in Nat
  <2> DEFINE I == 0 .. AssetCounts - 1
  <2>1. AssetCounts \in Nat
    BY AssetCountsAssumption
  <2>2. IsFiniteSet(I)
    BY <2>1, FS_Interval
  <2>3. \A v \in I : v \in Nat
    BY <2>1
  <2>4. used \in SUBSET I
    OBVIOUS
  <2> HIDE DEF I
  <2>5. IsFiniteSet(used)
    BY <2>2, <2>4, FS_Subset
  <2>6. used \in SUBSET Nat
    BY <2>3, <2>4
  <2> QED
    BY <2>1, <2>5, <2>6
<1>2. /\ n \in Nat /\ s \in [1 .. n -> used]
      /\ \A v \in used : \E i \in 1 .. n : s[i] = v
  BY <1>1, AscendingIs
<1>3. PICK l : Placed(l, s, n, padding) /\ list = l.indexes \o Consecutive(l.next, l.padding)
  <2>1. PICK l : LoopLeaves(l, used, n, count)
    BY <1>1, LoopPlaces
  <2> QED
    BY <2>1, Zenon DEF LoopLeaves
<1> HIDE DEF n, s, list
<1> DEFINE old == l.indexes
           left == l.padding
           after == l.next
           c == Consecutive(after, left)
           m == Len(old)
<1>4. /\ old \in Seq(Nat) /\ after \in Nat /\ left \in Nat /\ left <= padding
      /\ m = n + padding - left /\ m \in Nat
      /\ after = IF n = 0 THEN 0 ELSE s[n] + 1
  BY <1>2, <1>3 DEF Placed
<1>5. \A k \in 1 .. m : old[k] \in Nat /\ old[k] < after
  <2>1. \A k \in 1 .. m : old[k] \in Nat
    BY <1>4, ElementOfSeq
  <2> QED
    BY <1>3, <2>1 DEF Placed
<1>6. \A j, k \in 1 .. m : j < k => old[j] < old[k]
  BY <1>3 DEF Placed, Increasing
<1>7. \A j \in 1 .. n : \E k \in 1 .. m : old[k] = s[j]
  BY <1>3 DEF Placed
<1>8. left > 0 => m = after
  BY <1>3 DEF Placed
<1>9. m + left = count
  BY <1>2, <1>4
<1>10. list = old \o c
  BY <1>3
<1> HIDE DEF old, left, after, padding
<1>11. c \in Seq(Nat) /\ Len(c) = left /\ \A k \in 1 .. left : c[k] = after + k - 1
  BY <1>4, ConsecutiveIs
<1> HIDE DEF c
<1>12. /\ list \in Seq(Nat) /\ Len(list) = count
       /\ \A k \in 1 .. count : list[k] = IF k <= m THEN old[k] ELSE c[k - m]
  BY <1>4, <1>9, <1>10, <1>11, ConcatProperties
<1> HIDE DEF m
<1>13. ASSUME NEW k \in 1 .. count, ~(k <= m)  PROVE list[k] = after + (k - m) - 1 /\ left > 0
  <2>1. k - m \in 1 .. left /\ left > 0
    BY <1>4, <1>9, <1>13
  <2> QED
    BY <1>11, <1>12, <1>13, <2>1
<1>14. ASSUME NEW k \in 1 .. count, k <= m  PROVE list[k] = old[k] /\ k \in 1 .. m
  BY <1>4, <1>12, <1>14
<1>15. ASSUME NEW j \in 1 .. count, NEW k \in 1 .. count, j < k  PROVE list[j] < list[k]
  <2>1. CASE k <= m
    <3>1. j <= m
      BY <1>4, <1>15, <2>1
    <3> QED
      BY <1>6, <1>14, <1>15, <2>1, <3>1
  <2>2. CASE ~(k <= m) /\ j <= m
    <3>1. list[j] < after /\ list[j] \in Nat
      BY <1>5, <1>14, <2>2
    <3>2. list[k] = after + (k - m) - 1
      BY <1>13, <2>2
    <3> QED
      BY <1>4, <2>2, <3>1, <3>2
  <2>3. CASE ~(k <= m) /\ ~(j <= m)
    <3>1. list[k] = after + (k - m) - 1 /\ list[j] = after + (j - m) - 1
      BY <1>13, <2>3
    <3> QED
      BY <1>4, <1>15, <3>1
  <2> QED
    BY <2>1, <2>2, <2>3
<1>16. after <= AssetCounts
  <2>1. n # 0 => n \in 1 .. n
    BY <1>2
  <2>2. n # 0 => s[n] \in used
    BY <1>2, <2>1
  <2>3. n # 0 => s[n] \in 0 .. AssetCounts - 1
    BY <2>2
  <2> QED
    BY <1>1, <1>4, <2>3
<1>17. ASSUME NEW k \in 1 .. count  PROVE list[k] \in 0 .. AssetCounts - 1
  <2>1. CASE k <= m
    <3>1. list[k] \in Nat /\ list[k] < after
      BY <1>5, <1>14, <2>1
    <3> QED
      BY <1>1, <1>4, <1>16, <3>1
  <2>2. CASE ~(k <= m)
    <3>1. list[k] = m + (k - m) - 1
      BY <1>8, <1>13, <2>2
    <3> QED
      BY <1>1, <1>4, <3>1
  <2> QED
    BY <2>1, <2>2
<1>18. ASSUME NEW v \in used  PROVE \E k \in 1 .. count : list[k] = v
  <2>1. PICK j \in 1 .. n : s[j] = v
    BY <1>2
  <2>2. PICK k \in 1 .. m : old[k] = v
    BY <1>7, <2>1
  <2>3. k \in 1 .. count /\ k <= m
    BY <1>4, <1>9
  <2> QED
    BY <1>14, <2>2, <2>3
<1>19. Increasing(list)
  BY <1>12, <1>15 DEF Increasing
<1> QED
  BY <1>12, <1>17, <1>18, <1>19 DEF list

\* The list of a padding account in the tree, which has all assets of its tier,
\* and in the circuit, where none of them counts.
THEOREM PaddedNothing ==
    ASSUME NEW t \in Nat
    PROVE  PaddedIndexes(0 .. t - 1, t) = PaddedIndexes({}, t)
<1> DEFINE S == 0 .. t - 1
<1>1. S \in SUBSET Nat /\ IsFiniteSet(S) /\ Cardinality(S) = t
  BY FS_Interval
<1>2. \A i \in 1 .. t : Ascending(S)[i] = i - 1
  BY AscendingInterval
<1> HIDE DEF S
<1>3. PICK l : /\ Placed(l, Ascending(S), t, t - t)
               /\ PaddedIndexes(S, t) = l.indexes \o Consecutive(l.next, l.padding)
  <2>1. Cardinality(S) <= t
    BY <1>1
  <2>2. PICK l : LoopLeaves(l, S, Cardinality(S), t)
    BY <1>1, <2>1, LoopPlaces
  <2>3. LoopLeaves(l, S, t, t)
    BY <1>1, <2>2
  <2> QED
    BY <2>3, Zenon DEF LoopLeaves
<1>4. PICK e : /\ Placed(e, Ascending({}), 0, t - 0)
               /\ PaddedIndexes({}, t) = e.indexes \o Consecutive(e.next, e.padding)
  <2>1. {} \in SUBSET Nat /\ IsFiniteSet({}) /\ Cardinality({}) = 0
    BY FS_EmptySet
  <2>2. Cardinality({}) <= t
    BY <2>1
  <2>3. PICK e : LoopLeaves(e, {}, Cardinality({}), t)
    BY <2>1, <2>2, LoopPlaces
  <2>4. LoopLeaves(e, {}, 0, t)
    BY <2>1, <2>3
  <2> QED
    BY <2>4, Zenon DEF LoopLeaves
<1>5. /\ l.indexes \in Seq(Nat) /\ l.next \in Nat /\ l.padding = 0 /\ Len(l.indexes) = t
      /\ \A k \in 1 .. t : l.indexes[k] = Ascending(S)[k]
  <2>1. t - t = 0
    OBVIOUS
  <2> QED
    BY <1>3, <2>1 DEF Placed
<1>6. e.indexes \in Seq(Nat) /\ e.next = 0 /\ e.padding \in Nat /\ Len(e.indexes) = t - e.padding
  BY <1>4 DEF Placed
<1>7. e.padding > 0 => Len(e.indexes) = 0
  BY <1>4, <1>6 DEF Placed
<1>8. \A k \in 1 .. Len(e.indexes) : e.indexes[k] < 0 /\ e.indexes[k] \in Nat
  <2>1. \A k \in 1 .. Len(e.indexes) : e.indexes[k] \in Nat
    BY <1>6, ElementOfSeq
  <2> QED
    BY <1>4, <1>6, <2>1 DEF Placed
<1>9. Len(e.indexes) = 0 /\ e.padding = t
  <2>1. Len(e.indexes) \in Nat
    BY <1>6, LenProperties
  <2>2. Len(e.indexes) # 0 => 1 \in 1 .. Len(e.indexes)
    BY <2>1
  <2>3. Len(e.indexes) = 0
    BY <1>8, <2>2
  <2> QED
    BY <1>6, <2>3
<1> DEFINE c == Consecutive(0, t)
           d == Consecutive(l.next, 0)
<1>10. c \in Seq(Nat) /\ Len(c) = t /\ \A k \in 1 .. t : c[k] = k - 1
  BY ConsecutiveIs
<1>11. d \in Seq(Nat) /\ Len(d) = 0
  <2> DEFINE after == l.next
  <2>1. after \in Nat /\ 0 \in Nat
    BY <1>5
  <2> HIDE DEF after
  <2>2. Consecutive(after, 0) \in Seq(Nat) /\ Len(Consecutive(after, 0)) = 0
    BY <2>1, ConsecutiveIs
  <2> QED
    BY <2>2 DEF after
<1>12. PaddedIndexes(S, t) = l.indexes \o d /\ PaddedIndexes({}, t) = e.indexes \o c
  BY <1>3, <1>4, <1>5, <1>6, <1>9
<1> HIDE DEF c, d
<1>13. d = <<>> /\ e.indexes = <<>>
  BY <1>6, <1>9, <1>11, EmptySeq
<1>14. PaddedIndexes(S, t) = l.indexes /\ PaddedIndexes({}, t) = c
  BY <1>5, <1>10, <1>12, <1>13, ConcatEmptySeq
<1>15. l.indexes = c
  <2> DEFINE x == l.indexes
  <2>1. x \in Seq(Nat) /\ Len(x) = Len(c) /\ Len(x) = t
    BY <1>5, <1>10
  <2>2. \A k \in 1 .. t : x[k] = c[k]
    BY <1>2, <1>5, <1>10
  <2> HIDE DEF x
  <2>3. x = c
    BY <1>10, <2>1, <2>2, SeqEqual
  <2> QED
    BY <2>3 DEF x
<1> QED
  BY <1>14, <1>15 DEF S

----------------------------------------------------------------------------
(* Every batch can be proved.                                              *)

\* The accounts of a tier: its users, then the padding.
LEMMA TierAccounts ==
    ASSUME LoadInv, AllMerged, Built, NEW tier \in Keys, NEW j \in 1 .. Len(accounts[tier])
    PROVE  \E x : /\ accounts[tier][j] = Indexed(x, Before(tier) + j - 1)
                  /\ x \in UsersOf(tier) \/ x = PaddingAccount(tier)
                  /\ j <= Len(AccountInfo(tier)) => x \in UsersOf(tier)
<1> DEFINE n == Len(AccountInfo(tier))
           L == Len(PaddedAccounts(tier))
           x == PaddedAccounts(tier)[j]
<1>1. tier \in AssetCountsTiers
  BY KeysFinite
<1>2. /\ n \in Nat /\ L \in Nat
      /\ \A i \in 1 .. n : PaddedAccounts(tier)[i] = AccountInfo(tier)[i]
      /\ \A i \in 1 .. L : i > n => PaddedAccounts(tier)[i] = PaddingAccount(tier)
  <2>1. PaddedAccounts(tier) \in Seq(Users \cup Paddings)
    BY <1>1, PaddedIs
  <2> QED
    BY <1>1, <2>1, PaddedIs, LenProperties
<1>3. accounts[tier] = Numbered(tier) /\ Len(Numbered(tier)) = L
  BY BuiltTier, NumberedIs
<1>4. j \in 1 .. L
  BY <1>3
<1>5. accounts[tier][j] = Indexed(x, Before(tier) + j - 1)
  BY <1>3, <1>4, NumberedIs
<1>6. j <= n => x \in UsersOf(tier)
  <2>1. AccountInfo(tier) \in Seq(UsersOf(tier))
    BY <1>1, AccountsOfFiles
  <2>2. \A i \in 1 .. n : AccountInfo(tier)[i] \in UsersOf(tier)
    BY <2>1, ElementOfSeq
  <2>3. j <= n => j \in 1 .. n
    BY <1>2, <1>4
  <2> QED
    BY <1>2, <2>2, <2>3
<1>7. ~ (j <= n) => x = PaddingAccount(tier)
  BY <1>2, <1>4
<1> HIDE DEF x, n
<1>8. x \in UsersOf(tier) \/ x = PaddingAccount(tier)
  BY <1>6, <1>7
<1> QED
  BY <1>5, <1>6, <1>8 DEF n

\* The first account of a batch is a user's: padding is less than a batch.
LEMMA FirstIsUser ==
    ASSUME LoadInv, AllMerged, Built, NEW i \in Nat, i < BatchNumber
    PROVE  RelativeBatchNum(i) * OpsPerBatch[TierOfBatch(i)] + 1 <= Len(AccountInfo(TierOfBatch(i)))
<1> DEFINE tier == TierOfBatch(i)
           ops == OpsPerBatch[tier]
           start == RelativeBatchNum(i) * ops
           n == Len(AccountInfo(tier))
           p == PaddingCount(n, tier)
<1>1. tier \in Keys /\ tier \in AssetCountsTiers
  BY BatchPlace, KeysFinite
<1>2. start \in Nat /\ start + ops <= Len(accounts[tier])
  BY OpsAre
<1>3. n \in Nat /\ p \in Nat /\ Len(PaddedAccounts(tier)) = n + p
  BY <1>1, PaddedIs
<1>4. p < ops
  BY <1>1, <1>3, PaddingFills
<1>5. Len(accounts[tier]) = n + p /\ ops \in Nat
  BY <1>1, <1>3, BuiltTier, NumberedIs
<1> HIDE DEF tier, ops, start, n, p
<1>6. start + 1 <= n
  BY <1>2, <1>3, <1>4, <1>5
<1> QED
  BY <1>6 DEF tier, ops, start, n

\* The accounts of a tier are numbered before those of the next.
LEMMA TiersInOrder ==
    ASSUME LoadInv, AllMerged, NEW s \in Keys, NEW t \in Keys, s < t
    PROVE  /\ Before(s) \in Nat /\ Before(t) \in Nat /\ Len(PaddedAccounts(s)) \in Nat
           /\ Before(s) + Len(PaddedAccounts(s)) <= Before(t)
<1> DEFINE b == [k \in Keys |-> Len(PaddedAccounts(k))]
           below(x) == {k \in Keys : k < x}
           upto(x) == {k \in Keys : k <= x}
<1>1. Keys \subseteq Nat /\ IsFiniteSet(Keys) /\ \A k \in Keys : b[k] \in Nat
  <2>1. \A k \in Keys : PaddedAccounts(k) \in Seq(Users \cup Paddings)
    BY KeysFinite, PaddedIs
  <2> QED
    BY <2>1, KeysFinite, LenProperties
<1>2. ASSUME NEW x \in Keys  PROVE Before(x) = SumFunctionOnSet(b, below(x)) /\ Before(x) \in Nat
  <2> DEFINE f == [k \in below(x) |-> Len(PaddedAccounts(k))]
  <2>1. Before(x) = SumFunction(f) /\ DOMAIN f = below(x)
    BY DEF Before
  <2>2. IsFiniteSet(below(x)) /\ \A k \in below(x) : f[k] \in Int /\ f[k] = b[k]
    BY <1>1, FS_Subset
  <2> HIDE DEF f, b, below
  <2>3. SumFunction(f) = SumFunctionOnSet(f, below(x))
    BY <2>1, Zenon DEF SumFunction
  <2>4. SumFunctionOnSet(f, below(x)) = SumFunctionOnSet(b, below(x))
    BY <2>2, SumSame
  <2> QED
    BY <2>1, <2>3, <2>4, NumberedIs
<1>3. b[s] = Len(PaddedAccounts(s)) /\ b[s] \in Nat
  BY <1>1
<1> HIDE DEF b
<1>4. SumFunctionOnSet(b, upto(s)) = SumFunctionOnSet(b, below(s)) + b[s]
  BY <1>1, SumUpTo
<1>5. below(t) \in SUBSET Keys /\ upto(s) \in SUBSET below(t)
  <2>1. \A k \in Keys : k \in Nat
    BY <1>1
  <2>2. ASSUME NEW k \in Keys, k <= s  PROVE k < t
    BY <2>1, <2>2
  <2> QED
    BY <2>2
<1>6. SumFunctionOnSet(b, upto(s)) <= SumFunctionOnSet(b, below(t))
  <2>1. IsFiniteSet(below(t)) /\ \A k \in below(t) : b[k] \in Nat
    BY <1>1, <1>5, FS_Subset
  <2> HIDE DEF upto, below
  <2> QED
    BY <1>5, <2>1, SumPart
<1> HIDE DEF upto, below
<1> QED
  BY <1>2, <1>3, <1>4, <1>6

\* So no two of them have the same number.
LEMMA NumbersUnique ==
    ASSUME LoadInv, AllMerged, Built, NEW s \in Keys, NEW t \in Keys,
           NEW i \in 1 .. Len(accounts[s]), NEW j \in 1 .. Len(accounts[t]),
           accounts[s][i].index = accounts[t][j].index
    PROVE  accounts[s][i] = accounts[t][j]
<1>1. ASSUME NEW k \in Keys, NEW m \in 1 .. Len(accounts[k])
      PROVE  /\ accounts[k][m].index = Before(k) + m - 1
             /\ Before(k) \in Nat /\ m \in Nat /\ 1 <= m /\ m <= Len(PaddedAccounts(k))
             /\ Len(PaddedAccounts(k)) \in Nat /\ k \in Nat
  <2>1. \E x : accounts[k][m] = Indexed(x, Before(k) + m - 1)
    BY <1>1, TierAccounts
  <2>2. accounts[k][m].index = Before(k) + m - 1
    BY <2>1 DEF Indexed
  <2>3. accounts[k] = Numbered(k) /\ Before(k) \in Nat /\ Len(Numbered(k)) = Len(PaddedAccounts(k))
    BY BuiltTier, NumberedIs
  <2>4. accounts[k] \in Seq(Listed)
    BY BuiltTier
  <2>5. Len(accounts[k]) \in Nat
    BY <2>4, LenProperties
  <2> QED
    BY <2>2, <2>3, <2>5, KeysFinite
<1> DEFINE m == Before(s)
           n == Before(t)
           c == Len(PaddedAccounts(s))
           d == Len(PaddedAccounts(t))
<1>2. /\ m \in Nat /\ n \in Nat /\ c \in Nat /\ d \in Nat
      /\ i \in 1 .. c /\ j \in 1 .. d /\ m + i - 1 = n + j - 1
  <2>1. /\ accounts[s][i].index = m + i - 1 /\ m \in Nat /\ c \in Nat
        /\ i \in Nat /\ 1 <= i /\ i <= c
    BY <1>1
  <2>2. /\ accounts[t][j].index = n + j - 1 /\ n \in Nat /\ d \in Nat
        /\ j \in Nat /\ 1 <= j /\ j <= d
    BY <1>1
  <2>3. m + i - 1 = n + j - 1
    BY <2>1, <2>2
  <2> HIDE DEF m, n, c, d
  <2> QED
    BY <2>1, <2>2, <2>3
<1>3. (s < t => m + c <= n) /\ (t < s => n + d <= m)
  BY TiersInOrder
<1> HIDE DEF m, n, c, d
<1>4. s \in Nat /\ t \in Nat
  BY <1>1
<1>5. ~ (s < t) /\ ~ (t < s)
  BY <1>2, <1>3
<1>6. s = t
  BY <1>4, <1>5
<1>7. i = j
  BY <1>2, <1>6 DEF m, n
<1> QED
  BY <1>6, <1>7

\* The tree has the leaf of each account at its number.
TreeBuilt ==
    LET all == UNION {ToSet(accounts[tier]) : tier \in Keys}
    IN  tree = [i \in {account.index : account \in all} |->
                   Leaf(CHOOSE account \in all : account.index = i)]

LEMMA TreeLeaf ==
    ASSUME LoadInv, AllMerged, Built, TreeBuilt, NEW tier \in Keys, NEW j \in 1 .. Len(accounts[tier])
    PROVE  tree[accounts[tier][j].index] = Leaf(accounts[tier][j])
<1> DEFINE all == UNION {ToSet(accounts[k]) : k \in Keys}
           x == accounts[tier][j]
           pick(i) == CHOOSE account \in all : account.index = i
           y == pick(x.index)
<1>1. \A k \in Keys : accounts[k] \in Seq(Listed) /\ DOMAIN accounts[k] = 1 .. Len(accounts[k])
  BY BuiltTier, LenProperties
<1>2. x \in all
  <2>1. x \in ToSet(accounts[tier])
    BY <1>1 DEF ToSet
  <2> QED
    BY <2>1
<1>3. tree = [i \in {account.index : account \in all} |-> Leaf(pick(i))]
  BY Zenon DEF TreeBuilt
<1>4. y \in all /\ y.index = x.index
  BY <1>2
<1>5. PICK s \in Keys : \E i \in 1 .. Len(accounts[s]) : y = accounts[s][i]
  <2> HIDE DEF y
  <2>1. PICK s \in Keys : y \in ToSet(accounts[s])
    BY <1>4
  <2> QED
    BY <1>1, <2>1 DEF ToSet
<1> HIDE DEF y
<1>6. y = x
  BY <1>4, <1>5, NumbersUnique
<1>7. tree[x.index] = Leaf(y)
  <2> HIDE DEF all, x, pick
  <2>1. x.index \in {account.index : account \in all}
    BY <1>2
  <2> QED
    BY <1>3, <2>1 DEF y
<1> QED
  BY <1>6, <1>7

\* By asset: the worth of what an account owns, or owes.
WorthOf(account, field) == [a \in Assets |-> AmountOf(account, a)[field] * cex[a].price]

\* Its sum is the account's equity or debt, and that of any list of assets
\* that leaves out none the account has.
LEMMA WorthSums ==
    ASSUME Prices, NEW account, Holding(account), NEW field \in {"equity", "debt"}
    PROVE  /\ Worth(cex, account.assets, field) = SumFunctionOnSet(WorthOf(account, field), Assets)
           /\ \A list : ToSet(list) \subseteq Assets
                        /\ (\A a \in Assets \ ToSet(list) : AmountOf(account, a) = NoAmounts)
                        => ListWorth(account, list, field)
                               = SumFunctionOnSet(WorthOf(account, field), Assets)
           /\ (\A a \in Assets : AmountOf(account, a) = NoAmounts)
                  => SumFunctionOnSet(WorthOf(account, field), Assets) = 0
<1> DEFINE g == WorthOf(account, field)
<1>1. ASSUME NEW a \in Assets
      PROVE  /\ g[a] = AmountOf(account, a)[field] * cex[a].price /\ g[a] \in Int
             /\ AmountOf(account, a) = NoAmounts => g[a] = 0
  <2>1. AmountOf(account, a) \in AmountsOf(Nat) /\ cex[a].price \in Nat
    BY DEF Holding, Prices
  <2>2. AmountOf(account, a)[field] \in Nat
    BY <2>1 DEF AmountsOf
  <2>3. g[a] = AmountOf(account, a)[field] * cex[a].price
    BY DEF WorthOf
  <2>4. NoAmounts[field] = 0
    BY NoAmountsFields
  <2> HIDE DEF g
  <2> QED
    BY <2>1, <2>2, <2>3, <2>4
<1>2. Worth(cex, account.assets, field) = SumFunctionOnSet(g, Assets)
  <2> DEFINE S == DOMAIN account.assets
             f == [a \in S |-> account.assets[a][field] * cex[a].price]
  <2>1. S \subseteq Assets /\ \A a \in Assets \ S : AmountOf(account, a) = NoAmounts
    BY DEF Holding, AmountOf
  <2>2. \A a \in S : f[a] = g[a]
    BY <1>1, <2>1 DEF AmountOf
  <2>3. \A a \in Assets \ S : g[a] = 0
    BY <1>1, <2>1
  <2>4. Worth(cex, account.assets, field) = SumFunction(f) /\ DOMAIN f = S
    BY Zenon DEF Worth
  <2> HIDE DEF f, S, g
  <2>5. SumFunction(f) = SumFunctionOnSet(g, Assets)
    BY <1>1, <2>1, <2>2, <2>3, <2>4, FinitelyMany, SumSupport
  <2> QED
    BY <2>4, <2>5
<1>3. ASSUME NEW list, ToSet(list) \subseteq Assets,
             \A a \in Assets \ ToSet(list) : AmountOf(account, a) = NoAmounts
      PROVE  ListWorth(account, list, field) = SumFunctionOnSet(g, Assets)
  <2> DEFINE S == ToSet(list)
             f == [a \in S |-> AmountOf(account, a)[field] * cex[a].price]
  <2>1. S \subseteq Assets /\ \A a \in Assets \ S : g[a] = 0
    BY <1>1, <1>3
  <2>2. \A a \in S : f[a] = g[a]
    BY <1>1, <2>1
  <2>3. ListWorth(account, list, field) = SumFunction(f) /\ DOMAIN f = S
    BY Zenon DEF ListWorth
  <2> HIDE DEF f, S, g
  <2>4. SumFunction(f) = SumFunctionOnSet(g, Assets)
    BY <1>1, <2>1, <2>2, <2>3, FinitelyMany, SumSupport
  <2> QED
    BY <2>3, <2>4
<1>4. (\A a \in Assets : AmountOf(account, a) = NoAmounts) => SumFunctionOnSet(g, Assets) = 0
  <2> SUFFICES ASSUME \A a \in Assets : AmountOf(account, a) = NoAmounts
               PROVE  SumFunctionOnSet(g, Assets) = 0
    OBVIOUS
  <2>1. \A a \in Assets : g[a] = 0
    BY <1>1
  <2> HIDE DEF g
  <2> QED
    BY <2>1, FinitelyMany, SumNothing
<1> HIDE DEF g
<1>5. \A list : ToSet(list) \subseteq Assets
                /\ (\A a \in Assets \ ToSet(list) : AmountOf(account, a) = NoAmounts)
                => ListWorth(account, list, field) = SumFunctionOnSet(g, Assets)
  BY <1>3
<1> QED
  BY <1>2, <1>4, <1>5 DEF g

\* The host values the collaterals of an account as the tiers define.
LEMMA CollateralSum ==
    ASSUME FromStrings, Prices, AllTiersValid, NEW account, Holding(account)
    PROVE  /\ Collateral(cex, account.assets) = SumFunctionOnSet(DefinedOf(account), Assets)
           /\ (\A a \in Assets : AmountOf(account, a) = NoAmounts)
                  => SumFunctionOnSet(DefinedOf(account), Assets) = 0
<1> DEFINE S == DOMAIN account.assets
           g == DefinedOf(account)
           f == [a \in S |-> AssetValue(cex[a], account.assets[a])]
<1>1. S \subseteq Assets /\ \A a \in Assets \ S : AmountOf(account, a) = NoAmounts
  BY DEF Holding, AmountOf
<1>2. \A a \in Assets : g[a] \in Int /\ (AmountOf(account, a) = NoAmounts => g[a] = 0)
  BY WorthByAsset
<1>3. ASSUME NEW a \in S  PROVE f[a] = g[a]
  <2> DEFINE value(k) == CollateralOf(account, a, k)
  <2>1. a \in Assets /\ AmountOf(account, a) = account.assets[a]
    BY <1>1 DEF AmountOf
  <2>2. ASSUME NEW k \in Kinds
        PROVE  HostValue(cex[a].tiers[k], account.assets[a].collateral[k] * cex[a].price)
                   = DefinedValue(Tiers(a, k), value(k))
    <3>1. Tiers(a, k) = cex[a].tiers[k] /\ value(k) = account.assets[a].collateral[k] * cex[a].price
      BY <2>1 DEF Tiers, CollateralOf
    <3>2. value(k) \in Nat /\ Tiers(a, k) \in Tables /\ TiersValid(Tiers(a, k))
      BY <2>1, WorthByAsset
    <3>3. Tiers(a, k) = CircuitTiers(Tiers(a, k))
      BY <2>1, ParsedIsCircuit DEF FromStrings
    <3>4. HostValue(Tiers(a, k), value(k)) = DefinedValue(Tiers(a, k), value(k))
      <4> HIDE DEF value
      <4> QED
        BY <3>2, <3>3, HostIsDefined, ValidRising
    <3> QED
      BY <3>1, <3>4
  <2>3. [k \in Kinds |-> HostValue(cex[a].tiers[k], account.assets[a].collateral[k] * cex[a].price)]
            = [k \in Kinds |-> DefinedValue(Tiers(a, k), value(k))]
    BY <2>2, Zenon
  <2>4. AssetValue(cex[a], account.assets[a])
            = SumFunction([k \in Kinds |-> DefinedValue(Tiers(a, k), value(k))])
    BY <2>3, Zenon DEF AssetValue
  <2>5. f[a] = AssetValue(cex[a], account.assets[a])
    OBVIOUS
  <2>6. g[a] = SumFunction([k \in Kinds |-> DefinedValue(Tiers(a, k), value(k))])
    BY <2>1 DEF DefinedOf
  <2> QED
    BY <2>4, <2>5, <2>6
<1>4. Collateral(cex, account.assets) = SumFunction(f) /\ DOMAIN f = S
  BY Zenon DEF Collateral
<1> HIDE DEF f, g, S
<1>5. \A a \in Assets \ S : g[a] = 0
  BY <1>1, <1>2
<1>6. SumFunction(f) = SumFunctionOnSet(g, Assets)
  BY <1>1, <1>2, <1>3, <1>4, <1>5, FinitelyMany, SumSupport
<1>7. (\A a \in Assets : AmountOf(account, a) = NoAmounts) => SumFunctionOnSet(g, Assets) = 0
  <2> SUFFICES ASSUME \A a \in Assets : AmountOf(account, a) = NoAmounts
               PROVE  SumFunctionOnSet(g, Assets) = 0
    OBVIOUS
  <2>1. \A a \in Assets : g[a] = 0
    BY <1>2
  <2> QED
    BY <2>1, FinitelyMany, SumNothing
<1> QED
  BY <1>4, <1>6, <1>7 DEF g

\* A tier is the one for as many assets as it has.
LEMMA TierOfTier ==
    ASSUME NEW tier \in AssetCountsTiers
    PROVE  TierFor(tier) = tier
<1> DEFINE fits == {t \in AssetCountsTiers : tier <= t}
<1>1. \A t \in AssetCountsTiers : t \in Nat
  BY TiersAssumption, AssetCountsAssumption
<1>2. tier \in fits /\ \A s \in fits : tier <= s
  BY <1>1
<1>3. \A t \in fits : (\A s \in fits : t <= s) => t = tier
  BY <1>1, <1>2
<1>4. TierFor(tier) = CHOOSE t \in fits : \A s \in fits : t <= s
  BY DEF TierFor
<1> HIDE DEF fits
<1> QED
  BY <1>2, <1>3, <1>4

\* What makes an account of a tier provable: its assets fit into the tier, the
\* tree has the list that the prover makes of them, its fields are what the
\* circuit computes, and its debt is covered.
Provable(account, tier) ==
    /\ account \in Listed
    /\ NonEmpty(account) \in SUBSET Assets
    /\ Cardinality(NonEmpty(account)) \in Nat /\ Cardinality(NonEmpty(account)) <= tier
    /\ \A a \in Assets \ NonEmpty(account) : AmountOf(account, a) = NoAmounts
    /\ PaddedIndexes(DOMAIN account.assets, TierFor(Cardinality(DOMAIN account.assets)))
           = PaddedIndexes(NonEmpty(account), tier)
    /\ account.equity = Worth(cex, account.assets, "equity")
    /\ account.debt = Worth(cex, account.assets, "debt")
    /\ account.collateral = Collateral(cex, account.assets)
    /\ account.debt <= account.collateral
    /\ \A a \in Assets : TotalOf(AmountOf(account, a)) <= AmountOf(account, a).equity

\* Users are.
LEMMA UserProvable ==
    ASSUME NEW tier \in AssetCountsTiers, NEW x \in UsersOf(tier), NEW i \in Nat
    PROVE  /\ Provable(Indexed(x, i), tier)
           /\ TierFor(Cardinality(NonEmpty(Indexed(x, i)))) = tier
<1> DEFINE account == Indexed(x, i)
<1>1. PICK row \in ValidRows : x = Account(cex, row) /\ TierFor(Cardinality(AssetsOf(row))) = tier
  BY DEF UsersOf, RowsOf
<1>2. account \in Listed
  BY <1>1 DEF Listed, Users
<1>3. /\ account.assets = [a \in AssetsOf(row) |-> Amounts(row, a)]
      /\ account.equity = Worth(cex, account.assets, "equity")
      /\ account.debt = Worth(cex, account.assets, "debt")
      /\ account.collateral = Collateral(cex, account.assets)
  BY <1>1 DEF Indexed, Account
<1>4. x.debt = account.debt /\ x.collateral = account.collateral
  BY DEF Indexed
<1> HIDE DEF account
<1>5. DOMAIN account.assets = AssetsOf(row) /\ AssetsOf(row) \subseteq Assets
  BY <1>3, ValidAmounts
<1>6. NonEmpty(account) = AssetsOf(row)
  <2>1. ASSUME NEW a \in AssetsOf(row)  PROVE account.assets[a] # NoAmounts
    <3>1. account.assets[a] = Amounts(row, a)
      BY <1>3
    <3>2. Amounts(row, a).equity # 0 \/ Amounts(row, a).debt # 0
      BY DEF AssetsOf, Counts
    <3> QED
      BY <3>1, <3>2, NoAmountsFields
  <2> QED
    BY <1>5, <2>1 DEF NonEmpty, IsAssetEmpty
<1>7. \A a \in Assets \ NonEmpty(account) : AmountOf(account, a) = NoAmounts
  BY <1>5, <1>6 DEF AmountOf
<1>8. RowOutcome(cex, row) = "valid" /\ Problems(row) = {} /\ x.debt <= x.collateral
  <2>1. RowOutcome(cex, row) = "valid"
    BY DEF ValidRows
  <2>2. \A a : Problem(row, a) # "valid"
    BY DEF Problem
  <2> QED
    BY <1>1, <2>1, <2>2 DEF RowOutcome
<1>9. ASSUME NEW a \in Assets
      PROVE  TotalOf(AmountOf(account, a)) <= AmountOf(account, a).equity
  <2>1. CASE a \in AssetsOf(row)
    <3>1. Problem(row, a) = "none" /\ Counts(row, a)
      BY <1>8, <2>1 DEF Problems, AssetsOf
    <3>2. ~ (TotalOf(Amounts(row, a)) > Amounts(row, a).equity)
      BY <3>1 DEF Problem
    <3>3. Amounts(row, a) \in AmountsOf(Nat)
      BY <2>1, ValidAmounts
    <3>4. TotalOf(Amounts(row, a)) \in Nat /\ Amounts(row, a).equity \in Nat
      <4>1. /\ Amounts(row, a).equity \in Nat
            /\ \A k \in Kinds : Amounts(row, a).collateral[k] \in Nat
        BY <3>3 DEF AmountsOf
      <4>2. {"loan", "margin", "portfolioMargin"} = Kinds
        BY DEF Kinds
      <4> QED
        BY <4>1, <4>2 DEF TotalOf
    <3>5. AmountOf(account, a) = Amounts(row, a)
      BY <1>3, <1>5, <2>1 DEF AmountOf
    <3> QED
      BY <3>2, <3>4, <3>5
  <2>2. CASE a \notin AssetsOf(row)
    <3>1. AmountOf(account, a) = NoAmounts
      BY <1>6, <1>7, <2>2
    <3>2. TotalOf(NoAmounts) = 0 /\ NoAmounts.equity = 0
      BY NoAmountsFields DEF TotalOf, Kinds
    <3> QED
      BY <3>1, <3>2
  <2> QED
    BY <2>1, <2>2
<1>10. Cardinality(AssetsOf(row)) \in Nat /\ Cardinality(AssetsOf(row)) <= tier
  BY <1>1, RowTier
<1>11. Provable(account, tier)
  BY <1>1, <1>2, <1>3, <1>4, <1>5, <1>6, <1>7, <1>8, <1>9, <1>10 DEF Provable
<1> QED
  BY <1>1, <1>6, <1>11 DEF account

\* Padding is.
LEMMA PaddingProvable ==
    ASSUME FromStrings, Prices, AllTiersValid, NEW tier \in AssetCountsTiers, NEW i \in Nat
    PROVE  Provable(Indexed(PaddingAccount(tier), i), tier)
<1> DEFINE x == PaddingAccount(tier)
           account == Indexed(x, i)
<1>1. account \in Listed /\ Holding(account)
  BY ListedAssets DEF Listed, Paddings
<1>2. /\ account.assets = x.assets
      /\ account.equity = 0 /\ account.debt = 0 /\ account.collateral = 0
  BY DEF Indexed, PaddingAccount
<1>3. /\ DOMAIN x.assets = 0 .. tier - 1 /\ DOMAIN x.assets \subseteq Assets
      /\ \A a \in DOMAIN x.assets : x.assets[a] = NoAmounts
  BY PaddingFields
<1> HIDE DEF x, account
<1>4. \A a : AmountOf(account, a) = NoAmounts
  BY <1>2, <1>3 DEF AmountOf
<1>5. NonEmpty(account) = {}
  BY <1>2, <1>3 DEF NonEmpty, IsAssetEmpty
<1>6. tier \in Nat
  BY TiersAssumption, AssetCountsAssumption
<1>7. Cardinality(NonEmpty(account)) = 0
  BY <1>5, FS_EmptySet
<1>8. Cardinality(DOMAIN account.assets) = tier /\ DOMAIN account.assets = 0 .. tier - 1
  <2>1. Cardinality(0 .. tier - 1) = tier
    BY <1>6, AscendingInterval
  <2> QED
    BY <1>2, <1>3, <2>1
<1>9. PaddedIndexes(DOMAIN account.assets, TierFor(Cardinality(DOMAIN account.assets)))
          = PaddedIndexes(NonEmpty(account), tier)
  <2>1. TierFor(tier) = tier
    BY TierOfTier
  <2>2. PaddedIndexes(0 .. tier - 1, tier) = PaddedIndexes({}, tier)
    BY <1>6, PaddedNothing
  <2> QED
    BY <1>5, <1>8, <2>1, <2>2
<1>10. /\ Worth(cex, account.assets, "equity") = 0 /\ Worth(cex, account.assets, "debt") = 0
       /\ Collateral(cex, account.assets) = 0
  BY <1>1, <1>4, WorthSums, CollateralSum
<1>11. TotalOf(NoAmounts) = 0 /\ NoAmounts.equity = 0
  BY NoAmountsFields DEF TotalOf, Kinds
<1>12. Provable(account, tier)
  BY <1>1, <1>2, <1>4, <1>5, <1>6, <1>7, <1>9, <1>10, <1>11 DEF Provable
<1> QED
  BY <1>12 DEF account, x

\* What the prover fills in for an account of a tier.
ClaimFor(account, tier) ==
    [list |-> PaddedIndexes(NonEmpty(account), tier),
     choices |-> [a \in Assets |-> [k \in Kinds |-> Choice(account, a, k)]]]

WithinBoundary(account) ==
    \A a \in NonEmpty(account) : \A k \in Kinds :
        CollateralOf(account, a, k) <= MaxTierBoundaryValue

WithinBits(account) == ~ (account.collateral >= ValueRange)

\* The circuit accepts its list,
LEMMA ClaimListValid ==
    ASSUME NEW tier \in AssetCountsTiers, NEW account, Provable(account, tier)
    PROVE  ListValid(account, ClaimFor(account, tier).list, tier)
<1> DEFINE used == NonEmpty(account)
           list == PaddedIndexes(used, tier)
<1>1. /\ used \in SUBSET Assets /\ Cardinality(used) <= tier
      /\ \A a \in Assets \ used : AmountOf(account, a) = NoAmounts
  BY DEF Provable
<1>2. tier \in Nat /\ tier <= AssetCounts
  BY TiersAssumption, AssetCountsAssumption
<1>3. /\ list \in Seq(Nat) /\ Len(list) = tier /\ Increasing(list)
      /\ \A k \in 1 .. tier : list[k] \in Assets
      /\ \A v \in used : \E k \in 1 .. tier : list[k] = v
  <2> HIDE DEF used
  <2> QED
    BY <1>1, <1>2, PaddedListIs DEF Assets
<1> HIDE DEF used, list
<1>4. \A a : a \in ToSet(list) <=> \E k \in 1 .. tier : list[k] = a
  BY <1>3, LenProperties DEF ToSet
<1>5. ToSet(list) \subseteq Assets
  BY <1>3, <1>4
<1>6. \A a \in Assets \ ToSet(list) : IsAssetEmpty(AmountOf(account, a))
  BY <1>1, <1>3, <1>4 DEF IsAssetEmpty
<1>7. \A i \in 2 .. Len(list) : list[i-1] < list[i]
  <2>1. ASSUME NEW i \in 2 .. Len(list)  PROVE list[i-1] < list[i]
    <3>1. i - 1 \in 1 .. Len(list) /\ i \in 1 .. Len(list) /\ i - 1 < i
      BY <1>2, <1>3
    <3> QED
      BY <1>3, <3>1 DEF Increasing
  <2> QED
    BY <2>1
<1>8. ListValid(account, list, tier)
  BY <1>3, <1>5, <1>6, <1>7 DEF ListValid
<1> QED
  BY <1>8 DEF ClaimFor, list, used

\* the tiers and flags for its collaterals,
LEMMA ClaimChoicesValid ==
    ASSUME FromStrings, Prices, AllTiersValid,
           NEW tier \in AssetCountsTiers, NEW account, Provable(account, tier), WithinBoundary(account)
    PROVE  LET claim == ClaimFor(account, tier) IN
           ChoicesValid(account, claim.list, claim.choices)
<1> DEFINE list == ClaimFor(account, tier).list
           choices == ClaimFor(account, tier).choices
<1>1. Holding(account) /\ \A a \in Assets \ NonEmpty(account) : AmountOf(account, a) = NoAmounts
  BY ListedAssets DEF Provable
<1>2. ToSet(list) \subseteq Assets
  BY ClaimListValid DEF ListValid
<1>3. \A a \in Assets : \A k \in Kinds : choices[a][k] = Choice(account, a, k)
  BY DEF ClaimFor
<1> HIDE DEF list, choices
<1>4. ASSUME NEW a \in Assets, NEW k \in Kinds
      PROVE  ChoiceValid(CircuitTiers(Tiers(a, k)), CollateralOf(account, a, k), choices[a][k])
  <2> DEFINE value == CollateralOf(account, a, k)
  <2>1. /\ Tiers(a, k) \in Tables /\ TiersValid(Tiers(a, k)) /\ value \in Nat
        /\ choices[a][k] = Choice(account, a, k)
    BY <1>1, <1>3, WorthByAsset
  <2>2. CASE a \in NonEmpty(account)
    <3>1. value <= MaxTierBoundaryValue
      BY <2>2 DEF WithinBoundary
    <3>2. Choice(account, a, k) = HostTier(Tiers(a, k), value)
      BY <2>2 DEF Choice, CollateralOf
    <3> HIDE DEF value
    <3>3. ChoiceValid(CircuitTiers(Tiers(a, k)), value, HostTier(Tiers(a, k), value))
      BY <2>1, <3>1, HostTierAccepted
    <3> QED
      BY <2>1, <3>2, <3>3 DEF value
  <2>3. CASE a \notin NonEmpty(account)
    <3>1. Choice(account, a, k) = [index |-> 0, flag |-> 0]
      BY <2>3 DEF Choice
    <3>2. value = 0
      <4>1. AmountOf(account, a) = NoAmounts /\ cex[a].price \in Nat
        BY <1>1, <2>3 DEF Prices
      <4> QED
        BY <4>1, NoAmountsFields DEF CollateralOf
    <3>3. CircuitTiers(Tiers(a, k))[1].boundary \in Nat /\ 0 \in 0 .. TierCount - 1
      <4>1. 1 \in 1 .. TierCount /\ 0 \in 0 .. TierCount - 1
        BY TierCountAssumption
      <4> QED
        BY <2>1, <4>1, CircuitFields, TableFields
    <3> DEFINE circuit == CircuitTiers(Tiers(a, k))
               choice == [index |-> 0, flag |-> 0]
    <3>4. choice.index = 0 /\ choice.flag = 0 /\ choice.index + 1 = 1
      OBVIOUS
    <3> HIDE DEF choice, circuit
    <3>5. ChoiceValid(circuit, 0, choice)
      BY <3>3, <3>4 DEF ChoiceValid, circuit
    <3> QED
      BY <2>1, <3>1, <3>2, <3>5 DEF circuit, choice
  <2> QED
    BY <2>2, <2>3
<1>5. ChoicesValid(account, list, choices)
  BY <1>2, <1>4 DEF ChoicesValid
<1> QED
  BY <1>5 DEF list, choices

\* and all that it computes from them, if the tree has the account's leaf.
LEMMA ClaimValid ==
    ASSUME FromStrings, Prices, AllTiersValid,
           NEW tier \in AssetCountsTiers, NEW account, Provable(account, tier), WithinBoundary(account),
           WithinBits(account), tree[account.index] = Leaf(account)
    PROVE  UserValid(account, tier, ClaimFor(account, tier))
<1> DEFINE list == ClaimFor(account, tier).list
           choices == ClaimFor(account, tier).choices
<1>1. ListValid(account, list, tier)
  BY ClaimListValid
<1>2. ChoicesValid(account, list, choices)
  BY ClaimChoicesValid
<1>3. list = PaddedIndexes(NonEmpty(account), tier)
  BY DEF ClaimFor
<1> HIDE DEF list, choices
<1>4. /\ Holding(account)
      /\ PaddedIndexes(DOMAIN account.assets, TierFor(Cardinality(DOMAIN account.assets))) = list
      /\ account.equity = Worth(cex, account.assets, "equity")
      /\ account.debt = Worth(cex, account.assets, "debt")
      /\ account.collateral = Collateral(cex, account.assets)
      /\ account.debt <= account.collateral
      /\ \A a \in Assets : TotalOf(AmountOf(account, a)) <= AmountOf(account, a).equity
  BY <1>3, ListedAssets DEF Provable
<1>5. ToSet(list) \subseteq Assets /\ \A a \in Assets \ ToSet(list) : AmountOf(account, a) = NoAmounts
  BY <1>1 DEF ListValid, IsAssetEmpty
<1>6. ListWorth(account, list, "equity") = account.equity /\ ListWorth(account, list, "debt") = account.debt
  BY <1>4, <1>5, WorthSums
<1>7. CircuitCollateral(account, list, choices) = account.collateral
  BY <1>1, <1>2, <1>4, ListSums, CollateralSum
<1>8. account.debt \in Int /\ account.collateral \in Int
  <2> DEFINE debt == DebtOf(account)
             values == DefinedOf(account)
  <2>1. account.debt = SumFunctionOnSet(debt, Assets) /\ account.collateral = SumFunctionOnSet(values, Assets)
    BY <1>1, <1>2, <1>4, <1>6, <1>7, ListSums
  <2>2. \A a \in Assets : debt[a] \in Int /\ values[a] \in Int
    BY <1>4, WorthByAsset
  <2> HIDE DEF debt, values
  <2>3. SumFunctionOnSet(debt, Assets) \in Int /\ SumFunctionOnSet(values, Assets) \in Int
    BY <2>2, FinitelyMany, SumOrder
  <2> QED
    BY <2>1, <2>3
<1>9. account.debt < ValueRange /\ account.collateral < ValueRange
  BY <1>4, <1>8, ValueAssumption DEF WithinBits
<1>10. Covered(account, list, choices)
  BY <1>4, <1>5, <1>6, <1>7, <1>9 DEF Covered
<1>11. CircuitLeaf(account, list, choices) = Leaf(account)
  BY <1>4, <1>6, <1>7, Zenon DEF CircuitLeaf, Leaf
<1> QED
  BY <1>1, <1>2, <1>10, <1>11 DEF UserValid, UserChecked, list, choices

\* A batch of accounts whose collaterals are within the greatest boundary, and
\* together within the bits of a value, can be proved: host and circuit come to
\* the same.
LEMMA BatchAccepted ==
    ASSUME FromStrings, Prices, AllTiersValid, LoadInv, AllMerged, Built, TreeBuilt,
           NEW i \in Nat, i < BatchNumber, NEW row, row.ops = OpsOf(i),
           row.after = Added(row.before, row.ops), TotalsFit(row.after),
           \A u \in 1 .. Len(row.ops) : WithinBoundary(row.ops[u]) /\ WithinBits(row.ops[u])
    PROVE  CircuitAccepts(row, TargetCounts(row), Assignment(row))
<1> DEFINE tier == TierOfBatch(i)
           count == OpsPerBatch[tier]
           start == RelativeBatchNum(i) * count
           ops == row.ops
<1>1. tier \in Keys /\ tier \in AssetCountsTiers
  BY BatchPlace, KeysFinite
<1>2. /\ Len(ops) = count /\ start \in Nat /\ start + count <= Len(accounts[tier])
      /\ \A u \in 1 .. count : ops[u] = accounts[tier][start + u]
  BY OpsAre
<1>3. count \in Nat \ {0} /\ accounts[tier] \in Seq(Listed)
  BY <1>1, BuiltTier
<1>4. start + 1 <= Len(AccountInfo(tier))
  BY FirstIsUser
<1>5. Before(tier) \in Nat
  BY <1>1, NumberedIs
<1>6. Len(accounts[tier]) \in Nat
  BY <1>3, LenProperties
<1> HIDE DEF tier, count, start, ops
<1>7. ASSUME NEW u \in 1 .. count
      PROVE  /\ start + u \in 1 .. Len(accounts[tier])
             /\ ops[u].index = Before(tier) + (start + u) - 1
             /\ Provable(ops[u], tier)
             /\ tree[ops[u].index] = Leaf(ops[u])
             /\ u = 1 => TierFor(Cardinality(NonEmpty(ops[u]))) = tier
  <2>1. start + u \in 1 .. Len(accounts[tier])
    BY <1>2, <1>3, <1>6
  <2>2. PICK x : /\ accounts[tier][start + u] = Indexed(x, Before(tier) + (start + u) - 1)
                 /\ x \in UsersOf(tier) \/ x = PaddingAccount(tier)
                 /\ start + u <= Len(AccountInfo(tier)) => x \in UsersOf(tier)
    BY <1>1, <2>1, TierAccounts
  <2> DEFINE n == Before(tier) + (start + u) - 1
  <2>3. n \in Nat /\ ops[u] = Indexed(x, n)
    BY <1>2, <1>3, <1>5, <2>2
  <2> HIDE DEF n
  <2>4. ops[u].index = n
    BY <2>3 DEF Indexed
  <2>5. Provable(ops[u], tier) /\ (x \in UsersOf(tier) => TierFor(Cardinality(NonEmpty(ops[u]))) = tier)
    <3>1. CASE x \in UsersOf(tier)
      BY <1>1, <2>3, <3>1, UserProvable
    <3>2. CASE x \notin UsersOf(tier)
      BY <1>1, <2>2, <2>3, <3>2, PaddingProvable
    <3> QED
      BY <3>1, <3>2
  <2>6. tree[ops[u].index] = Leaf(ops[u])
    BY <1>1, <1>2, <2>1, TreeLeaf
  <2>7. u = 1 => x \in UsersOf(tier)
    BY <1>4, <2>2
  <2> QED
    BY <2>1, <2>4, <2>5, <2>6, <2>7 DEF n
<1>8. 1 \in 1 .. count
  BY <1>3
<1>9. TargetCounts(row) = tier
  BY <1>7, <1>8 DEF TargetCounts, ops
<1>10. ASSUME NEW u \in 1 .. Len(ops)
       PROVE  /\ ops[u].index = ops[1].index + u - 1
              /\ UserValid(ops[u], tier, Assignment(row)[u])
  <2>1. u \in 1 .. count
    BY <1>2
  <2>2. ops[u].index = Before(tier) + (start + u) - 1 /\ ops[1].index = Before(tier) + (start + 1) - 1
    BY <1>7, <1>8, <2>1
  <2>3. ops[u].index = ops[1].index + u - 1
    BY <1>2, <1>3, <1>5, <2>1, <2>2
  <2>4. Assignment(row)[u] = ClaimFor(ops[u], tier)
    BY <1>9, Zenon DEF Assignment, ClaimFor, ops
  <2>5. UserValid(ops[u], tier, ClaimFor(ops[u], tier))
    <3>1. WithinBoundary(ops[u]) /\ WithinBits(ops[u])
      BY DEF ops
    <3> QED
      BY <1>1, <1>7, <2>1, <3>1, ClaimValid
  <2> QED
    BY <2>3, <2>4, <2>5
<1>11. CircuitAccepts(row, tier, Assignment(row))
  BY <1>2, <1>10 DEF CircuitAccepts, ops, count
<1> QED
  BY <1>9, <1>11

\* What a row has, what the tree is built of, and why a batch is refused.
RefuseInv ==
    /\ \A r \in 1 .. Len(rows) :
           rows[r].after = Added(rows[r].before, rows[r].ops) /\ TotalsFit(rows[r].after)
    /\ phase \in {"built", "refused"} => TreeBuilt
    /\ RefusedOnlyFor

\* What TreeBuilt depends on.
LEMMA SameTree ==
    ASSUME UNCHANGED <<merged, accounts, tree>>
    PROVE  TreeBuilt' = TreeBuilt
BY DEF TreeBuilt, Keys, AccountInfo, Leaf, AmountOf

Reasons == RatioTooHigh \/ BeyondGreatest \/ BeyondBits

\* Row, and the three reasons, depend on these variables.
LEMMA SameRefusal ==
    ASSUME UNCHANGED <<cex, rows, proved>>
    PROVE  Reasons' = Reasons
<1>1. Row' = Row
  BY DEF Row
<1>2. RatioTooHigh' = RatioTooHigh
  BY DEF RatioTooHigh, AllTiersValid, Tiers
<1>3. BeyondGreatest' = BeyondGreatest
  BY <1>1 DEF BeyondGreatest, CollateralOf
<1>4. BeyondBits' = BeyondBits
  BY <1>1 DEF BeyondBits
<1> QED
  BY <1>2, <1>3, <1>4 DEF Reasons

\* If the proof of a batch fails, it is for one of the three reasons.
LEMMA WhyItFails ==
    ASSUME CexInv, Prices, LoadInv, BatchTypes, BatchInv, RefuseInv, ProveFails
    PROVE  Reasons
<1> SUFFICES ASSUME ~RatioTooHigh, ~BeyondGreatest, ~BeyondBits  PROVE FALSE
  BY DEF Reasons
<1>1. /\ phase = "built" /\ proved < Len(rows)
      /\ ~CircuitAccepts(Row, TargetCounts(Row), Assignment(Row))
  BY DEF ProveFails
<1>2. proved \in Nat /\ Len(rows) \in Nat /\ proved + 1 \in 1 .. Len(rows)
  <2>1. PICK S : rows \in Seq(S)
    BY DEF BatchTypes
  <2>2. Len(rows) \in Nat /\ proved \in 0 .. Len(rows)
    BY <2>1, LenProperties DEF BatchTypes
  <2> QED
    BY <1>1, <2>2
<1>3. rows # <<>>
  BY <1>2
<1>4. AllMerged /\ Built /\ Len(rows) <= BatchNumber /\ TreeBuilt
  BY <1>1, <1>3 DEF BatchInv, RefuseInv
<1>5. BatchNumber \in Nat
  BY <1>4, BatchSums
<1>6. proved < BatchNumber
  BY <1>2, <1>4, <1>5
<1>7. Row.ops = OpsOf(proved)
  <2>1. (proved + 1) - 1 = proved
    BY <1>2
  <2> QED
    BY <1>2, <2>1 DEF BatchInv, Row
<1>8. Row.after = Added(Row.before, Row.ops) /\ TotalsFit(Row.after)
  BY <1>2 DEF RefuseInv, Row
<1>9. \A u \in 1 .. Len(Row.ops) : WithinBoundary(Row.ops[u]) /\ WithinBits(Row.ops[u])
  <2>1. ASSUME NEW u \in 1 .. Len(Row.ops), NEW a \in NonEmpty(Row.ops[u]), NEW k \in Kinds
        PROVE  CollateralOf(Row.ops[u], a, k) <= MaxTierBoundaryValue
    <3>1. ~ (CollateralOf(Row.ops[u], a, k) > MaxTierBoundaryValue)
      BY DEF BeyondGreatest
    <3>2. CollateralOf(Row.ops[u], a, k) \in Nat
      <4>1. OpsOf(proved) \in Seq(Listed)
        BY <1>2, <1>4, <1>6, OpsAre
      <4>2. Row.ops[u] \in Listed
        BY <1>7, <4>1, ElementOfSeq
      <4>3. a \in Assets
        BY <4>2, ListedAssets DEF NonEmpty
      <4> QED
        BY <4>2, <4>3, ListedAssets, WorthByAsset DEF CexInv, RatioTooHigh
    <3> QED
      BY <3>1, <3>2, BoundaryAssumption
  <2>2. \A u \in 1 .. Len(Row.ops) : WithinBits(Row.ops[u])
    BY DEF BeyondBits, WithinBits
  <2> QED
    BY <2>1, <2>2 DEF WithinBoundary
<1>10. FromStrings /\ AllTiersValid
  BY DEF CexInv, RatioTooHigh
<1>11. CircuitAccepts(Row, TargetCounts(Row), Assignment(Row))
  BY <1>2, <1>4, <1>6, <1>7, <1>8, <1>9, <1>10, BatchAccepted
<1> QED
  BY <1>1, <1>11

\* A row more.
LEMMA RefuseWrite ==
    ASSUME BatchTypes, RefuseInv, WriteBatch
    PROVE  RefuseInv'
<1> DEFINE row == [ops |-> NextOps, before |-> totals, after |-> totals']
<1>1. /\ phase = "built" /\ phase' = phase /\ totals' = Added(totals, NextOps)
      /\ TotalsFit(Added(totals, NextOps)) /\ rows' = Append(rows, row)
      /\ UNCHANGED <<merged, accounts, tree>>
  BY DEF WriteBatch, More, loadVars, treeVars, readVars
<1>2. row.after = Added(row.before, row.ops) /\ TotalsFit(row.after)
  BY <1>1
<1> HIDE DEF row
<1>3. /\ Len(rows) \in Nat /\ Len(rows') = Len(rows) + 1
      /\ \A r \in 1 .. Len(rows) : rows'[r] = rows[r]
      /\ rows'[Len(rows) + 1] = row
  <2>1. PICK S : rows \in Seq(S)
    BY DEF BatchTypes
  <2>2. rows \in Seq(S \cup {row})
    BY <2>1, SeqMonotonic
  <2> QED
    BY <1>1, <2>2, AppendProperties, LenProperties
<1>4. ASSUME NEW r \in 1 .. Len(rows')
      PROVE  rows'[r].after = Added(rows'[r].before, rows'[r].ops) /\ TotalsFit(rows'[r].after)
  <2>1. CASE r = Len(rows) + 1
    BY <1>2, <1>3, <2>1
  <2>2. CASE r # Len(rows) + 1
    <3>1. r \in 1 .. Len(rows)
      BY <1>3, <2>2
    <3> QED
      BY <1>3, <3>1 DEF RefuseInv
  <2> QED
    BY <2>1, <2>2
<1>5. TreeBuilt'
  BY <1>1, SameTree DEF RefuseInv
<1>6. phase' # "refused"
  BY <1>1
<1> QED
  BY <1>4, <1>5, <1>6 DEF RefuseInv, RefusedOnlyFor

\* Rows, tree and refusals are always like this.
LEMMA RefuseInvariant == Spec => []RefuseInv
<1>1. Init => RefuseInv
  <2> SUFFICES ASSUME Init  PROVE RefuseInv
    OBVIOUS
  <2>1. phase = "start" /\ 1 .. Len(rows) = {}
    BY DEF Init, LoadInit
  <2> QED
    BY <2>1 DEF RefuseInv, RefusedOnlyFor
<1>2. CexInv /\ Prices /\ LoadInv /\ BatchTypes /\ BatchInv /\ RefuseInv /\ [Next]_vars => RefuseInv'
  <2> SUFFICES ASSUME CexInv, Prices, LoadInv, BatchTypes, BatchInv, RefuseInv, [Next]_vars
               PROVE  RefuseInv'
    OBVIOUS
  <2>1. CASE UNCHANGED rows /\ phase' \in {"read", "loaded", "error", "panic"}
    <3>1. \A r \in 1 .. Len(rows) :
              rows[r].after = Added(rows[r].before, rows[r].ops) /\ TotalsFit(rows[r].after)
      BY DEF RefuseInv
    <3> QED
      BY <2>1, <3>1 DEF RefuseInv, RefusedOnlyFor
  <2>2. CASE BuildTree
    <3>1. /\ phase' = "built" /\ rows' = rows /\ merged' = merged
          /\ LET all == UNION {ToSet(accounts'[tier]) : tier \in Keys}
             IN  tree' = [i \in {account.index : account \in all} |->
                             Leaf(CHOOSE account \in all : account.index = i)]
      BY <2>2 DEF BuildTree, readVars, batchVars
    <3>2. Keys' = Keys
      BY <3>1 DEF Keys, AccountInfo
    <3>3. TreeBuilt'
      BY <3>1, <3>2 DEF TreeBuilt, Leaf, AmountOf
    <3> QED
      BY <3>1, <3>3 DEF RefuseInv, RefusedOnlyFor
  <2>3. CASE WriteBatch
    BY <2>3, RefuseWrite
  <2>4. CASE UNCHANGED <<merged, accounts, tree, rows>> /\ phase = "built" /\ phase' = "built"
    <3>1. TreeBuilt'
      BY <2>4, SameTree DEF RefuseInv
    <3> QED
      BY <2>4, <3>1 DEF RefuseInv, RefusedOnlyFor
  <2>5. CASE ProveFails
    <3>1. UNCHANGED <<merged, accounts, tree, rows, cex, proved>> /\ phase = "built"
      BY <2>5 DEF ProveFails, readVars, treeVars, batchVars
    <3>2. TreeBuilt'
      BY <3>1, SameTree DEF RefuseInv
    <3>3. Reasons'
      BY <2>5, <3>1, SameRefusal, WhyItFails
    <3> QED
      BY <3>1, <3>2, <3>3 DEF RefuseInv, RefusedOnlyFor, Reasons
  <2>6. CASE UNCHANGED vars
    <3>1. UNCHANGED <<merged, accounts, tree, rows, cex, proved, phase>>
      BY <2>6 DEF vars, loadVars, readVars, treeVars, batchVars
    <3>2. TreeBuilt' = TreeBuilt
      BY <3>1, SameTree
    <3>3. Reasons' = Reasons
      BY <3>1, SameRefusal
    <3> QED
      BY <3>1, <3>2, <3>3 DEF RefuseInv, RefusedOnlyFor, Reasons
  <2>7. Load \/ (\E w \in Workers : ReadFiles(w)) \/ WritePanics
            => UNCHANGED rows /\ phase' \in {"read", "loaded", "error", "panic"}
    BY DEF Load, Loader, StartPanics, StartFails, StartReaders, Merge, LoadFails, Loaded, ReadFiles, Reader,
           Read, ReadPanic, Send, End, WritePanics, batchVars
  <2>8. Prove => UNCHANGED <<merged, accounts, tree, rows>> /\ phase = "built" /\ phase' = "built"
    BY DEF Prove, loadVars, readVars, treeVars
  <2> QED
    BY <2>1, <2>2, <2>3, <2>4, <2>5, <2>6, <2>7, <2>8 DEF Next, Batches, Done
<1> QED
  BY <1>1, <1>2, CexInvariant, PricesInvariant, LoadInvariant, BatchTypesInvariant, BatchInvariant,
     PTL DEF Spec

\* Every batch of loaded accounts can be proved, whatever the files, but for a
\* ratio above 100, a collateral worth more than the greatest boundary, and a
\* user's collaterals that are together worth more than the bits of a value.
THEOREM NothingElseRefused == Spec => []RefusedOnlyFor
<1>1. RefuseInv => RefusedOnlyFor
  BY DEF RefuseInv
<1> QED
  BY <1>1, RefuseInvariant, PTL

=============================================================================
