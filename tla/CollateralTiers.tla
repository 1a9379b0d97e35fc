-------------------------- MODULE CollateralTiers --------------------------
(***************************************************************************)
(* The value of a collateral: each asset has, for each kind of collateral, *)
(* a table of tiers, each the part of a value up to its boundary and the   *)
(* percentage at which that part counts.  The tables are parsed and padded *)
(* by the host, which values collaterals with them; the circuit gets a     *)
(* tier's index and a flag from the prover and checks them against the     *)
(* same table.                                                             *)
(***************************************************************************)
EXTENDS Integers, Sequences

CONSTANTS
    TierCount,      \* tiers of a table, after padding
    BoundaryBits,   \* MaxTierBoundaryValue is 2 to this power: 118
    ValueMultiplier \* units of a configured boundary: 10 to the power 16

ASSUME TierCountAssumption == TierCount \in Nat \ {0}
\* "must be even number": commitments take the tiers two by two.
ASSUME EvenAssumption == TierCount % 2 = 0
ASSUME MultiplierAssumption == ValueMultiplier \in Nat \ {0}

MaxTierBoundaryValue == 2 ^ BoundaryBits
ASSUME BoundaryAssumption == MaxTierBoundaryValue \in Nat
\* No configured boundary is the greatest one: five does not divide it.
ASSUME GreatestAssumption == MaxTierBoundaryValue % ValueMultiplier # 0
PercentageMultiplier == 100
RatioValues == 2 ^ 8 \* a ratio is kept in a uint8

----------------------------------------------------------------------------
(* The host.                                                               *)

\* The boundary below tier i.
Lower(tiers, i) == IF i = 1 THEN 0 ELSE tiers[i-1].boundary

\* Mutant: the percentage is rounded up.
HaircutUp(value, ratio) == (value * ratio + PercentageMultiplier - 1) \div PercentageMultiplier

Haircut(value, ratio) == (value * ratio) \div PercentageMultiplier

\* The sums of the first 0, 1, ... elements of a sequence.
PrefixSums(h) == LET sum[i \in 0 .. Len(h)] == IF i = 0 THEN 0 ELSE sum[i-1] + h[i] IN sum

\* CalculatePrecomputedValue: what all of the first i tiers are worth.
WholeTiers(tiers) ==
    [i \in 1 .. Len(tiers) |-> Haircut(tiers[i].boundary - Lower(tiers, i), tiers[i].ratio)]
PrecomputedValues(tiers) == PrefixSums(WholeTiers(tiers))

\* The tiers "low-high:ratio" of a string.
TierStrings == Seq([low : Nat, high : Nat, ratio : Nat])

\* The checks of ParseTiersRatioFromStr on the tiers of a string.  The low
\* end is not compared with the tier before, the ratio with nothing.
TiersParse(enc) ==
    \A i \in 1 .. Len(enc) :
        /\ enc[i].low <= enc[i].high /\ enc[i].high * ValueMultiplier <= MaxTierBoundaryValue
        /\ i > 1 => enc[i].high > enc[i-1].high

\* PaddingTierRatios panics.
TooManyTiers(enc) == Len(enc) > TierCount

\* PaddingTierRatios: a tier that is not configured ends at the greatest
\* boundary and adds nothing.
PaddingTierRatios(tiers) ==
    [i \in 1 .. TierCount |->
        IF i <= Len(tiers)
        THEN [boundary |-> tiers[i].boundary, ratio |-> tiers[i].ratio,
              precomputed |-> PrecomputedValues(tiers)[i]]
        ELSE [boundary |-> MaxTierBoundaryValue, ratio |-> 0,
              precomputed |-> PrecomputedValues(tiers)[Len(tiers)]]]

\* Mutant: the ratio is cut to seven bits.
ParseTiersRatioSigned(enc) ==
    PaddingTierRatios([i \in 1 .. Len(enc) |->
        [boundary |-> enc[i].high * ValueMultiplier, ratio |-> enc[i].ratio % 2 ^ 7]])

\* ParseTiersRatioFromStr: uint8(ratio) drops the upper bits of a ratio.
ParseTiersRatio(enc) ==
    PaddingTierRatios([i \in 1 .. Len(enc) |->
        [boundary |-> enc[i].high * ValueMultiplier, ratio |-> enc[i].ratio % RatioValues]])

\* The tiers whose boundary a value does not exceed, and the first of them.
TiersFor(tiers, value) == {i \in 1 .. TierCount : value <= tiers[i].boundary}
FirstTier(tiers, value) ==
    CHOOSE i \in TiersFor(tiers, value) : \A j \in TiersFor(tiers, value) : i <= j

\* What the tiers below tier i are worth.
Below(tiers, i) == IF i = 1 THEN 0 ELSE tiers[i-1].precomputed

\* CalculateAssetValueViaTiersRatio
HostValue(tiers, value) ==
    IF TiersFor(tiers, value) = {} THEN tiers[TierCount].precomputed
    ELSE LET i == FirstTier(tiers, value)
         IN  Below(tiers, i) + Haircut(value - Lower(tiers, i), tiers[i].ratio)

\* Mutant: a value at a boundary is given the tier above it.
HostTierStrict(tiers, value) ==
    LET above == {i \in 1 .. TierCount : value < tiers[i].boundary}
    IN  IF above = {} THEN [index |-> TierCount - 1, flag |-> 1]
        ELSE [index |-> (CHOOSE i \in above : \A j \in above : i <= j) - 1, flag |-> 0]

\* calcAndSetCollateralInfo: the index and flag that the prover fills in.
HostTier(tiers, value) ==
    IF TiersFor(tiers, value) = {} THEN [index |-> TierCount - 1, flag |-> 1]
    ELSE [index |-> FirstTier(tiers, value) - 1, flag |-> 0]

----------------------------------------------------------------------------
(* The circuit.                                                            *)

\* generateRapidArithmeticForCollateral accepts the table.
TiersValid(tiers) ==
    \A i \in 1 .. TierCount :
        /\ tiers[i].ratio <= PercentageMultiplier
        /\ tiers[i].boundary <= MaxTierBoundaryValue
        /\ Lower(tiers, i) <= tiers[i].boundary

\* It computes the precomputed values anew, over the padding too.
CircuitTiers(tiers) ==
    [i \in 1 .. TierCount |-> [tiers[i] EXCEPT !.precomputed = PrecomputedValues(tiers)[i]]]

\* Mutant: the value need not exceed the boundary below its tier.
ChoiceValidNoLower(tiers, value, choice) ==
    LET i == choice.index + 1 IN
    /\ choice.index \in 0 .. TierCount - 1 /\ choice.flag \in {0, 1}
    /\ choice.flag = 1 => choice.index = TierCount - 1
    /\ value = 0 => choice.index = 0
    /\ IF choice.flag = 1
       THEN tiers[i].boundary < value /\ value <= MaxTierBoundaryValue
       ELSE value <= tiers[i].boundary

\* getAndCheckTierRatiosQueryResults accepts an index and a flag for a value.
ChoiceValid(tiers, value, choice) ==
    LET i == choice.index + 1 IN
    /\ choice.index \in 0 .. TierCount - 1 /\ choice.flag \in {0, 1}
    /\ choice.flag = 1 => choice.index = TierCount - 1
    /\ value = 0 => choice.index = 0
    /\ value # 0 => Lower(tiers, i) < value
    /\ IF choice.flag = 1
       THEN tiers[i].boundary < value /\ value <= MaxTierBoundaryValue
       ELSE value <= tiers[i].boundary

\* The value it then computes.
ChoiceValue(tiers, value, choice) ==
    LET i == choice.index + 1 IN
    IF choice.flag = 1 THEN tiers[i].precomputed
    ELSE Below(tiers, i) + Haircut(value - Lower(tiers, i), tiers[i].ratio)

----------------------------------------------------------------------------
(* What docs and configuration mean by tiers: the part of a value within a *)
(* tier counts at the tier's ratio, beyond the last boundary nothing does. *)

\* The part of a value above one end and up to the other.
Between(low, high, value) ==
    IF value <= low THEN 0 ELSE IF value <= high THEN value - low ELSE high - low

PartWithin(tiers, value, i) == Between(Lower(tiers, i), tiers[i].boundary, value)

PartsOf(tiers, value) ==
    [i \in 1 .. TierCount |->
        (PartWithin(tiers, value, i) * tiers[i].ratio) \div PercentageMultiplier]
DefinedValue(tiers, value) == PrefixSums(PartsOf(tiers, value))[TierCount]

\* The same of a string as it is written, before anything is cut or padded.
ConfiguredParts(enc, value) ==
    [i \in 1 .. Len(enc) |->
        Haircut(Between(enc[i].low * ValueMultiplier, enc[i].high * ValueMultiplier, value),
                enc[i].ratio)]
ConfiguredValue(enc, value) == PrefixSums(ConfiguredParts(enc, value))[Len(enc)]

\* Each tier of the string starts where the one before ends, and each ratio
\* has eight bits.
Consistent(enc) ==
    \A i \in 1 .. Len(enc) :
        /\ enc[i].low = IF i = 1 THEN 0 ELSE enc[i-1].high
        /\ enc[i].ratio < RatioValues

----------------------------------------------------------------------------
(* Commitments hold two tiers in one field element, the ratio and boundary *)
(* of the second above those of the first.                                 *)

\* Mutant: the second tier is moved by the width of a ratio only.
PackTwoShort(s, t) ==
    s.ratio + s.boundary * RatioValues + (t.ratio + t.boundary * RatioValues) * RatioValues

\* ConvertTierRatiosToBytes, convertTierRatiosToVariables
PackTwo(s, t) ==
    s.ratio + s.boundary * RatioValues
    + (t.ratio + t.boundary * RatioValues) * RatioValues * MaxTierBoundaryValue

Packed(tiers) == [i \in 1 .. TierCount \div 2 |-> PackTwo(tiers[2*i - 1], tiers[2*i])]

\* A table that ParseTiersRatioFromStr can come to: multiples of the
\* valueMultiplier, and then the padding.
Loadable(t) ==
    \E n \in 0 .. TierCount :
        /\ \A i \in 1 .. n : t[i].boundary % ValueMultiplier = 0 /\ (i > 1 => Lower(t, i) < t[i].boundary)
        /\ \A i \in n + 1 .. TierCount : t[i].boundary = MaxTierBoundaryValue /\ t[i].ratio = 0

\* A table with the greatest boundary in the first of two tiers.
GreatestFirst(tiers) ==
    \E i \in 1 .. TierCount : i % 2 = 1 /\ tiers[i].boundary = MaxTierBoundaryValue

=============================================================================
