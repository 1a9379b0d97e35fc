---------------------------- MODULE UserBatches ----------------------------
(***************************************************************************)
(* From user files to proved batches.  Accounts are padded to whole        *)
(* batches and numbered; the witness service adds a batch's amounts to the *)
(* totals; the prover completes the batch's witness, padding every user's  *)
(* assets and choosing tiers for the collaterals; and the circuit checks   *)
(* it.  A commitment stands for what it commits to, the account tree for   *)
(* its leaves.  How the services do this concurrently is WitnessPipeline's *)
(* and AccountTree's.                                                      *)
(***************************************************************************)
EXTENDS UserData

CONSTANT ValueBits \* bits of what the circuit lets a user owe, and be covered by: 128

ValueRange == 2 ^ ValueBits
ASSUME ValueAssumption == ValueRange \in Nat

VARIABLES
    accounts, \* the accounts of each tier that has some, padded and numbered
    tree,     \* the leaves of the account tree, by AccountIndex
    totals,   \* w.cexAssets: the amounts of each asset so far
    rows,     \* the witnesses of the batches written
    proved    \* how many of them have been proved

Tiers(a, k) == cex[a].tiers[k]

treeVars == <<accounts, tree>>
batchVars == <<totals, rows, proved>>
vars == <<loadVars, treeVars, batchVars>>

Init ==
    /\ LoadInit
    /\ accounts = <<>> /\ tree = <<>>
    /\ totals = [a \in Assets |-> NoAmounts]
    /\ rows = <<>> /\ proved = 0

----------------------------------------------------------------------------
(* The accounts of the tree.                                               *)

\* A padding account has all the assets of its tier, empty.
PaddingAccount(tier) ==
    [id |-> "padding", assets |-> [a \in 0 .. tier - 1 |-> NoAmounts],
     equity |-> 0, debt |-> 0, collateral |-> 0]

\* PaddingAccounts
PaddedAccounts(tier) ==
    AccountInfo(tier)
    \o [i \in 1 .. PaddingCount(Len(AccountInfo(tier)), tier) |-> PaddingAccount(tier)]

Keys == {tier \in AssetCountsTiers : AccountInfo(tier) # <<>>}

\* The accounts of the tiers below one.
Before(tier) == SumFunction([k \in {k \in Keys : k < tier} |-> Len(PaddedAccounts(k))])

Indexed(account, index) ==
    [index |-> index, id |-> account.id, assets |-> account.assets, equity |-> account.equity,
     debt |-> account.debt, collateral |-> account.collateral]

\* Accounts are numbered from 0 in the order of their tiers.
Numbered(tier) ==
    [i \in 1 .. Len(PaddedAccounts(tier)) |->
        Indexed(PaddedAccounts(tier)[i], Before(tier) + i - 1)]

\* Amounts of an account by asset, zero for an asset it does not have.
AmountOf(account, a) ==
    IF a \in DOMAIN account.assets THEN account.assets[a] ELSE NoAmounts

\* AccountInfoToHash: the leaf of an account, with its assets padded to the
\* tier of their number.
Leaf(account) ==
    LET list == PaddedIndexes(DOMAIN account.assets, TierFor(Cardinality(DOMAIN account.assets)))
    IN  [id |-> account.id, equity |-> account.equity, debt |-> account.debt,
         collateral |-> account.collateral,
         assets |-> [i \in 1 .. Len(list) |-> <<list[i], AmountOf(account, list[i])>>]]

\* The witness process builds the tree of the accounts.
BuildTree ==
    /\ phase = "loaded"
    /\ accounts' = [tier \in Keys |-> Numbered(tier)]
    /\ LET all == UNION {ToSet(accounts'[tier]) : tier \in Keys}
       IN  tree' = [i \in {account.index : account \in all} |->
                       Leaf(CHOOSE account \in all : account.index = i)]
    /\ phase' = "built"
    /\ UNCHANGED <<inputs, cex, readVars, batchVars>>

----------------------------------------------------------------------------
(* The witness service.                                                    *)

\* GetBatchNumber: the batches of a tier, and batchNumberMappingValues, the
\* number of the first batch after it.
BatchesOf(tier) == (Len(accounts[tier]) + OpsPerBatch[tier] - 1) \div OpsPerBatch[tier]
EndBatchNum(tier) == SumFunction([k \in {k \in DOMAIN accounts : k <= tier} |-> BatchesOf(k)])
BatchNumber == SumFunction([k \in DOMAIN accounts |-> BatchesOf(k)])

\* The tier of batch i, and its place among the batches of the tier.
TierOfBatch(i) ==
    CHOOSE tier \in DOMAIN accounts :
        EndBatchNum(tier) - BatchesOf(tier) <= i /\ i < EndBatchNum(tier)
RelativeBatchNum(i) ==
    LET tier == TierOfBatch(i) IN i - (EndBatchNum(tier) - BatchesOf(tier))

AddAmounts(m, n) ==
    [equity |-> m.equity + n.equity, debt |-> m.debt + n.debt,
     collateral |-> [k \in Kinds |-> m.collateral[k] + n.collateral[k]]]

SumAmounts(f) ==
    [equity |-> SumFunction([x \in DOMAIN f |-> f[x].equity]),
     debt |-> SumFunction([x \in DOMAIN f |-> f[x].debt]),
     collateral |-> [k \in Kinds |-> SumFunction([x \in DOMAIN f |-> f[x].collateral[k]])]]

\* The totals with the amounts of some accounts added.
Added(before, ops) ==
    [a \in Assets |->
        AddAmounts(before[a], SumAmounts([u \in 1 .. Len(ops) |-> AmountOf(ops[u], a)]))]

AmountsFit(m) == m.equity <= MaxUint /\ m.debt <= MaxUint /\ \A k \in Kinds : m.collateral[k] <= MaxUint
TotalsFit(t) == \A a \in Assets : AmountsFit(t[a])

\* Mutant: every batch has the first users of its tier.
FirstOps == SubSeq(accounts[TierOfBatch(Len(rows))], 1, OpsPerBatch[TierOfBatch(Len(rows))])

\* The users of the next batch.
NextOps ==
    LET tier == TierOfBatch(Len(rows))
        start == RelativeBatchNum(Len(rows)) * OpsPerBatch[tier]
    IN  SubSeq(accounts[tier], start + 1, start + OpsPerBatch[tier])

More == phase = "built" /\ Len(rows) < BatchNumber

\* Mutant: the sums are not checked for overflow.
WriteBatchUnchecked ==
    /\ More
    /\ totals' = Added(totals, NextOps)
    /\ rows' = Append(rows, [ops |-> NextOps, before |-> totals, after |-> totals'])
    /\ UNCHANGED <<loadVars, treeVars, proved>>

WriteBatch ==
    /\ More /\ TotalsFit(Added(totals, NextOps))
    /\ totals' = Added(totals, NextOps)
    /\ rows' = Append(rows, [ops |-> NextOps, before |-> totals, after |-> totals'])
    /\ UNCHANGED <<loadVars, treeVars, proved>>

\* SafeAdd: "overflow for balance"
WritePanics ==
    /\ More /\ ~TotalsFit(Added(totals, NextOps))
    /\ phase' = "panic"
    /\ UNCHANGED <<inputs, cex, readVars, treeVars, batchVars>>

----------------------------------------------------------------------------
(* The prover: SetBatchCreateUserCircuitWitness.                           *)

IsAssetEmpty(amounts) == amounts = NoAmounts
NonEmpty(account) == {a \in DOMAIN account.assets : ~IsAssetEmpty(account.assets[a])}

\* The first user's assets decide for which tier's circuit the batch is.
TargetCounts(row) == TierFor(Cardinality(NonEmpty(row.ops[1])))

\* For each user the list of asset indexes, and for each kind of collateral
\* of each of them a tier; of an empty asset the lowest.
Choice(account, a, k) ==
    IF a \in NonEmpty(account)
    THEN HostTier(Tiers(a, k), AmountOf(account, a).collateral[k] * cex[a].price)
    ELSE [index |-> 0, flag |-> 0]

Assignment(row) ==
    [u \in 1 .. Len(row.ops) |->
        [list |-> PaddedIndexes(NonEmpty(row.ops[u]), TargetCounts(row)),
         choices |-> [a \in Assets |-> [k \in Kinds |-> Choice(row.ops[u], a, k)]]]]

----------------------------------------------------------------------------
(* The circuit of a tier.                                                  *)

CollateralOf(account, a, k) == AmountOf(account, a).collateral[k] * cex[a].price

\* The values that the circuit computes for the assets of a user's list.
CircuitCollateral(account, list, choices) ==
    LET value(a, k) ==
            ChoiceValue(CircuitTiers(Tiers(a, k)), CollateralOf(account, a, k), choices[a][k])
    IN  SumFunction([a \in ToSet(list) |-> SumFunction([k \in Kinds |-> value(a, k)])])

ListWorth(account, list, field) ==
    SumFunction([a \in ToSet(list) |-> AmountOf(account, a)[field] * cex[a].price])

\* The list is increasing, so no asset is in it twice; and, by the random
\* linear combination, it has every asset of the user that is not empty.
ListValid(account, list, tier) ==
    /\ Len(list) = tier /\ ToSet(list) \subseteq Assets
    /\ \A i \in 2 .. Len(list) : list[i-1] < list[i]
    /\ \A a \in Assets \ ToSet(list) : IsAssetEmpty(AmountOf(account, a))

\* Each asset's collaterals are part of its equity, and all of them together
\* cover the user's debt.  Both sides of the comparison have ValueBits.
Covered(account, list, choices) ==
    /\ \A a \in ToSet(list) : TotalOf(AmountOf(account, a)) <= AmountOf(account, a).equity
    /\ ListWorth(account, list, "debt") < ValueRange
    /\ CircuitCollateral(account, list, choices) < ValueRange
    /\ ListWorth(account, list, "debt") <= CircuitCollateral(account, list, choices)

ChoicesValid(account, list, choices) ==
    \A a \in ToSet(list) : \A k \in Kinds :
        ChoiceValid(CircuitTiers(Tiers(a, k)), CollateralOf(account, a, k), choices[a][k])

\* The leaf that the circuit looks for in the account tree.
CircuitLeaf(account, list, choices) ==
    [id |-> account.id, equity |-> ListWorth(account, list, "equity"),
     debt |-> ListWorth(account, list, "debt"),
     collateral |-> CircuitCollateral(account, list, choices),
     assets |-> [i \in 1 .. Len(list) |-> <<list[i], AmountOf(account, list[i])>>]]

\* What is checked of a user alone, whatever list, tiers and flags are claimed.
UserChecked(account, tier, claim) ==
    /\ ListValid(account, claim.list, tier)
    /\ ChoicesValid(account, claim.list, claim.choices)
    /\ Covered(account, claim.list, claim.choices)

UserValid(account, tier, claim) ==
    /\ UserChecked(account, tier, claim)
    /\ CircuitLeaf(account, claim.list, claim.choices) = tree[account.index]

AllTiersValid == \A a \in Assets : \A k \in Kinds : TiersValid(Tiers(a, k))

\* BatchCreateUserCircuit.Define, for the circuit of a tier.
CircuitAccepts(row, tier, assignment) ==
    /\ AllTiersValid
    /\ Len(row.ops) = OpsPerBatch[tier]
    /\ \A u \in 1 .. Len(row.ops) :
           /\ row.ops[u].index = row.ops[1].index + u - 1
           /\ UserValid(row.ops[u], tier, assignment[u])
    /\ row.after = Added(row.before, row.ops) /\ TotalsFit(row.after)

Row == rows[proved + 1]

Prove ==
    /\ phase = "built" /\ proved < Len(rows)
    /\ CircuitAccepts(Row, TargetCounts(Row), Assignment(Row))
    /\ proved' = proved + 1
    /\ UNCHANGED <<loadVars, treeVars, totals, rows>>

\* No proof can be generated for the batch.
ProveFails ==
    /\ phase = "built" /\ proved < Len(rows)
    /\ ~CircuitAccepts(Row, TargetCounts(Row), Assignment(Row))
    /\ phase' = "refused"
    /\ UNCHANGED <<inputs, cex, readVars, treeVars, batchVars>>

AllProved == phase = "built" /\ Len(rows) = BatchNumber /\ proved = Len(rows)

\* The processes have ended.
Done == (phase \in {"error", "panic", "refused"} \/ AllProved) /\ UNCHANGED vars

----------------------------------------------------------------------------
Batches == BuildTree \/ WriteBatch \/ WritePanics \/ Prove \/ ProveFails
Load == Loader /\ UNCHANGED <<treeVars, batchVars>>
ReadFiles(w) == Reader(w) /\ UNCHANGED <<treeVars, batchVars>>

Next == Load \/ Batches \/ Done \/ \E w \in Workers : ReadFiles(w)

Spec == Init /\ [][Next]_vars

----------------------------------------------------------------------------
(* Properties.                                                             *)

\* The phases, the channels and the counters have their types.
TypeOK ==
    /\ phase \in {"start", "read", "loaded", "built", "error", "panic", "refused"}
    /\ next \in [Workers -> Nat]
    /\ \A w \in Workers : Len(held[w]) <= 1 /\ Len(results[w]) <= 1
    /\ TotalsFit(totals)
    /\ proved \in 0 .. Len(rows)

Claims == [index : 0 .. TierCount, flag : 0 .. 2]
\* Beyond the greatest boundary no claim is accepted.
SomeValues == 0 .. MaxTierBoundaryValue + 1

\* Whatever tier and flag a prover claims for a value, the circuit accepts
\* them only where they give the value that the tiers define, which is never
\* more than the collateral itself; and that is what the host computes.
OneCollateralValue ==
    phase = "loaded" =>
        \A tiers \in {Tiers(a, k) : a \in Assets, k \in Kinds} :
            TiersValid(tiers) =>
                LET circuit == CircuitTiers(tiers) IN
                \A value \in SomeValues :
                    LET defined == DefinedValue(tiers, value) IN
                    /\ HostValue(tiers, value) = defined
                    /\ defined <= value
                    /\ \A choice \in Claims :
                           ChoiceValid(circuit, value, choice) =>
                               ChoiceValue(circuit, value, choice) = defined

\* Loaded tables value every collateral as their strings say, the part of it
\* between the ends of a tier at the ratio of the tier, rounded down.  But for
\* two kinds of strings that load as well: uint8(ratio) makes another ratio of
\* one that is greater, and a tier starts at the end of the one before though
\* its low end says another thing.
ValuedAsConfigured ==
    phase = "loaded" =>
        \A a \in {a \in Assets : a < Len(cexFile)} : \A k \in Kinds :
            LET enc == cexFile[a+1].ratios[k] IN
            Consistent(enc) =>
                \A value \in SomeValues :
                    HostValue(Tiers(a, k), value) = ConfiguredValue(enc, value)

\* What loading lets pass and no proof covers: a ratio above 100 after the
\* cut to eight bits, a collateral worth more than the greatest boundary, and
\* a user whose collaterals are together worth more than ValueBits can hold,
\* for the host adds up big.Ints.
RatioTooHigh == ~AllTiersValid
BeyondGreatest ==
    \E i \in 1 .. Len(Row.ops) : \E a \in NonEmpty(Row.ops[i]) : \E k \in Kinds :
        CollateralOf(Row.ops[i], a, k) > MaxTierBoundaryValue
BeyondBits == \E i \in 1 .. Len(Row.ops) : Row.ops[i].collateral >= ValueRange

\* Every batch of loaded accounts can be proved, padded or not, in every tier:
\* host and circuit pad alike, value alike and agree on each account's leaf.
\* There are just these three exceptions.
RefusedOnlyFor == phase = "refused" => RatioTooHigh \/ BeyondGreatest \/ BeyondBits

\* What all rows of all files own and owe.
Owned(row, a) == IF a \in AssetsOf(row) THEN Amounts(row, a) ELSE NoAmounts
RowsAmounts(a) ==
    LET all == FlattenSeq(files)
    IN  SumAmounts([i \in 1 .. Len(all) |-> Owned(all[i], a)])

\* When every batch is proved, the totals are the amounts of every user of
\* every file, each counted once and in one tier, and none wrapped around.
\* A panic instead means that they do not fit, or that a user's do not.
TotalsAreTrue ==
    /\ AllProved => \A a \in Assets : totals[a] = RowsAmounts(a)
    /\ rows # <<>> /\ phase = "panic" => ~TotalsFit([a \in Assets |-> RowsAmounts(a)])

DefinedCollateral(account) ==
    LET value(a, k) == DefinedValue(Tiers(a, k), CollateralOf(account, a, k))
    IN  SumFunction([a \in DOMAIN account.assets |-> SumFunction([k \in Kinds |-> value(a, k)])])

UserCovered(account) ==
    /\ Worth(cex, account.assets, "debt") <= DefinedCollateral(account)
    /\ \A a \in DOMAIN account.assets :
           TotalOf(account.assets[a]) <= account.assets[a].equity

\* In a proved batch every user's debt is covered by collateral at the value
\* that the tiers define, and no collateral is more than the equity.
ProvedIsCovered ==
    \A r \in 1 .. proved : \A u \in 1 .. Len(rows[r].ops) : UserCovered(rows[r].ops[u])

\* Some tables that the circuit's checks allow, and what is committed of each.
SomeTables ==
    {t \in [1 .. TierCount -> [boundary : 0 .. MaxTierBoundaryValue, ratio : {0, 1}]] : TiersValid(t)}
PackedTables == [t \in SomeTables |-> Packed(t)]

\* The commitment to an asset's tiers determines them among all that can be
\* loaded.  A boundary has 118 bits, but the greatest boundary, which padding
\* puts into every table that has room, needs 119: as the first of two tiers
\* it runs into the ratio of the second.  So among all that the circuit would
\* accept there is one exception.
CommitmentFixesTiers ==
    phase = "loaded" =>
        \A tiers \in {Tiers(a, k) : a \in Assets, k \in Kinds} :
            \A t \in SomeTables :
                PackedTables[t] = Packed(tiers) =>
                    \/ \A i \in 1 .. TierCount :
                           t[i].boundary = tiers[i].boundary /\ t[i].ratio = tiers[i].ratio
                    \/ ~Loadable(t) /\ (GreatestFirst(tiers) \/ GreatestFirst(t))

=============================================================================
