---------------------------- MODULE AssetPadding ----------------------------
(***************************************************************************)
(* The assets of a user are padded with empty ones to the number that its  *)
(* tier's circuit takes.  The host does it for the user's commitment, the  *)
(* prover for the circuit: both must come to the same list of indexes.     *)
(***************************************************************************)
EXTENDS Integers, Sequences, FiniteSets, SequencesExt

CONSTANTS
    AssetCounts, \* assets of the exchange, configured or reserved
    OpsPerBatch  \* BatchCreateUserOpsCountsTiers: users per batch, by asset tier

AssetCountsTiers == DOMAIN OpsPerBatch

\* The tiers are numbers of assets, the greatest all of the assets.
ASSUME TiersAssumption ==
    AssetCounts \in AssetCountsTiers /\ AssetCountsTiers \subseteq 1 .. AssetCounts
ASSUME AssetCountsAssumption == AssetCounts \in Nat
ASSUME OpsAssumption == \A t \in AssetCountsTiers : OpsPerBatch[t] \in Nat \ {0}

\* The loops over AssetCountsTiers: the smallest tier that fits.
TierFor(count) ==
    LET fits == {t \in AssetCountsTiers : count <= t}
    IN  CHOOSE t \in fits : \A s \in fits : t <= s

Consecutive(first, n) == [i \in 1 .. n |-> first + i - 1]
Smaller(m, n) == IF m <= n THEN m ELSE n

\* One round of the loop: unused indexes below the asset's while there is
\* padding left, then the asset's own.
PlaceAsset(list, v) ==
    LET gap == Smaller(v - list.next, list.padding) IN
    [indexes |-> list.indexes \o Consecutive(list.next, gap) \o <<v>>,
     next |-> v + 1,
     padding |-> list.padding - gap]

\* The assets of a user are in the order of their columns.
Ascending(used) ==
    [i \in 1 .. Cardinality(used) |->
        CHOOSE v \in used : Cardinality({x \in used : x < v}) = i - 1]

\* PaddingAccountAssets, and the same loops in SetBatchCreateUserCircuitWitness:
\* what is still missing follows the last asset.
PaddedIndexes(used, count) ==
    LET start == [indexes |-> <<>>, next |-> 0, padding |-> count - Cardinality(used)]
        list == FoldLeft(PlaceAsset, start, Ascending(used))
    IN  list.indexes \o Consecutive(list.next, count - Len(list.indexes))

\* PaddingAccounts: the accounts that fill up the last batch of a tier.
PaddingCount(accounts, tier) ==
    ((accounts + OpsPerBatch[tier] - 1) \div OpsPerBatch[tier]) * OpsPerBatch[tier] - accounts

=============================================================================
