------------------------------ MODULE UserData ------------------------------
(***************************************************************************)
(* ParseUserDataSet: the asset file is parsed, the user files are read by  *)
(* several goroutines, each sending its results on a channel of its own    *)
(* for one result, and merged in the order of their names.  A row becomes  *)
(* an account of the tier that its assets fit in, valued at the exchange's *)
(* prices and tiers, or it is counted as invalid.                          *)
(***************************************************************************)
EXTENDS CollateralTiers, AssetPadding, FiniteSetsExt

CONSTANTS
    WorkersNum, \* goroutines that read files
    MaxUint,    \* greatest value of an amount, a uint64
    CexFiles,   \* what the asset file may hold
    DataSets,   \* what the user files may hold, in the order of their names
    BadNumber   \* a column that does not convert to a uint64

ASSUME WorkersAssumption == WorkersNum \in Nat \ {0}

Workers == 0 .. WorkersNum - 1
Kinds == {"loan", "margin", "portfolioMargin"}
Assets == 0 .. AssetCounts - 1

\* A line of the asset file has an asset's price and its tiers of each kind;
\* a row of a user file has the account's id and its amounts of each asset, of
\* no more than cexAssetsInfo has.
Uints == 0 .. MaxUint
AssetLines == [price : Uints, ratios : [Kinds -> TierStrings]]
AmountsOf(numbers) == [equity : numbers, debt : numbers, collateral : [Kinds -> numbers]]
Columns == {c \in Seq(AmountsOf(Uints) \cup {BadNumber}) : Len(c) <= AssetCounts}
UserRows == [id : STRING, columns : Columns]

ASSUME MaxUintAssumption == MaxUint \in Nat
ASSUME CexFilesAssumption == CexFiles \subseteq Seq(AssetLines)
ASSUME DataSetsAssumption == DataSets \subseteq Seq(Seq(UserRows))

\* Amounts of an asset: equity, debt, and of each kind of collateral.
NoAmounts == [equity |-> 0, debt |-> 0, collateral |-> [k \in Kinds |-> 0]]
\* An asset in the asset file: its price, and a string of tiers for each kind.
Reserved == [price |-> 0, ratios |-> [k \in Kinds |-> <<>>]]
\* An asset as it is parsed.
Parsed(asset) ==
    [price |-> asset.price,
     tiers |-> [k \in Kinds |-> ParseTiersRatio(asset.ratios[k])]]

VARIABLES
    cexFile, \* the assets of the asset file, in the order of the columns
    files,   \* the rows of each user file
    cex,     \* cexAssetInfo: each asset's price, and its table of each kind
    phase,   \* "start", "read", "loaded", "error", "panic", and what follows
    next,    \* the next file of each reader
    held,    \* the result a reader has and is to send, if any
    results, \* the channel of each reader, for one result
    merged   \* the results received so far

inputs == <<cexFile, files>>
readVars == <<next, held, results, merged>>
loadVars == <<inputs, cex, phase, readVars>>

LoadInit ==
    /\ cexFile \in CexFiles /\ files \in DataSets
    /\ cex = [a \in Assets |-> Parsed(Reserved)]
    /\ phase = "start"
    /\ next = [w \in Workers |-> w + 1]
    /\ held = [w \in Workers |-> <<>>]
    /\ results = [w \in Workers |-> <<>>]
    /\ merged = <<>>

----------------------------------------------------------------------------
(* Reading one file.                                                       *)

ColumnsOf(row) == 0 .. Len(row.columns) - 1
Amounts(row, a) == row.columns[a+1]

\* An asset without equity and debt is skipped, whatever its collateral.
Counts(row, a) == Amounts(row, a).equity # 0 \/ Amounts(row, a).debt # 0
AssetsOf(row) == {a \in ColumnsOf(row) : Counts(row, a)}

\* SafeAdd of two uint64: a sum that does not fit makes the process panic.
Fits(m, n) == m + n <= MaxUint

TotalOf(amounts) ==
    amounts.collateral["loan"] + amounts.collateral["margin"]
    + amounts.collateral["portfolioMargin"]

\* What the loop over the columns does when it comes to asset a.
Problem(row, a) ==
    IF Amounts(row, a) = BadNumber THEN "invalid"
    ELSE IF ~Counts(row, a) THEN "none"
    ELSE LET c == Amounts(row, a).collateral IN
         IF ~(Fits(c["loan"], c["margin"]) /\ Fits(c["loan"] + c["margin"], c["portfolioMargin"]))
         THEN "panic"
         ELSE IF TotalOf(Amounts(row, a)) > Amounts(row, a).equity THEN "invalid" ELSE "none"

Problems(row) == {a \in ColumnsOf(row) : Problem(row, a) # "none"}

Worth(info, assets, field) ==
    SumFunction([a \in DOMAIN assets |-> assets[a][field] * info[a].price])

\* CalculateAssetValueForCollateral
AssetValue(asset, amounts) ==
    SumFunction([k \in Kinds |-> HostValue(asset.tiers[k], amounts.collateral[k] * asset.price)])
Collateral(info, assets) ==
    SumFunction([a \in DOMAIN assets |-> AssetValue(info[a], assets[a])])

Account(info, row) ==
    LET assets == [a \in AssetsOf(row) |-> Amounts(row, a)]
    IN  [id |-> row.id, assets |-> assets, equity |-> Worth(info, assets, "equity"),
         debt |-> Worth(info, assets, "debt"), collateral |-> Collateral(info, assets)]

\* The first problem ends the row; else its debt must be covered.
RowOutcome(info, row) ==
    IF Problems(row) # {} THEN Problem(row, Min(Problems(row)))
    ELSE IF Account(info, row).debt <= Account(info, row).collateral THEN "valid" ELSE "invalid"

\* The accounts that go to a tier, in the order of the file.
GoesTo(info, row, tier) ==
    RowOutcome(info, row) = "valid" /\ TierFor(Cardinality(AssetsOf(row))) = tier
AccountsOfTier(info, file, tier) ==
    FlattenSeq([i \in 1 .. Len(file) |->
        IF GoesTo(info, file[i], tier) THEN <<Account(info, file[i])>> ELSE <<>>])

RowsWith(info, file, outcome) == {i \in 1 .. Len(file) : RowOutcome(info, file[i]) = outcome}

\* ReadUserDataFromCsvFile: the accounts of each tier and the invalid ones.
ReadFile(info, file) ==
    [accounts |-> [tier \in AssetCountsTiers |-> AccountsOfTier(info, file, tier)],
     invalid |-> Cardinality(RowsWith(info, file, "invalid"))]

ReadPanics(info, file) == RowsWith(info, file, "panic") # {}

----------------------------------------------------------------------------
(* The goroutines.  Of two tables that do not parse, the one that comes    *)
(* first in the asset file decides how it ends.                            *)

\* ParseCexAssetInfoFromFile: the configured assets, then reserved ones.
ParsedCex ==
    [a \in Assets |-> Parsed(IF a < Len(cexFile) THEN cexFile[a+1] ELSE Reserved)]
Encodings == {cexFile[i].ratios[k] : i \in 1 .. Len(cexFile), k \in Kinds}

End(how) == phase' = how /\ UNCHANGED <<inputs, cex, readVars>>

\* userFileNames[0] panics without a user file; more tiers than TierCount do.
StartPanics ==
    /\ phase = "start"
    /\ files = <<>> \/ \E enc \in Encodings : TiersParse(enc) /\ TooManyTiers(enc)
    /\ End("panic")

StartFails ==
    /\ phase = "start" /\ files # <<>>
    /\ \E enc \in Encodings : ~TiersParse(enc)
    /\ End("error")

StartReaders ==
    /\ phase = "start" /\ files # <<>>
    /\ \A enc \in Encodings : TiersParse(enc) /\ ~TooManyTiers(enc)
    /\ cex' = ParsedCex
    /\ phase' = "read"
    /\ UNCHANGED <<inputs, readVars>>

\* Reader w reads every WorkersNum-th file.
Advance(w) == next[w] + WorkersNum

Read(w) ==
    /\ phase = "read" /\ held[w] = <<>> /\ next[w] <= Len(files)
    /\ ~ReadPanics(cex, files[next[w]])
    /\ held' = [held EXCEPT ![w] = <<ReadFile(cex, files[next[w]])>>]
    /\ next' = [next EXCEPT ![w] = Advance(w)]
    /\ UNCHANGED <<inputs, cex, phase, results, merged>>

ReadPanic(w) ==
    /\ phase = "read" /\ held[w] = <<>> /\ next[w] <= Len(files)
    /\ ReadPanics(cex, files[next[w]])
    /\ End("panic")

\* The channel holds one result.
Send(w) ==
    /\ phase = "read" /\ held[w] # <<>> /\ results[w] = <<>>
    /\ results' = [results EXCEPT ![w] = held[w]]
    /\ held' = [held EXCEPT ![w] = <<>>]
    /\ UNCHANGED <<inputs, cex, phase, next, merged>>

\* Mutant: the merger takes whatever is there.
MergeAny ==
    \E w \in Workers :
        /\ phase = "read" /\ Len(merged) < Len(files) /\ results[w] # <<>>
        /\ merged' = Append(merged, Head(results[w]))
        /\ results' = [results EXCEPT ![w] = <<>>]
        /\ UNCHANGED <<inputs, cex, phase, next, held>>

\* The merger takes result i from the reader of file i.
Merge ==
    LET w == Len(merged) % WorkersNum IN
    /\ phase = "read" /\ Len(merged) < Len(files) /\ results[w] # <<>>
    /\ merged' = Append(merged, Head(results[w]))
    /\ results' = [results EXCEPT ![w] = <<>>]
    /\ UNCHANGED <<inputs, cex, phase, next, held>>

Invalid == \E i \in 1 .. Len(merged) : merged[i].invalid > 0

\* ParseUserDataSet returns "invalid account data"; main panics.
LoadFails ==
    /\ phase = "read" /\ Len(merged) = Len(files) /\ Invalid
    /\ End("error")

\* Mutant: the invalid accounts are only counted.
LoadedAnyway ==
    /\ phase = "read" /\ Len(merged) = Len(files)
    /\ End("loaded")

Loaded ==
    /\ phase = "read" /\ Len(merged) = Len(files) /\ ~Invalid
    /\ End("loaded")

Reader(w) == Read(w) \/ ReadPanic(w) \/ Send(w)
Loader == StartPanics \/ StartFails \/ StartReaders \/ Merge \/ LoadFails \/ Loaded

\* accountInfo: the accounts of a tier, those of the first file first.
AccountInfo(tier) == FlattenSeq([i \in 1 .. Len(merged) |-> merged[i].accounts[tier]])

----------------------------------------------------------------------------
(* Properties.                                                             *)

\* Whatever the readers' speed, what is merged is the result of the first
\* files, in their order: both services resume by position in it.
MergedInOrder ==
    /\ Len(merged) <= Len(files)
    /\ \A i \in 1 .. Len(merged) : merged[i] = ReadFile(cex, files[i])

\* The outcome of loading depends on the files alone.  No account gets past
\* it while any row of any file is invalid.
LoadedAllValid ==
    phase \notin {"start", "read", "error", "panic"} =>
        \A i \in 1 .. Len(files) : \A j \in 1 .. Len(files[i]) :
            RowOutcome(cex, files[i][j]) = "valid"

=============================================================================
