# zkmerkle-proof-of-solvency in TLA+

The program proves that an exchange is solvent: it computes, over all users,
the totals that the exchange owns and owes, in batches; a zk-SNARK for each
batch shows that its users' amounts were added to the totals and that its users
are leaves of one Merkle tree; and a verifier checks that the batches form one
chain up to the totals the exchange declares. The cryptography is a library.
What this repository adds is the machinery around it: services that resume
after a kill, worker pools, a task queue, tables that several processes update,
a concurrently built tree, and a verifier that must not accept a table with a
batch missing. That machinery is what is modelled here.

Paths below are those of the repository; `P.go:n` is a line of the file named.

## Inventory

| component | state | operations | properties that make it correct |
|---|---|---|---|
| Witness service, `src/witness/witness/witness.go` | the witness table; `cexAssets`; channels `jobCh`, `orderCh`, one `done` per batch, `ch`; the writer's batch | resume, compute a batch, serialize in parallel, collect in order, insert in bulk or one by one | the table is a prefix of one chain of batches, whatever was killed; it gets completed |
| User proof service, `userproof.go` | the userproof table and its index; the loop's counters; `segCh`; the writer's pending rows | resume by the greatest index, compute a segment in parallel, insert by payload, build the index | rows in account order, each once; the counts match; a restart is harmless |
| Account tree, `utils/merkletree/merkletree.go`, `witness/main.go` | leaf and level buffers, dirty bitsets, root | `Set` from many goroutines, `Build` level by level, `Get`, `GetProof`, `VerifyProof` | the root and the proofs are those of the Merkle tree of the leaves |
| Task queue, `dbtool -push_task_to_redis` | a Redis list; the pusher's offset | page through published rows, LPUSH their heights | no published row is left without a task |
| Prover, `prover/prover/prover.go` | status of each witness row; the proof table; the task, keys and program counter of each process | pop, mark received, prove, store the proof, mark finished; `-rerun` | a finished row has a proof, with its tier's keys; stored proofs stay; everything is finished in the end |
| Verifier, `verifier/main.go` | rows by batch number, each worker's key, the map of results, the chain so far | place rows, verify in parallel, chain the batches, compare the totals | it passes exactly the complete chains, and a pass means solvency |
| Data loading, `utils.go` (`ParseUserDataSet`) | the asset table; one channel per reader; the accounts merged so far | parse and pad the collateral tiers, read files in parallel, check and value each row, merge in file order | the same order in every run: both services resume by position; nothing is used while a row is invalid |
| Batch circuit and collateral tiers, `circuit/`, `utils.go` | none | pad users and assets, choose tiers, the constraints, commitments | what the host computes satisfies the constraints; what satisfies them is what the tiers define |
| Status script, `check_prover_status.py` | two deltas, a retry counter | poll, start `-rerun`, give up | it ends with everything proved, or says so |
| `dbtool`, other commands; key generation; configuration; sample data | none | queries, an export, a reset; files | - |

How they interact. The witness service and the user proof service are two
goroutines of one process and read the same tree; a panic of one ends both. The
witness service writes rows that are *published*; `dbtool` pushes their heights
to Redis; provers on other machines pop a height, set its row to *received*,
prove, insert into the proof table and set the row to *finished*. Nothing is
locked across these steps. What is left over is for provers started with
`-rerun`, which look for *received* rows, then for *published* ones. The proof
table is exported to a file, which the verifier reads together with the
declared totals.

Before all this, the witness process loads the user files, pads the accounts of
each tier of assets to whole batches and numbers them; the tree, the batches and
the user proofs are of these accounts, in this order. A user's list of assets is
padded and a user's collaterals are valued three times: by the loader, for the
leaf of the account, and in the circuit's witness. Only if all three agree can a
batch be proved.

What is hard: statuses are read and written in separate statements by many
processes; tasks get lost and duplicated; replies get lost after the write was
done; every process may be killed between two statements; two services resume
from one row and trust that everything before it is there; results computed in
parallel must be written in order; keys are cached across batches of different
tiers; bits of one word are set by several goroutines; integers are cut to 8 and 64 bits,
divisions round, boundaries are read with `<` here and `<=` there. `PROJECT.json` lists each
hazard with its line.

## Modules

| module | models | composes |
|---|---|---|
| `ProofGeneration` | witness and proof tables, task queue, pusher, provers | implements `ProofLedger` |
| `ProofLedger` | abstract: a batch gets one proof, once and for ever; marks follow proofs | |
| `ProofGeneration_proofs` | theorems about `ProofGeneration` | extends it and `NumberFacts` |
| `WitnessPipeline` | the witness service with kill and restart | implements `DurableLog` |
| `UserProofService` | the user proof service with kill and restart | implements `DurableLog` |
| `DurableLog` | abstract: a resumable writer's table is a prefix of one result | |
| `WitnessPipeline_proofs`, `UserProofService_proofs` | theorems about those two services | extend them and `NumberFacts` |
| `AccountTree` | `FixedDepthMerkleTree` and `buildAccountTree` | |
| `AccountTree_proofs` | theorems about `AccountTree` | extends it and `NumberFacts` |
| `Verifier` | the verifier's batch mode | |
| `Verifier_proofs` | theorems about `Verifier` | extends it and `NumberFacts` |
| `CollateralTiers` | tier tables: parsing, padding, the host's valuation, the circuit's checks, the packing for the commitment | |
| `AssetPadding` | padding of a user's assets and of a tier's accounts | |
| `UserData` | `ParseUserDataSet`: the readers, the merge, the checks of a row | extends the two above |
| `UserBatches` | from user files to proved batches: padding, numbering, totals, the circuit's witness, the circuit | extends `UserData` |
| `CollateralTiers_proofs`, `UserBatches_proofs` | theorems about those | extend them and `NumberFacts` |
| `NumberFacts` | numbers: the least and the greatest of a set, digits, running sums; sums over finite sets | |
| `MC...` | instances for TLC | extend the module of that name |

Operators after the comment `Mutant:` are altered versions of a definition.
They are used by no specification; substituted for the definition they alter,
they make the property they are meant for fail.

### ProofGeneration

`status` and `proof` are the two tables, `queue` the Redis list, `push...` the
process of `dbtool`, and `pc`, `mode`, `task`, `params` the prover processes. One
action is one statement on a table or the queue:

* `CreateBatchWitness(k)`: the witness service inserts the next k rows.
* `StartPush`, `QueryPage`, `LPush`, `EndPush`, `PushCrash`: `dbtool/main.go:206-251`.
  `Page` is LIMIT/OFFSET over the rows published *now*, in the order of heights. The
  query names no order (`witness_model.go:180`), so `Pages` are any rows, as many as
  there are at that offset, and they are pushed in any order; a later page may repeat
  or skip rows. `ByHeight` restricts pages to the order of heights, which a database
  that reads the table by its primary key gives.
* `PopTask`, `QuitNoTask`, `PopFails`: BRPOP, its timeout, a reply that is lost
  after the server has removed the task.
* `SelectPublished` and `UpdateReceived`: the two statements of
  `GetAndUpdateBatchesWitnessByHeight`. The SELECT takes no lock, the UPDATE has
  no condition on the status, so they are two steps. `QuitNoPublished` is the
  early return, `FetchFails` the rollback, `UpdateUnacknowledged` the commit
  whose reply is lost.
* `RerunReceived`, `RerunNoReceived`, `RerunPublished`, `QuitNoReceived`: the two
  queries of `FetchBatchWitnessForRerun`; which row a query with `Limit(1)` and no
  order returns is open.
* `Prove`, `CheckProof`, `CheckFails`, `CreateProof`, `CreateDuplicate`,
  `CreateUnacknowledged`, `MarkFinished`, `MarkFails`: the body of the loop
  (`prover.go:178-246`). A proof is who made it and with which tier's keys.
* `Crash`: any process, between any two statements, and every error after which
  `Run` returns or panics.

Retry loops on a query timeout change nothing and are stuttering steps.

### WitnessPipeline

`totals` is `w.cexAssets`, as a count of how often each batch has been added;
`orderCh`, `jobCh`, `done`, `ch` are the channels; `batch`, `single`, `flushing`
are the writer's. `Generate` computes batch `next` (`witness.go:148-198`), and
`SendOrder`, `SendJob` are the sends that may block; `TakeJob`, `Serialize` are
the workers; `PickNext`, `Forward`, `CloseCh` the collector; `Receive`,
`FlushRest`, `FallBack`, `PersistBatch`, `PersistRow`, `Finish` the writer.
`FallBack` may happen at any flush: which payload exceeds 16 MB is open. `Start`
is the resume: the totals of the last row plus the amounts of its batch, checked
against the row's commitment. `Crash` takes the memory and leaves the table. An
insert that the unique index refuses makes the code panic; in the model it is
disabled, so the deadlock check or `EventuallyComplete` would show it.

### UserProofService

`phase`, `current`, `tier`, `segStart`, `proofs` are the loop of `Run`; `segCh` the
channel; `segment`, `pending`, `pendingBytes`, `totalWritten` the writer. A proof is
the index of its account, so order and gaps are visible. `Compute(w)` fills the
next place of goroutine w's chunk; `SendSegment` is `wg.Wait` and the send.
`FlushFull`, `WriteAlone`, `Collect`, `FlushRest` are the branches of the writer's
loop. `CreateAccountIdIndex` and `RunPanics` are the two ends. `WitnessFinishes`
stands for the other goroutine of the process: until it has happened the process
may still be killed, also after `Run` has returned. A refused insert is disabled
here too.

### AccountTree

A hash is the pair of what it hashes, so equal hashes mean equal trees. `Copy`,
`Load`, `Swap`, `SwapFails` are the steps of `Set` with its compare-and-swap loop;
`BuildWord` computes the nodes of one word of a level; `NextLevel`, `SetRoot` wait
for all goroutines. `PropagateDirty` and `ParentLen` are the word arithmetic of
`propagateDirty` for words of `WordBits` bits. `Rounds` > 1 sets and builds again,
with other leaves, in the same tree. That some leaf is set (`CapacityAssumption`)
leaves out the early exit of `Build` for a level without a bit.

### Verifier

A row has its public values (number, tier, account range, root, totals before and
after), whether its batch commitment is their hash, and the tier whose key accepts
its proof. `Read` places the rows by number (a later row of the same number wins),
`VerifyRow(w)` and `RejectRow(w)` are a worker's loop with its cached key,
`CheckBatch`, `RejectBatch`, `Pass`, `RejectFinal` the chain check. Any panic ends
the process. `SoundnessAssumption` states what is taken from groth16 and the circuit:
if the proof is accepted for a commitment, the totals after are the totals before
plus the users' amounts. It is an assumption on `Tables`, evaluated by TLC for the
tables of the instance. Files are finite (`FilesAssumption`).

### CollateralTiers and AssetPadding

Pure operators. `ParseTiersRatio` is the host's table of a string of tiers: the
checks of `ParseTiersRatioFromStr`, the cut of a ratio to eight bits, the
precomputed sums, the padding to `TierCount` tiers that end at
`MaxTierBoundaryValue`. `HostValue` is `CalculateAssetValueViaTiersRatio` and
`HostTier` the index and flag of `calcAndSetCollateralInfo`. `TiersValid` is what
`generateRapidArithmeticForCollateral` asserts of a table, `CircuitTiers` what it
computes, `ChoiceValid` what `getAndCheckTierRatiosQueryResults` asserts of an index
and a flag that may be anything, `ChoiceValue` its result. `DefinedValue` is no code:
it is what tiers mean, each part of a value at its own tier's ratio. `ConfiguredValue`
is no code either: it is the same for a string of tiers as it is written in the file, before
the cut and the padding, and `Consistent` says which strings have one meaning (ratios
that eight bits hold, tiers that meet). `Packed` is
the part of a commitment that holds the tiers, in `ConvertTierRatiosToBytes` and
`convertTierRatiosToVariables` alike.

`PaddedIndexes` is the loop that both `PaddingAccountAssets` and
`SetBatchCreateUserCircuitWitness` have: indexes that the user does not use fill the
gaps below the ones in use, from the left, until there are enough.

### UserData

`cexFile` and `files` are the contents of the directory, `cex` the asset table,
`next` and `held` the program counter and the result of each reader, `results` the
channels, `merged` what the merger has received. `StartReaders`, `StartFails`,
`StartPanics` are the sequential part; `Read(w)`, `ReadPanic(w)`, `Send(w)` a
reader; `Merge` the merger, which waits for the reader of the next file; `Loaded` and
`LoadFails` the end. `RowOutcome` is the loop body of `ReadUserDataFromCsvFile`: the
columns up to the first problem (a column that does not convert, collaterals above
the equity, or a sum that overflows, which panics), then the debt against the
collateral. A column is an amount or `BadNumber`.

### UserBatches

`BuildTree` pads and numbers the accounts (`witness/main.go:58-83`) and fills `tree`
with their leaves; a leaf is what `AccountInfoToHash` hashes. `WriteBatch` is one
round of `Witness.Run`: the users of the next batch, the totals before and after;
`WritePanics` is `SafeAdd`. `Prove` and `ProveFails` take the next row: `Assignment` is
`SetBatchCreateUserCircuitWitness`, with the batch's tier taken from its first
user, and `CircuitAccepts` is `BatchCreateUserCircuit.Define`. A hash constraint is
equality of what is hashed; the random linear combination over a user's assets is
what it tests: that the list holds every asset that is not empty. `UserChecked` is what
the circuit checks of one user besides his leaf, for any claimed list, tiers and flags;
`Covered` is the end of it, with both sides of the comparison limited to `ValueBits` bits
(128 in the code; the host adds `big.Int`s). The concurrency
of these services is in `WitnessPipeline`, `AccountTree` and `ProofGeneration`; here
one step is one batch.

## Runs

All passing runs check for deadlock.

| run | instance and bounds | shows |
|---|---|---|
| `ProofGenerationSafety` | 2 provers, 2 batches of different tiers, 2 pushes, 1 fault, provers of both modes at any time | `FinishedHasProof`, `ProofKeysMatch`, `ProofsPermanent`, `ImplementsLedger` under every interleaving; `ReceivedIsHeld`: only a fault leaves work for `-rerun`; `PublishedIsQueued` |
| `ProofGenerationFair` | the documented procedure: all witnesses first, one push, `-rerun` when all provers have quit; 1 fault | `EventuallyAllFinished`; `StatusMonotone`, which the next runs show to need that procedure |
| `WitnessPipeline` | batches of 2 users (one padded) and of 1 user, 5 in all; channels of 2; inserts of 2; 2 kills | `BatchesChain`, `CompleteTotals`, `ImplementsLog`, `EventuallyComplete` |
| `UserProofService` | tiers of 4, 0 and 5 accounts, segments of 3, 2 goroutines, a channel of 2 segments, one row above the payload limit; 3 kills | `CountIsStored`, `InsertFits`, `IndexOverComplete`, `PanicOnlyOverIndex`, `ImplementsLog`, `EventuallyIndexed` |
| `Verifier` | 4 batches, 3 workers (the last without work), 80 tables, 6 declarations | `VerdictRight`, `PassIsSolvent`, `EventuallyVerdict` |
| `UserBatches` | 2 readers; 11 asset files (a ratio of 150, one of 300, a boundary above the greatest, falling boundaries, too many tiers, an empty tier, all collaterals counted whole...), of 3 assets and a reserved one; all pairs of 15 kinds of rows around a third file, and 8 other sets of 0 to 5 files; tiers of 2 assets (2 users a batch) and 4 assets (1 user) | `MergedInOrder`, `LoadedAllValid`, `OneCollateralValue`, `ValuedAsConfigured`, `RefusedOnlyFor`, `TotalsAreTrue`, `ProvedIsCovered`, `CommitmentFixesTiers` |
| `AccountTree` | depth 4, tiers of 7, 0 and 4 accounts in 3 words of 4 bits, 3 goroutines, 2 rounds | `BuiltIsMerkle`, `ProofsVerify`, `EventuallyBuilt` |

Runs that TLC is to refute, each a statement of the repository that the code does
not keep (quoted under "findings" in `PROJECT.json`):

| run | refuted | why |
|---|---|---|
| `ProverQuitMessage` | "there is no published status witness in db, so quit" | the query was for one height only |
| `PushPaging` | "no more witness data" after paging: everything published is queued | OFFSET over a set that provers shrink meanwhile |
| `DuplicateTask` | a row's life is received, then finished | SELECT without a lock and UPDATE without a condition |
| `UserProofRestart` | recovery from an unexpected crash | ADD INDEX fails when the index is there |
| `AccountTreeReads` | "GetProof/Root only reflect Sets that were followed by a Build()" | level 0 is read from the leaf buffer |

The bounds. Two provers are enough for each pairwise race on a row, and the third
party of a race is the pusher or the witness service; two batches of two tiers
make a cached key wrong; one fault can hit each statement of each process in every
state, and the tables have no memory of faults beyond their rows. A page of two
rows holds both batches, as 1024 rows hold any set that is pushed before provers
run, in whatever order they come; `PushPaging` takes a page of one and rows in the order of
heights, so that what it shows is not due to the missing order. Channels of two, inserts of two and five
batches make every channel full and empty, leave a rest for the last flush, and
put a kill inside and between inserts, in both tiers; the second kill hits a
resumed process. In `AccountTree` three goroutines share words at both ends of their
chunks, and halving three words gives two and then one, the odd case of `ParentLen`.
In `Verifier` each altered table differs from the honest one in one value, or in one
value and the proof of it, so that most are refused by a single check.
In `UserBatches` a table has 2 tiers, a boundary 4 bits, a value in the circuit 5 bits and
a total at most 15: the
readers' three files of which one is always waited for, both sides of every
boundary, and sums one below and one above the limit, all occur, and so does each of the three
reasons of `RefusedOnlyFor` without the other two: several collaterals that are each
below the greatest boundary exceed the 5 bits together. The multiplier of
a boundary is 3, so that parts of a value between boundaries round, and it does not
divide the greatest boundary, as 10^16 does not divide 2^118. `OneCollateralValue`
tries every value up to one above the greatest boundary with every index and flag,
those that no prover would choose included. `UserBatches` has no liveness property:
every step but `Done` consumes input, and the deadlock check shows that `Done` is
the only end, with readers, channels and merger never waiting on each other.

Fairness. In `ProofGeneration` a prover and the pusher, once started, run until they
end (weak fairness of each process: the operating system schedules it and statements
return), and operators start `-rerun` again and again (strong fairness: starting is
possible whenever all provers are down, which may come and go). This is what the
README and `check_prover_status.py` tell the operator to do; without it lost tasks
stay lost, and nothing in the code promises otherwise. In the services weak
fairness is that of goroutines, and of a supervisor that starts a killed process
again (`src/scripts/witness_recovery_test.sh` does that). Kills and faults are
bounded and never fair: a service killed for ever finishes nothing. In
`Verifier` and `AccountTree` only goroutines are fair.

## Theorems

`ProofGeneration_proofs` holds for all numbers of batches, provers, tiers, rows per
insert and per page, pushes and faults, with and without `EarlyPush`, `Mixed` and `ByHeight`. Its
assumptions: the number of batches and the size of a page are natural numbers, every
batch has a tier, and `None` is neither a height, a tier nor a proof (`CountAssumption`,
`PageAssumption`, `TierAssumption`, `NoneAssumption`, evaluated by TLC in every run of
the module). Two theorems have hypotheses of their own, named below.

* `TypeCorrect`: types, together with `TaskOK` (a prover past its fetch works on a row
  that exists), without which types are not inductive: `Prove` looks up the tier of
  `task[p]`.
* `ProofsAreSafe`: `FinishedHasProof` and `ProofKeysMatch`. Neither is inductive:
  `MarkFinished` has no guard on the proof table. The strengthening `MarkIsEarned` says
  that a prover at "finish" has a stored proof for its row; it survives the other
  provers because proofs are never removed.
* `ProofsAreForever`: no step changes a stored proof. The unique index does it: the
  lookup before the insert may be stale.
* `NoOrphans`: `ReceivedIsHeld`. The interesting steps are `UpdateReceived`, which may
  take back a finished row, and `CreateProof`, by which another prover at "create" for
  the same row loses its claim: the one that has stored the proof then holds the row.
* `TablesAreLedger`: refinement of `ProofLedger`. Inserting a proof is `Record`, marking
  is `Mark` (by `MarkIsEarned`), taking back is `Unmark`, and everything else stutters.

* `KeysMatch`: the second half of `ProofsAreSafe` by itself.
* `NothingForgotten` (`PublishedIsQueued`), if a page holds all rows and nothing is
  pushed before the witnesses are complete. The first is needed: the run `PushPaging` shows
  a row that no page has when the table is longer than a page, because the offset
  counts rows that are no longer published. `PublishedIsQueued` speaks only of the time
  after a push; `PushInv` says in addition that a published row is on its way while the
  pusher is at work: in the queue, in the page it holds, or still to be queried with
  offset 0. That the one page has every published row, in whatever order the query returns
  them, is `OnePage`, by the ranks of the rows (`RankBound`).
* `RowsGoForward` (`StatusMonotone`), with one push at most, `-rerun` started only when
  the provers have quit, and either a page that holds all rows or pages in the order of
  heights, whatever is lost or crashes. Without the last hypothesis the query may give a
  row in two pages, and its second task is a duplicate. The run `DuplicateTask` shows a
  status going back after two pushes, and provers of both modes at a time take each
  other's rows. The step that could go back is `UpdateReceived`, whose UPDATE does not
  look at the status again. `OnceInv` says why it need not: a height is at one place at
  most, in the queue, in the page or with one prover, each counted once (`TaskOnce`); no
  later page has it again, because there is none (`AllPaged`) or its rank among those
  still published stays below the offset (`PushOnce`, `PageBehind`, `PageIs`); all provers have the same mode (`OneMode`);
  and the row of a prover before its UPDATE is still published (`TakenOnce`).

`Verifier_proofs` holds for any tables and declarations that `SoundnessAssumption` and
`FilesAssumption` allow, any number of rows, assets and workers.

* `RightVerdict`: `VerdictRight`. The invariant `IInv` says of every worker that the
  rows of its range behind `at` are checked (`Worked`), and of the chain that all
  batches before `batch` link (`Chained`). Three facts carry it: the ranges cover all
  batches, whatever the rounding (`RangesCover`); a cached key is always that of the
  row's tier, so what a worker accepts does not depend on its history; and a table
  with as many rows as numbers that has every number has each once (`OnceEach`,
  counting), so placing by number loses no row that a complete table has.
* `Solvency`: `PassIsSolvent`, from `RightVerdict`: in a complete table the totals
  before batch n are the users' amounts of the first n batches.
* `TypeCorrect`: `TypeOK`.

`WitnessPipeline_proofs` holds for any numbers of users per tier (zero included), any
batch, channel and insert sizes, any finite set of workers and any number of kills
(`TiersAssumption`, `SizeAssumption`; `NoneAssumption` keeps `None` apart from rows).

* The invariant `IInv`: every batch is in one place, in order, from the table back to
  the main loop. `Placing(n)` says that the table holds the witnesses of the first n
  batches, the writer's batch those that come next, then `ch`, then the batch whose
  result the collector waits for, then the heights in `orderCh`, up to `next`. Jobs and
  results, wherever they are, are `Entry(i)`, the witness of an uninterrupted run: the
  totals are copied when a batch is computed, so it does not matter when it is
  serialized. `TypeOK` alone says nothing of the order, and `ImplementsLog` needs it
  because the table takes whatever comes out of `ch`.
* `RowsChain` (`BatchesChain`): with `IInv` it is about `Entry(h)` and `Entry(h+1)` only.
  That the account ranges meet, also at the end of a tier and across tiers without
  batches, is `AccountsChain`: `TierOf` picks the one tier that holds a batch, and
  empty tiers have no accounts.
* `LastIsComplete` (`CompleteTotals`), `TypeCorrect` (`TypeOK`).
* `TableIsLog`: refinement of `DurableLog`. The table is `FirstRows(m)` before and
  `FirstRows(n)` after a step, and no step removes a row (`RowsStay`).

`UserProofService_proofs` holds for any tiers, segment sizes, goroutines, payloads and
kills. `IInv` has the same form: the rows of the table, the pending rows, the segment in
hand and the segments of the channel are the accounts in their order, without gap,
up to the loop's own position (`StreamRight`).

* `ResumeIsRight` (`CountIsStored`), `CountsAgree` (`PanicOnlyOverIndex`),
  `IndexedIsComplete` (`IndexOverComplete`), `TypeCorrect` (`TypeOK`), and `TableIsLog`, the
  refinement of `DurableLog`. That the goroutines' chunks, whose size is rounded up,
  cover a segment is `ChunksCover`.
* `InsertsFit` (`InsertFits`): the count of pending bytes is the sum over the pending
  rows at every place of the writer's loop, also after a flush that fails half way and
  after a row that is written alone. `InsertFits` alone does not say what
  `pendingBytes` is, and the writer decides by it.

`CollateralTiers_proofs` and `UserBatches_proofs` hold for all numbers of tiers, bits,
assets, readers, and all files. Assumptions: the constants are natural numbers and not 0
where they count something; `TierCount` is even (`EvenAssumption`: `constants.go` says
"must be even number"); the asset tiers are numbers of assets, the greatest all of them
(`TiersAssumption`; `AssetCountsTiers` in `constants.go`); the greatest boundary is no
multiple of the `valueMultiplier` (`GreatestAssumption`: a power of 2 and a power of 10);
`ValueRange`, the power of 2 of the circuit's check, is a number (`ValueAssumption`);
the files hold strings of tiers and rows of numbers or `BadNumber`, a row for no more
assets than the asset table has (its columns are looked up there).

* `AcceptedIsDefined`, `HostIsDefined`, `HostTierAccepted`, `DefinedAtMostValue`,
  `ParsedIsCircuit`: the argument is that a value of tier i is the sum of the whole
  tiers below and of its part of tier i, and that boundaries rise, so the parts of all
  other tiers are whole or empty; `ChoiceValid` pins the tier down as soon as the value
  is not 0. Of `HostIsDefined` only rising boundaries are a hypothesis (`Rising`), not ratios
  up to 100. `OneValue` (`OneCollateralValue`) needs besides that every table of a
  loaded state is one that was parsed (an invariant of the loader).
* `ParsedAsConfigured`, `AsConfigured` (`ValuedAsConfigured`): the table of a string values as
  the string says, whatever the number of tiers, with two exceptions that the code lets
  pass: a ratio above 255, which `uint8` makes another one, and a low end that is not
  the end of the tier before, which is parsed and then not used. `OneCollateralValue` cannot
  see either, because all its parties work on the table after the cut.
* `PackedIsUnique`: two tiers can be read off their packing, digit by digit
  (`Digits`), if the first boundary is below the greatest one. Exactly this hypothesis
  fails for padding in first place. `PackedFixes` goes through the pairs: a pair whose
  first boundary is the greatest carries a 1 into the ratio of the second (`PairsTop`), so
  it packs like a pair whose second tier has the greatest boundary and the ratio 1. No
  table that can be loaded has such a tier: the greatest boundary is padding there, with
  the ratio 0. So loadable tables (`ParsedLoadable`: what parses is `Loadable`) have
  different packings.
  `CommitmentFixes` (`CommitmentFixesTiers`) applies this to every loaded table.
* `Coverage`: `ProvedIsCovered` and `AnyClaimIsCovered`. The second speaks of the circuit and
  not of the batches that the prover happens to build: in every state whose tables the
  circuit accepts, for any account that holds amounts of assets, any tier and any claim
  of a list of assets, tiers and flags, an account that passes `UserChecked` is covered at
  the value that the tiers define (`CheckedIsCovered`). A sum over the claimed list is
  a sum over the account's assets, because what is not in the list is empty
  (`ListSums`), an empty asset counts for nothing (`DefinedOfNothing`), and an accepted
  choice gives the defined value (`AcceptedIsDefined`). For `ProvedIsCovered` `BatchInv` says
  of a proved row only that some tier and some assignment were accepted, besides that
  the rows are those of the first batches (`OpsOf`). The circuit's tables are those of
  the loaded state for ever.
* `TotalsTrue`: `TotalsAreTrue`. `TotalsInv` says that at any time each part of the totals
  (equity, debt, each collateral of each asset) is the sum over the batches written so
  far; after a panic the sum with the next batch does not fit. The rest is algebra:
  the batches of a tier cut its accounts into blocks (`TierBatches`, by `SumBlocks`), each
  batch number belongs to one tier (`PlaceUnique`), so all batches together are all
  accounts of all tiers (`BatchesPart`, by `SumClasses`); padding accounts and numbering add
  nothing (`TierPart`); and the accounts of the tiers are the valid rows of the files, each
  in one tier (`FilesPart`, which swaps the sums over tiers and over rows). All rows are valid
  once the files are loaded (`MergedValid`).
* `NothingElseRefused`: `RefusedOnlyFor`. `RefuseInv` keeps that the rows hold totals
  that fit, that the tree is the one of the loaded accounts (`TreeBuilt`), and the
  reasons why a proof failed. Every account of a tier is `Provable` (`UserProvable`,
  `PaddingProvable`): its padded list, the tiers it claims, its sums and its hash are what the
  circuit computes from the same assets. Numbers are unique (`NumbersUnique`), so the leaf
  that the circuit asks for is the account's own (`TreeLeaf`); the first account of a batch
  is a user and never padding (`FirstIsUser`, by `PaddingFills`), so the batch is proved by
  the circuit of its tier. A user whose collateral fits `ValueBits` has a debt that
  fits as well, since loading has compared the two (`WithinBits`). Then nothing but the three
  reasons is left (`Reasons`, `ClaimValid`, `BatchAccepted`, `WhyItFails`): a ratio above 100, a
  collateral beyond the greatest boundary, and a user whose collaterals together
  exceed 128 bits. The last needs no single great collateral: 500 assets with three kinds
  each, all just below 2^118 and counted whole, are enough, and the host has no limit
  for the sum.
* `PaddedListIs`, `PaddedNothing`: the padding loop, for every set of used assets. The loop
  invariant `Placed` says, after i assets, how long the list is, that it rises, which assets
  it has, and that a list with padding left has no gap; one round keeps it (`RoundPlaces`).
  `PlacesExist` and `AscendingIs` make the fold and the order of the columns accessible to
  this argument.
* `InOrder`: `MergedInOrder`. The invariant says which file each reader's next, held and
  sent results belong to; since reader w has the files w, w + WorkersNum, ..., the
  channel of reader i % WorkersNum holds result i when the merger comes to it.
* `AllValid`: `LoadedAllValid`; with `InOrder`, a row is counted if and only if it is
  not valid. `Types`: `TypeOK`, the limit of the totals included.

`AccountTree_proofs` holds for any depth, any tiers whose accounts fit below the root
(empty ones included) with at least one account, any even word size, any number of
goroutines and of rounds (`SizeAssumption`, `CapacityAssumption`).

* The invariant `IInv` has a part for each phase. While leaves are set (`SetRight`): all
  accounts of the tiers before, and those that a goroutine has passed in its chunk, are
  copied and marked; one between its copy and its mark has copied. `Swap` keeps it
  because it adds its bit to the word as it is at that moment, so no mark of another
  goroutine is lost. `TierDone` concludes, with chunks that cover the tier whatever the
  rounding (`ChunksCover`), that no leaf is left out. While levels are built
  (`BuildRight`): all levels below are those of the Merkle tree, no bit set means that
  nothing is below, and the words that are passed are right. `BuiltIsMerkle` alone
  speaks of no moment before the tree is built.
* `PropagateIs`: after `PropagateDirty` a bit of the parent is set exactly if one of the
  two bits below it is, and there are enough words (`ParentLenIs`, the odd case); a bit
  that got lost would cut off the nodes below it.
* `RootIsMerkle` (`BuiltIsMerkle`), `TypeCorrect` (`TypeOK`), and `ProofsVerified`
  (`ProofsVerify`): by `ClimbVerifies`, the node that a leaf and the proof lead to is
  that of the tree at one level exactly if it is at the level below, as a hash is
  injective in both arguments.

The library's induction theorems take an operator as a parameter, which the provers
cannot instantiate. Where a recursive function is involved (`PrefixSums`, `Sum`, `StartBatch`,
`FirstAccount`, `AccountsBefore`, `Merkle`, `NilHashes`, `Climb`) the
proofs argue with the least natural number that is a counterexample: `NumberFacts`
derives its existence once. For finite sets `SetInduction` does the same with a set of
subsets in place of a predicate. That a recursion has a solution is a lemma of its own
each time (`SumsExist`, `RunningSumsExist`, `SetSumsExist`, `FlattensExist`, `TreeExists`,
`PlacesExist`). From
`SetSumsExist` `NumberFacts` derives what the models need of `SumFunction`: taking one out,
order, union, zeros, swapping, classes, shifting, blocks. Where such a lemma has many
premises they have a name (`InClasses`, `InBlocks`, `RowsAndColumns`, `ShiftedBy`).

Every safety invariant and action property of the passing runs is a theorem. Only
model-checked: the liveness properties (outside the prover's reach, as is ENABLED).

## Not modelled

* groth16, Poseidon, gnark, MySQL, Redis: libraries and services. They appear by what
  the code uses: a proof is accepted by its tier's key, a hash is injective, an insert
  is atomic and a unique index refuses duplicates, BRPOP takes the oldest task.
* Field arithmetic: no value that the circuit computes wraps around at the widths that
  its range checks allow, and hashes and commitments are injective in what is written
  to them, except for the packing of tiers, which is modelled.
* Of the user files: names and order of columns (the header of the first file counts
  for all), conversion of a decimal string (a number, or `BadNumber`), a missing file,
  a malformed line or account id (a panic or an error before anything is used).
* The verifier's user mode, one call of `VerifyMerkleProof`; its hash mode.
* `check_prover_status.py`: starting `-rerun` while provers are at work is part of
  `ProofGeneration` (`Mixed`); its waiting times and its counter of attempts are not.
* `dbtool -delete_all_data`: the modules describe one data set, from empty tables.
* JSON parsing, logging, key generation, configuration, secrets, sample data:
  formatting and I/O without a state the properties could be about.
* `GetAndUpdateBatchesWitnessByStatus` and the other model methods that nothing calls.

## Open

1. The status script's counters and `delete_all` between two data sets.
2. A composition of table, export and verifier: what `ProofGeneration` completes from
   the witnesses of `UserBatches` is what the verifier passes.
