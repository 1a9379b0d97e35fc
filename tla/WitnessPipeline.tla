-------------------------- MODULE WitnessPipeline --------------------------
(***************************************************************************)
(* The witness service: Witness.Run computes the batches one after the     *)
(* other, a pool of workers serializes them in parallel, a collector puts  *)
(* the results back in order, and a writer inserts them into the witness   *)
(* table several rows at a time.  The process may be killed at any moment  *)
(* and resumes from the last row of the table.                             *)
(***************************************************************************)
EXTENDS Integers, Sequences, FiniteSets

CONSTANTS
    Users,      \* number of users of each asset tier, smallest tier first
    Ops,        \* users per batch of each tier (BatchCreateUserOpsCountsTiers)
    Workers,    \* serialize workers; both dispatch channels buffer as many
    ChCap,      \* capacity of the channel to the writer (100)
    DbBatch,    \* rows per insert (defaultDBBatchSize)
    None,       \* no job, no row
    MaxCrashes  \* bound: how often the process is killed

ASSUME TiersAssumption ==
    /\ Users \in Seq(Nat) /\ Ops \in Seq(Nat \ {0}) /\ Len(Users) = Len(Ops)
ASSUME SizeAssumption ==
    IsFiniteSet(Workers) /\ ChCap \in Nat \ {0} /\ DbBatch \in Nat \ {0}

\* PaddingAccounts fills the last batch of a tier up.
Batches(t) == (Users[t] + Ops[t] - 1) \div Ops[t]

\* Over the tiers before t: their batches, and their accounts after padding.
StartBatch[t \in 1 .. Len(Users) + 1] ==
    IF t = 1 THEN 0 ELSE StartBatch[t-1] + Batches(t-1)
FirstAccount[t \in 1 .. Len(Users) + 1] ==
    IF t = 1 THEN 0 ELSE FirstAccount[t-1] + Batches(t-1) * Ops[t-1]

\* GetBatchNumber
BatchNumber == StartBatch[Len(Users) + 1]
Heights == 0 .. BatchNumber - 1

TierOf(i) == CHOOSE t \in 1 .. Len(Users) : StartBatch[t] <= i /\ i < StartBatch[t+1]

\* Mutant: the number of a batch is not made relative to its tier.
MinAccountAbsolute(i) == FirstAccount[TierOf(i)] + i * Ops[TierOf(i)]

MinAccount(i) == FirstAccount[TierOf(i)] + (i - StartBatch[TierOf(i)]) * Ops[TierOf(i)]
MaxAccount(i) == MinAccount(i) + Ops[TierOf(i)] - 1

----------------------------------------------------------------------------
(* The totals of the exchange, cexAssets: how often the amounts of each    *)
(* batch have been added to them.  A commitment names what it commits to.  *)

Totals == [Heights -> 0 .. 2]
NoTotals == [h \in Heights |-> 0]
AddBatch(t, i) == [t EXCEPT ![i] = @ + 1]
Commitment(t) == [of |-> t]

\* The witness of batch i, computed when the totals are t.
Witness(i, t) ==
    [height |-> i, min |-> MinAccount(i), max |-> MaxAccount(i), before |-> t,
     beforeCommitment |-> Commitment(t), afterCommitment |-> Commitment(AddBatch(t, i))]

WitnessRows ==
    [height : Heights, min : Nat, max : Nat, before : Totals,
     beforeCommitment : [of : Totals], afterCommitment : [of : Totals]]

ASSUME NoneAssumption == None \notin Heights \cup WitnessRows

VARIABLES
    table,    \* the witness table: the row of each height, or None
    running,  \* is the process alive, and its witness service not finished?
    totals,   \* w.cexAssets
    next,     \* the next batch of the main loop
    step,     \* its next statement: "generate", "order", "job" or "closed"
    job,      \* the batch being dispatched
    orderCh,  \* heights in submission order
    jobCh,    \* jobs for the workers
    held,     \* the job each worker serializes
    done,     \* the result in the done channel of each height
    picked,   \* the height whose result the collector waits for
    ch,       \* rows on their way to the writer
    chClosed, \* has the collector closed ch?
    batch,    \* rows the writer has not inserted yet
    single,   \* has it fallen back to dbBatchSize = 1?
    flushing, \* is it inserting the batch?
    crashes

mainVars == <<totals, next, step, job>>
dispatchVars == <<orderCh, jobCh, held, done, picked>>
writerVars == <<ch, chClosed, batch, single, flushing>>
vars == <<table, running, mainVars, dispatchVars, writerVars, crashes>>

Stored == {h \in Heights : table[h] # None}

Init ==
    /\ table = [h \in Heights |-> None]
    /\ running = FALSE
    /\ totals = NoTotals /\ next = 0 /\ step = "generate" /\ job = None
    /\ orderCh = <<>> /\ jobCh = <<>> /\ picked = None
    /\ held = [w \in Workers |-> None]
    /\ done = [h \in Heights |-> None]
    /\ ch = <<>> /\ chClosed = FALSE
    /\ batch = <<>> /\ single = FALSE /\ flushing = FALSE
    /\ crashes = 0

\* The memory of a process that is about to compute batch n from totals t.
Memory(t, n) ==
    /\ totals' = t /\ next' = n /\ step' = "generate" /\ job' = None
    /\ orderCh' = <<>> /\ jobCh' = <<>> /\ picked' = None
    /\ held' = [w \in Workers |-> None]
    /\ done' = [h \in Heights |-> None]
    /\ ch' = <<>> /\ chClosed' = FALSE
    /\ batch' = <<>> /\ single' = FALSE /\ flushing' = FALSE

----------------------------------------------------------------------------
(* Start of the service: resume after the latest row.                      *)

\* The height of the latest row, -1 without one.
Latest == IF Stored = {} THEN -1 ELSE CHOOSE h \in Stored : \A g \in Stored : g <= h

\* RecoverAfterCexAssets adds the batch's amounts to the totals before it.
RecoverAfterCexAssets(w) == AddBatch(w.before, w.height)

Start ==
    /\ ~running /\ Latest # BatchNumber - 1
    /\ running' = TRUE
    /\ IF Stored = {} THEN Memory(NoTotals, 0)
       ELSE /\ Commitment(RecoverAfterCexAssets(table[Latest])) = table[Latest].afterCommitment
            /\ Memory(RecoverAfterCexAssets(table[Latest]), Latest + 1)
    /\ UNCHANGED <<table, crashes>>

\* "already generate all accounts witness"
AlreadyGenerated ==
    /\ ~running /\ Latest = BatchNumber - 1
    /\ UNCHANGED vars

\* The process dies, with or without the insert it has just sent.
Crash ==
    /\ running /\ crashes < MaxCrashes
    /\ running' = FALSE /\ Memory(NoTotals, 0)
    /\ crashes' = crashes + 1
    /\ UNCHANGED table

----------------------------------------------------------------------------
(* The main loop.                                                          *)

Generate ==
    /\ running /\ step = "generate" /\ next < BatchNumber
    /\ job' = Witness(next, totals)
    /\ totals' = AddBatch(totals, next)
    /\ step' = "order"
    /\ UNCHANGED <<table, running, next, dispatchVars, writerVars, crashes>>

\* Mutant: the order channel is not bounded.
SendOrderUnbounded ==
    /\ step = "order"
    /\ orderCh' = Append(orderCh, job.height)
    /\ step' = "job"
    /\ UNCHANGED <<table, running, totals, next, job, jobCh, held, done, picked, writerVars, crashes>>

SendOrder ==
    /\ step = "order" /\ Len(orderCh) < Cardinality(Workers)
    /\ orderCh' = Append(orderCh, job.height)
    /\ step' = "job"
    /\ UNCHANGED <<table, running, totals, next, job, jobCh, held, done, picked, writerVars, crashes>>

SendJob ==
    /\ step = "job" /\ Len(jobCh) < Cardinality(Workers)
    /\ jobCh' = Append(jobCh, job)
    /\ job' = None /\ next' = next + 1 /\ step' = "generate"
    /\ UNCHANGED <<table, running, totals, orderCh, held, done, picked, writerVars, crashes>>

\* The loop ends: jobCh and orderCh are closed.
CloseJobs ==
    /\ running /\ step = "generate" /\ next = BatchNumber
    /\ step' = "closed"
    /\ UNCHANGED <<table, running, totals, next, job, dispatchVars, writerVars, crashes>>

----------------------------------------------------------------------------
(* serializeWorker and the collector.                                      *)

TakeJob(w) ==
    /\ jobCh # <<>> /\ held[w] = None
    /\ held' = [held EXCEPT ![w] = Head(jobCh)]
    /\ jobCh' = Tail(jobCh)
    /\ UNCHANGED <<table, running, mainVars, orderCh, done, picked, writerVars, crashes>>

\* Mutant: BeforeCexAssets aliases the totals instead of copying them.
SerializeAlias(w) ==
    /\ held[w] # None
    /\ done' = [done EXCEPT ![held[w].height] = [held[w] EXCEPT !.before = totals]]
    /\ held' = [held EXCEPT ![w] = None]
    /\ UNCHANGED <<table, running, mainVars, orderCh, jobCh, picked, writerVars, crashes>>

Serialize(w) ==
    /\ held[w] # None
    /\ done' = [done EXCEPT ![held[w].height] = held[w]]
    /\ held' = [held EXCEPT ![w] = None]
    /\ UNCHANGED <<table, running, mainVars, orderCh, jobCh, picked, writerVars, crashes>>

PickNext ==
    /\ picked = None /\ orderCh # <<>>
    /\ picked' = Head(orderCh)
    /\ orderCh' = Tail(orderCh)
    /\ UNCHANGED <<table, running, mainVars, jobCh, held, done, writerVars, crashes>>

\* Mutant: results are forwarded as they become ready.
ForwardReady ==
    /\ picked # None /\ Len(ch) < ChCap
    /\ \E h \in Heights :
        /\ done[h] # None
        /\ ch' = Append(ch, done[h])
        /\ done' = [done EXCEPT ![h] = None]
    /\ picked' = None
    /\ UNCHANGED <<table, running, mainVars, orderCh, jobCh, held, chClosed, batch, single, flushing, crashes>>

Forward ==
    /\ picked # None /\ done[picked] # None /\ Len(ch) < ChCap
    /\ ch' = Append(ch, done[picked])
    /\ done' = [done EXCEPT ![picked] = None]
    /\ picked' = None
    /\ UNCHANGED <<table, running, mainVars, orderCh, jobCh, held, chClosed, batch, single, flushing, crashes>>

CloseCh ==
    /\ step = "closed" /\ orderCh = <<>> /\ picked = None /\ ~chClosed
    /\ chClosed' = TRUE
    /\ UNCHANGED <<table, running, mainVars, dispatchVars, ch, batch, single, flushing, crashes>>

----------------------------------------------------------------------------
(* WriteBatchWitnessToDB.                                                  *)

DbBatchSize == IF single THEN 1 ELSE DbBatch

\* A full batch is flushed.
Receive ==
    /\ ch # <<>> /\ ~flushing
    /\ batch' = Append(batch, Head(ch))
    /\ ch' = Tail(ch)
    /\ flushing' = (Len(batch') >= DbBatchSize)
    /\ UNCHANGED <<table, running, mainVars, dispatchVars, chClosed, single, crashes>>

\* Mutant: what is left is dropped.
DropRest ==
    /\ chClosed /\ ch = <<>> /\ ~flushing /\ batch # <<>>
    /\ batch' = <<>>
    /\ UNCHANGED <<table, running, mainVars, dispatchVars, ch, chClosed, single, flushing, crashes>>

\* What is left when ch is closed and drained is flushed.
FlushRest ==
    /\ chClosed /\ ch = <<>> /\ ~flushing /\ batch # <<>>
    /\ flushing' = TRUE
    /\ UNCHANGED <<table, running, mainVars, dispatchVars, ch, chClosed, batch, single, crashes>>

\* The payload of the batch exceeds 16MB: from now on rows go one by one.
FallBack ==
    /\ flushing /\ ~single
    /\ single' = TRUE
    /\ UNCHANGED <<table, running, mainVars, dispatchVars, ch, chClosed, batch, flushing, crashes>>

\* One insert: all of the rows or none; the unique index on the height refuses
\* a row that is there already.
CreateBatchWitness(rows) ==
    /\ \A r \in rows : table[r.height] = None
    /\ table' = [h \in Heights |->
                    IF \E r \in rows : r.height = h THEN CHOOSE r \in rows : r.height = h
                    ELSE table[h]]

PersistBatch ==
    /\ flushing /\ ~single
    /\ CreateBatchWitness({batch[i] : i \in 1 .. Len(batch)})
    /\ batch' = <<>> /\ flushing' = FALSE
    /\ UNCHANGED <<running, mainVars, dispatchVars, ch, chClosed, single, crashes>>

PersistRow ==
    /\ flushing /\ single
    /\ CreateBatchWitness({Head(batch)})
    /\ batch' = Tail(batch) /\ flushing' = (Tail(batch) # <<>>)
    /\ UNCHANGED <<running, mainVars, dispatchVars, ch, chClosed, single, crashes>>

\* The writer reports to quit, and Run returns.
Finish ==
    /\ running /\ chClosed /\ ch = <<>> /\ batch = <<>>
    /\ running' = FALSE /\ Memory(NoTotals, 0)
    /\ UNCHANGED <<table, crashes>>

----------------------------------------------------------------------------
Main == Generate \/ SendOrder \/ SendJob \/ CloseJobs
Pool == \E w \in Workers : TakeJob(w) \/ Serialize(w)
Collector == PickNext \/ Forward \/ CloseCh
Writer == Receive \/ FlushRest \/ PersistBatch \/ PersistRow \/ Finish

Next == Start \/ AlreadyGenerated \/ Crash \/ Main \/ Pool \/ Collector \/ Writer \/ FallBack

Spec == Init /\ [][Next]_vars

\* Goroutines are scheduled, inserts return, and the service is started again.
FairSpec ==
    /\ Spec
    /\ WF_vars(Start) /\ WF_vars(Main) /\ WF_vars(Collector) /\ WF_vars(Writer)
    /\ \A w \in Workers : WF_vars(TakeJob(w) \/ Serialize(w))

----------------------------------------------------------------------------
(* Properties.                                                             *)

\* The table and the memory of the process hold values of their types.
TypeOK ==
    /\ table \in [Heights -> WitnessRows \cup {None}]
    /\ running \in BOOLEAN
    /\ totals \in Totals
    /\ next \in 0 .. BatchNumber
    /\ step \in {"generate", "order", "job", "closed"}
    /\ job \in WitnessRows \cup {None}
    /\ orderCh \in Seq(Heights) /\ Len(orderCh) <= Cardinality(Workers)
    /\ jobCh \in Seq(WitnessRows) /\ Len(jobCh) <= Cardinality(Workers)
    /\ held \in [Workers -> WitnessRows \cup {None}]
    /\ done \in [Heights -> WitnessRows \cup {None}]
    /\ picked \in Heights \cup {None}
    /\ ch \in Seq(WitnessRows) /\ Len(ch) <= ChCap
    /\ chClosed \in BOOLEAN
    /\ batch \in Seq(WitnessRows) /\ Len(batch) <= DbBatch
    /\ single \in BOOLEAN /\ flushing \in BOOLEAN
    /\ crashes \in Nat

\* What the verifier demands of consecutive batches: each starts from the
\* totals and at the account where the one before it ended, also across a
\* restart of the service.
BatchesChain ==
    \A h \in Stored : h + 1 \in Stored =>
        /\ table[h+1].beforeCommitment = table[h].afterCommitment
        /\ table[h+1].min = table[h].max + 1

\* When the last batch is there, every batch is, and the totals it commits to
\* count every batch once.
CompleteTotals ==
    BatchNumber - 1 \in Stored =>
        /\ Stored = Heights
        /\ table[BatchNumber - 1].afterCommitment = Commitment([h \in Heights |-> 1])

\* The service finishes with every batch in the table, whatever is killed.
EventuallyComplete == <>(Stored = Heights)

\* The witnesses of an uninterrupted run, one for each height.
TotalsBefore(i) == [h \in Heights |-> IF h < i THEN 1 ELSE 0]
Entry(i) == Witness(i, TotalsBefore(i))
TableLog == [n \in 1 .. Cardinality(Stored) |-> table[n-1]]
Log == INSTANCE DurableLog WITH
    Entries <- [n \in 1 .. BatchNumber |-> Entry(n - 1)],
    log <- TableLog

\* The table holds a prefix of what an uninterrupted run writes.
ImplementsLog == Log!LogSpec

=============================================================================
