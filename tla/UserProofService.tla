-------------------------- MODULE UserProofService --------------------------
(***************************************************************************)
(* The user proof service: UserProofService.Run computes the proofs of the *)
(* accounts segment by segment, each segment in parallel, and a writer     *)
(* inserts them into the userproof table; an index is built when all rows  *)
(* are there.  It shares its process with the witness service: when either *)
(* dies both do, and the process is started again.                         *)
(***************************************************************************)
EXTENDS Naturals, Sequences, FiniteSets, Functions

CONSTANTS
    Accounts,    \* number of accounts of each asset tier, padding included
    SegmentSize, \* accounts per segment (10000)
    SegBuffer,   \* capacity of the channel to the writer (2)
    Workers,     \* number of goroutines that compute a segment
    RowBytes,    \* estimated payload of the row of each account
    MaxBytes,    \* most payload one insert collects (4 MiB)
    None,        \* no row
    MaxCrashes   \* bound: how often the process is killed

ASSUME TiersAssumption == Accounts \in Seq(Nat)
ASSUME SizeAssumption ==
    {SegmentSize, SegBuffer, Workers} \subseteq Nat \ {0} /\ MaxBytes \in Nat

\* The accounts of the tiers before t; AccountIndex runs through the tiers.
AccountsBefore[t \in 1 .. Len(Accounts) + 1] ==
    IF t = 1 THEN 0 ELSE AccountsBefore[t-1] + Accounts[t-1]
TotalAccounts == AccountsBefore[Len(Accounts) + 1]
Ids == 0 .. TotalAccounts - 1

ASSUME BytesAssumption == RowBytes \in [Ids -> Nat]
ASSUME NoneAssumption == None \notin Ids

VARIABLES
    table,        \* the userproof table: the row of each account, or None
    index,        \* does the table have the index idx_str?
    phase,        \* where Run is; "down": no process, "panic": it panicked
    current,      \* currentAccountCounts
    tier,         \* the tier of the outer loop
    segStart,     \* segStart of the inner loop, counted from startIdx
    proofs,       \* the segment being computed: a row, or None, per place
    segCh,        \* segments on their way to the writer
    segment,      \* what the writer has left of the segment it works on
    pending,      \* rows it has not inserted yet
    pendingBytes, \* their payload
    totalWritten,
    witnessDone,  \* has the witness service of the same process finished?
    crashes

tables == <<table, index>>
loopVars == <<phase, current, tier, segStart, proofs>>
writeVars == <<segment, pending, pendingBytes, totalWritten>>
vars == <<tables, loopVars, segCh, writeVars, witnessDone, crashes>>

Stored == {i \in Ids : table[i] # None}
Alive == phase \notin {"down", "panic"}

Init ==
    /\ table = [i \in Ids |-> None] /\ index = FALSE
    /\ phase = "down" /\ current = 0 /\ tier = 1 /\ segStart = 0 /\ proofs = <<>>
    /\ segCh = <<>>
    /\ segment = <<>> /\ pending = <<>> /\ pendingBytes = 0 /\ totalWritten = 0
    /\ witnessDone = FALSE /\ crashes = 0

\* Mutant: the writer counts from zero after a restart.
MemoryUncounted(n) ==
    /\ current' = n /\ tier' = 1 /\ segStart' = 0 /\ proofs' = <<>>
    /\ segCh' = <<>>
    /\ segment' = <<>> /\ pending' = <<>> /\ pendingBytes' = 0 /\ totalWritten' = 0

\* The memory of a process that finds n accounts in the table.
Memory(n) ==
    /\ current' = n /\ tier' = 1 /\ segStart' = 0 /\ proofs' = <<>>
    /\ segCh' = <<>>
    /\ segment' = <<>> /\ pending' = <<>> /\ pendingBytes' = 0 /\ totalWritten' = n

\* GetLatestAccountIndex: what is there is taken to be what comes first.
LatestCount == IF Stored = {} THEN 0 ELSE 1 + CHOOSE i \in Stored : \A j \in Stored : j <= i

Start ==
    /\ ~Alive
    /\ phase' = "tier" /\ Memory(LatestCount)
    /\ UNCHANGED <<tables, witnessDone, crashes>>

Crash ==
    /\ Alive /\ ~(phase = "finished" /\ witnessDone) /\ crashes < MaxCrashes
    /\ phase' = "down" /\ Memory(0)
    /\ crashes' = crashes + 1
    /\ UNCHANGED <<tables, witnessDone>>

\* The witness service finishes in the same process.
WitnessFinishes ==
    /\ Alive /\ ~witnessDone
    /\ witnessDone' = TRUE
    /\ UNCHANGED <<tables, loopVars, segCh, writeVars, crashes>>

\* wg.Wait returns and the process ends.
Exit ==
    /\ phase = "finished" /\ witnessDone
    /\ UNCHANGED vars

----------------------------------------------------------------------------
(* The loop over tiers and segments.                                       *)

\* The accounts of the tier in hand that are not in the table yet.
StartIdx == current - AccountsBefore[tier]
Count == Accounts[tier] - StartIdx
SegCount == IF segStart + SegmentSize > Count THEN Count - segStart ELSE SegmentSize

SkipTier ==
    /\ phase = "tier" /\ tier <= Len(Accounts) /\ current >= AccountsBefore[tier + 1]
    /\ tier' = tier + 1
    /\ UNCHANGED <<tables, phase, current, segStart, proofs, segCh, writeVars, witnessDone, crashes>>

BeginTier ==
    /\ phase = "tier" /\ tier <= Len(Accounts) /\ current < AccountsBefore[tier + 1]
    /\ phase' = "segment" /\ segStart' = 0
    /\ UNCHANGED <<tables, current, tier, proofs, segCh, writeVars, witnessDone, crashes>>

BeginSegment ==
    /\ phase = "segment" /\ segStart < Count
    /\ phase' = "compute"
    /\ proofs' = [k \in 1 .. SegCount |-> None]
    /\ UNCHANGED <<tables, current, tier, segStart, segCh, writeVars, witnessDone, crashes>>

\* Goroutine w computes places w * chunkSize .. of the segment, in order.
ChunkSize == (SegCount + Workers - 1) \div Workers
Chunk(w) == {k \in 1 .. SegCount : w * ChunkSize < k /\ k <= (w + 1) * ChunkSize}

Compute(w) ==
    /\ phase = "compute"
    /\ \E k \in Chunk(w) :
        /\ proofs[k] = None /\ \A l \in Chunk(w) : l < k => proofs[l] # None
        /\ proofs' = [proofs EXCEPT ![k] = AccountsBefore[tier] + StartIdx + segStart + k - 1]
    /\ UNCHANGED <<tables, phase, current, tier, segStart, segCh, writeVars, witnessDone, crashes>>

\* Mutant: no wg.Wait, the segment is sent while it is being computed.
SendUnfinished ==
    /\ phase = "compute" /\ Len(segCh) < SegBuffer
    /\ segCh' = Append(segCh, proofs)
    /\ proofs' = <<>> /\ segStart' = segStart + SegmentSize
    /\ phase' = "segment"
    /\ UNCHANGED <<tables, current, tier, writeVars, witnessDone, crashes>>

\* wg.Wait: every goroutine is done with its chunk; then the send.
SendSegment ==
    /\ phase = "compute" /\ Len(segCh) < SegBuffer
    /\ \A w \in 0 .. Workers - 1 : \A k \in Chunk(w) : proofs[k] # None
    /\ segCh' = Append(segCh, proofs)
    /\ proofs' = <<>> /\ segStart' = segStart + SegmentSize
    /\ phase' = "segment"
    /\ UNCHANGED <<tables, current, tier, writeVars, witnessDone, crashes>>

EndTier ==
    /\ phase = "segment" /\ segStart >= Count
    /\ phase' = "tier" /\ current' = AccountsBefore[tier + 1] /\ tier' = tier + 1
    /\ segStart' = 0
    /\ UNCHANGED <<tables, proofs, segCh, writeVars, witnessDone, crashes>>

CloseSegments ==
    /\ phase = "tier" /\ tier > Len(Accounts)
    /\ phase' = "closed"
    /\ UNCHANGED <<tables, current, tier, segStart, proofs, segCh, writeVars, witnessDone, crashes>>

----------------------------------------------------------------------------
(* writeUserProofDB.                                                       *)

\* CreateUserProofs: one insert; idx_int refuses an account that is there.
CreateUserProofs(rows) ==
    /\ \A k \in 1 .. Len(rows) : table[rows[k]] = None
    /\ table' = [i \in Ids |-> IF \E k \in 1 .. Len(rows) : rows[k] = i THEN i ELSE table[i]]

ReceiveSegment ==
    /\ segment = <<>> /\ segCh # <<>>
    /\ segment' = Head(segCh) /\ segCh' = Tail(segCh)
    /\ UNCHANGED <<tables, loopVars, pending, pendingBytes, totalWritten, witnessDone, crashes>>

Flush ==
    /\ CreateUserProofs(pending)
    /\ totalWritten' = totalWritten + Len(pending)
    /\ pending' = <<>> /\ pendingBytes' = 0

Bytes == RowBytes[Head(segment)]
Full == pending # <<>> /\ pendingBytes + Bytes > MaxBytes

FlushFull ==
    /\ segment # <<>> /\ Full
    /\ Flush
    /\ UNCHANGED <<index, loopVars, segCh, segment, witnessDone, crashes>>

\* Mutant: a row above the limit overtakes the rows collected before it.
WriteAloneFirst ==
    /\ segment # <<>> /\ Bytes > MaxBytes
    /\ CreateUserProofs(<<Head(segment)>>)
    /\ totalWritten' = totalWritten + 1
    /\ segment' = Tail(segment)
    /\ UNCHANGED <<index, loopVars, segCh, pending, pendingBytes, witnessDone, crashes>>

\* A row above the limit is written alone.
WriteAlone ==
    /\ segment # <<>> /\ ~Full /\ Bytes > MaxBytes
    /\ CreateUserProofs(<<Head(segment)>>)
    /\ totalWritten' = totalWritten + 1
    /\ segment' = Tail(segment)
    /\ UNCHANGED <<index, loopVars, segCh, pending, pendingBytes, witnessDone, crashes>>

\* Mutant: the payload of a collected row is not counted.
CollectUncounted ==
    /\ segment # <<>> /\ ~Full /\ Bytes <= MaxBytes
    /\ pending' = Append(pending, Head(segment))
    /\ segment' = Tail(segment)
    /\ UNCHANGED <<tables, loopVars, segCh, pendingBytes, totalWritten, witnessDone, crashes>>

Collect ==
    /\ segment # <<>> /\ ~Full /\ Bytes <= MaxBytes
    /\ pending' = Append(pending, Head(segment))
    /\ pendingBytes' = pendingBytes + Bytes
    /\ segment' = Tail(segment)
    /\ UNCHANGED <<tables, loopVars, segCh, totalWritten, witnessDone, crashes>>

Drained == phase = "closed" /\ segCh = <<>> /\ segment = <<>>

\* Mutant: the rows left over are dropped.
DropRest ==
    /\ Drained /\ pending # <<>>
    /\ pending' = <<>> /\ pendingBytes' = 0
    /\ UNCHANGED <<tables, loopVars, segCh, segment, totalWritten, witnessDone, crashes>>

\* Mutant: the rows left over are written and not counted.
FlushRestUncounted ==
    /\ Drained /\ pending # <<>>
    /\ CreateUserProofs(pending)
    /\ pending' = <<>> /\ pendingBytes' = 0
    /\ UNCHANGED <<index, loopVars, segCh, segment, totalWritten, witnessDone, crashes>>

FlushRest ==
    /\ Drained /\ pending # <<>>
    /\ Flush
    /\ UNCHANGED <<index, loopVars, segCh, segment, witnessDone, crashes>>

----------------------------------------------------------------------------
(* The end of Run.                                                         *)

\* A panic ends the process, and the witness service with it.
Panic ==
    /\ phase' = "panic" /\ Memory(0)
    /\ UNCHANGED <<tables, witnessDone, crashes>>

CountsMatch == current = TotalAccounts /\ totalWritten = TotalAccounts

\* Mutant: the index is built while the writer is still at work.
CreateIndexEarly ==
    /\ phase = "closed" /\ ~index
    /\ index' = TRUE
    /\ phase' = "finished"
    /\ UNCHANGED <<table, current, tier, segStart, proofs, segCh, writeVars, witnessDone, crashes>>

\* ALTER TABLE ... ADD INDEX idx_str.
CreateAccountIdIndex ==
    /\ Drained /\ pending = <<>> /\ CountsMatch /\ ~index
    /\ index' = TRUE
    /\ phase' = "finished"
    /\ UNCHANGED <<table, current, tier, segStart, proofs, segCh, writeVars, witnessDone, crashes>>

\* "mismatch totalAccountCounts and totalWritten", or the index exists already.
RunPanics ==
    /\ Drained /\ pending = <<>> /\ (index \/ ~CountsMatch)
    /\ Panic

Loop == \/ SkipTier \/ BeginTier \/ BeginSegment \/ SendSegment \/ EndTier \/ CloseSegments
        \/ CreateAccountIdIndex \/ RunPanics
Writer == ReceiveSegment \/ FlushFull \/ WriteAlone \/ Collect \/ FlushRest

Next ==
    \/ Start \/ Crash \/ WitnessFinishes \/ Exit \/ Loop \/ Writer
    \/ \E w \in 0 .. Workers - 1 : Compute(w)

Spec == Init /\ [][Next]_vars

\* Goroutines are scheduled, statements return, and the process is restarted.
FairSpec ==
    /\ Spec
    /\ WF_vars(Start) /\ WF_vars(Loop) /\ WF_vars(Writer)
    /\ \A w \in 0 .. Workers - 1 : WF_vars(Compute(w))

----------------------------------------------------------------------------
(* Properties.                                                             *)

\* Memory and tables hold values of their types; channels keep to their size.
TypeOK ==
    /\ table \in [Ids -> Ids \cup {None}] /\ index \in BOOLEAN
    /\ phase \in {"down", "panic", "tier", "segment", "compute", "closed", "finished"}
    /\ current \in 0 .. TotalAccounts
    /\ tier \in 1 .. Len(Accounts) + 1
    /\ segStart \in Nat
    /\ proofs \in Seq(Ids \cup {None}) /\ Len(proofs) <= SegmentSize
    /\ segCh \in Seq(Seq(Ids)) /\ Len(segCh) <= SegBuffer
    /\ segment \in Seq(Ids) /\ pending \in Seq(Ids) /\ pendingBytes \in Nat
    /\ totalWritten \in 0 .. TotalAccounts
    /\ witnessDone \in BOOLEAN /\ crashes \in Nat

\* The writer's count is the number of rows in the table, over all restarts:
\* the resume point it started from was right.
CountIsStored == Alive => totalWritten = Cardinality(Stored)

\* One insert of several rows carries at most MaxBytes.
InsertFits == SumFunction([k \in 1 .. Len(pending) |-> RowBytes[pending[k]]]) <= MaxBytes

\* The index exists only over a complete table: no later insert has to keep it.
IndexOverComplete == index => Stored = Ids

\* Run panics only because the index exists already: the counts of the loop, of
\* the writer and of the accounts always match at the end, after every resume.
PanicOnlyOverIndex == phase = "panic" => index

\* The table is completed and indexed, whatever is killed.
EventuallyIndexed == <>(Stored = Ids /\ index)

\* The rows in the order of their accounts, and those of an uninterrupted run.
TableLog == [n \in 1 .. Cardinality(Stored) |-> table[n-1]]
Log == INSTANCE DurableLog WITH
    Entries <- [n \in 1 .. TotalAccounts |-> n - 1],
    log <- TableLog

\* The table holds the proofs of the first accounts, each once.
ImplementsLog == Log!LogSpec

\* Recovery from unexpected crashes: a restarted process does not panic.
RestartSurvives == phase # "panic"

=============================================================================
