-------------------------- MODULE ProofGeneration --------------------------
(***************************************************************************)
(* Batch proof generation: the witness and proof tables, the task queue,   *)
(* dbtool -push_task_to_redis, and the prover processes of Prover.Run in   *)
(* normal and -rerun mode.  Every database statement is a step of its own, *)
(* so that what a process has read may be stale when it writes.  A retry   *)
(* loop on a query timeout changes nothing and is a stuttering step.       *)
(***************************************************************************)
EXTENDS Naturals, Sequences, FiniteSetsExt

CONSTANTS
    N,          \* number of batches; their heights are 0 .. N-1
    Provers,    \* prover processes
    Tiers,      \* the configured AssetsCountTiers
    TierOf,     \* the asset tier of each batch's witness
    None,       \* no task, no proof, no keys loaded
    InsertRows, \* most rows one insert of the witness writer holds
    PageLimit,  \* rows a query of the pusher returns at most (limit)
    ByHeight,   \* do the rows of that query come in the order of heights?  It does
                \* not ask for an order, so nothing but the database's index says so
    EarlyPush,  \* may tasks be pushed before every witness is in the table?
    Mixed,      \* may provers of both modes be started at any time?  If not, as
                \* documented: normal ones when tasks are queued, -rerun after all
    MaxPush,    \* bound: runs of dbtool -push_task_to_redis
    MaxFaults   \* bound: crashes and failed statements, over all processes

Heights == 0 .. N-1
ProofRows == [by : Provers, keys : Tiers]

ASSUME CountAssumption == N \in Nat
ASSUME PageAssumption == PageLimit \in Nat
ASSUME TierAssumption == TierOf \in [Heights -> Tiers]
ASSUME NoneAssumption == /\ None \notin Heights
                         /\ None \notin Tiers
                         /\ None \notin ProofRows

VARIABLES
    status,     \* witness table: the Status of each row, or "absent"
    proof,      \* proof table: the row of each BatchNumber (unique), or None
    queue,      \* the Redis list, next task first
    pushPc,     \* dbtool -push_task_to_redis: "idle", "query" or "exec"
    pushOffset, \* its offset
    pushPage,   \* the heights of its page that are still to be pushed
    pushes,     \* how many times it was started
    pc,         \* the statement each prover executes next, or "down"
    mode,       \* the -rerun flag of each prover
    task,       \* the height each prover works on
    params,     \* CurrentSnarkParamsInUse of each prover
    faults      \* faults so far

tables == <<status, proof>>
pushVars == <<pushPc, pushOffset, pushPage, pushes>>
proverVars == <<pc, mode, task, params>>
vars == <<tables, queue, pushVars, proverVars, faults>>

Statuses == {"absent", "published", "received", "finished"}
Labels == {"down", "pop", "select", "update", "readReceived", "readPublished",
           "prove", "check", "create", "finish"}

WithStatus(s) == {h \in Heights : status[h] = s}
Rank(h, S) == Cardinality({g \in S : g < h})

Init ==
    /\ status = [h \in Heights |-> "absent"]
    /\ proof = [h \in Heights |-> None]
    /\ queue = <<>>
    /\ pushPc = "idle" /\ pushOffset = 0 /\ pushPage = {} /\ pushes = 0
    /\ pc = [p \in Provers |-> "down"]
    /\ mode = [p \in Provers |-> "normal"]
    /\ task = [p \in Provers |-> None]
    /\ params = [p \in Provers |-> None]
    /\ faults = 0

----------------------------------------------------------------------------
(* The witness service: one insert writes the next k rows, all or none.    *)

NextRows(k) == {h \in WithStatus("absent") : Rank(h, WithStatus("absent")) < k}

CreateBatchWitness(k) ==
    /\ WithStatus("absent") # {}
    /\ status' = [h \in Heights |-> IF h \in NextRows(k) THEN "published" ELSE status[h]]
    /\ UNCHANGED <<proof, queue, pushVars, proverVars, faults>>

----------------------------------------------------------------------------
(* dbtool -push_task_to_redis: pages through the published rows, LPUSHing  *)
(* the heights of each page, until a page is empty.                        *)

StartPush ==
    /\ pushPc = "idle" /\ pushes < MaxPush
    /\ EarlyPush \/ WithStatus("absent") = {}
    /\ pushPc' = "query" /\ pushOffset' = 0 /\ pushPage' = {} /\ pushes' = pushes + 1
    /\ UNCHANGED <<tables, queue, proverVars, faults>>

\* Mutant: the first row of a page is skipped.
PageOffByOne(offset) ==
    {h \in WithStatus("published") :
        /\ offset < Rank(h, WithStatus("published"))
        /\ Rank(h, WithStatus("published")) < offset + PageLimit}

\* LIMIT and OFFSET over the rows published now, in the order of heights.
Page(offset) ==
    {h \in WithStatus("published") :
        /\ offset <= Rank(h, WithStatus("published"))
        /\ Rank(h, WithStatus("published")) < offset + PageLimit}

\* GetAllBatchHeightsByStatus: without an order, any published rows may be on
\* a page, also those of an earlier one, as many as the page has.
Pages(offset) ==
    IF ByHeight THEN {Page(offset)}
    ELSE kSubset(Cardinality(Page(offset)), WithStatus("published"))

\* Mutant: the offset is not advanced.
QueryPageAgain ==
    /\ pushPc = "query" /\ Page(pushOffset) # {}
    /\ pushPage' \in Pages(pushOffset)
    /\ pushPc' = "exec"
    /\ UNCHANGED <<tables, queue, pushOffset, pushes, proverVars, faults>>

QueryPage ==
    /\ pushPc = "query" /\ Page(pushOffset) # {}
    /\ pushPage' \in Pages(pushOffset)
    /\ pushOffset' = pushOffset + Cardinality(pushPage')
    /\ pushPc' = "exec"
    /\ UNCHANGED <<tables, queue, pushes, proverVars, faults>>

\* "no more witness data with status 0"
EndPush ==
    /\ pushPc = "query" /\ Page(pushOffset) = {}
    /\ pushPc' = "idle" /\ pushOffset' = 0
    /\ UNCHANGED <<tables, queue, pushPage, pushes, proverVars, faults>>

\* The commands of a pipeline run one by one, others' commands in between.
LPush(h) ==
    /\ pushPc = "exec" /\ h \in pushPage
    /\ ByHeight => \A g \in pushPage : h <= g
    /\ queue' = Append(queue, h)
    /\ pushPage' = pushPage \ {h}
    /\ pushPc' = IF pushPage' = {} THEN "query" ELSE "exec"
    /\ UNCHANGED <<tables, pushOffset, pushes, proverVars, faults>>

Fault == faults < MaxFaults /\ faults' = faults + 1

\* The process panics or dies: what it has not pushed stays unpushed.
PushCrash ==
    /\ pushPc # "idle" /\ Fault
    /\ pushPc' = "idle" /\ pushOffset' = 0 /\ pushPage' = {}
    /\ UNCHANGED <<tables, queue, pushes, proverVars>>

----------------------------------------------------------------------------
(* The provers.                                                            *)

At(p, l) == pc[p] = l
Goto(p, l) == pc' = [pc EXCEPT ![p] = l]
Up(m) == {p \in Provers : pc[p] # "down" /\ mode[p] = m}

\* The process of p ends: what it kept in memory is gone.
Exit(p) ==
    /\ Goto(p, "down")
    /\ mode' = [mode EXCEPT ![p] = "normal"]
    /\ task' = [task EXCEPT ![p] = None]
    /\ params' = [params EXCEPT ![p] = None]

\* The next round of Run's loop.
NextRound(p) ==
    /\ Goto(p, IF mode[p] = "normal" THEN "pop" ELSE "readReceived")
    /\ task' = [task EXCEPT ![p] = None]
    /\ UNCHANGED <<mode, params>>

StartProver(p) ==
    /\ At(p, "down")
    /\ Mixed \/ (queue # <<>> /\ Up("rerun") = {})
    /\ Goto(p, "pop")
    /\ UNCHANGED <<tables, queue, pushVars, mode, task, params, faults>>

StartRerun(p) ==
    /\ At(p, "down")
    /\ Mixed \/ \A q \in Provers : At(q, "down")
    /\ Goto(p, "readReceived")
    /\ mode' = [mode EXCEPT ![p] = "rerun"]
    /\ UNCHANGED <<tables, queue, pushVars, task, params, faults>>

\* fetchTasksByRedis: BRPOP takes the oldest task, or times out.
PopTask(p) ==
    /\ At(p, "pop") /\ queue # <<>>
    /\ queue' = Tail(queue)
    /\ task' = [task EXCEPT ![p] = Head(queue)]
    /\ Goto(p, "select")
    /\ UNCHANGED <<tables, pushVars, mode, params, faults>>

QuitNoTask(p) ==
    /\ At(p, "pop") /\ queue = <<>>
    /\ Exit(p)
    /\ UNCHANGED <<tables, queue, pushVars, faults>>

\* The reply with the task is lost after the server removed it.
PopFails(p) ==
    /\ At(p, "pop") /\ queue # <<>> /\ Fault
    /\ queue' = Tail(queue)
    /\ UNCHANGED <<tables, pushVars, proverVars>>

\* GetAndUpdateBatchesWitnessByHeight: a read that locks nothing ...
SelectPublished(p) ==
    /\ At(p, "select") /\ status[task[p]] = "published"
    /\ Goto(p, "update")
    /\ UNCHANGED <<tables, queue, pushVars, mode, task, params, faults>>

\* "there is no published status witness in db, so quit"
QuitNoPublished(p) ==
    /\ At(p, "select") /\ status[task[p]] # "published"
    /\ Exit(p)
    /\ UNCHANGED <<tables, queue, pushVars, faults>>

\* ... then an update of the row, whatever its status is by then.
UpdateReceived(p) ==
    /\ At(p, "update")
    /\ status' = [status EXCEPT ![task[p]] = "received"]
    /\ Goto(p, "prove")
    /\ UNCHANGED <<proof, queue, pushVars, mode, task, params, faults>>

\* The transaction commits, its reply is lost: the task is dropped.
UpdateUnacknowledged(p) ==
    /\ At(p, "update") /\ Fault
    /\ status' = [status EXCEPT ![task[p]] = "received"]
    /\ NextRound(p)
    /\ UNCHANGED <<proof, queue, pushVars>>

\* Any other database error: the transaction is rolled back, the task dropped.
FetchFails(p) ==
    /\ pc[p] \in {"select", "update"} /\ Fault
    /\ NextRound(p)
    /\ UNCHANGED <<tables, queue, pushVars>>

\* FetchBatchWitnessForRerun: any received row, else any published one.
RerunReceived(p, h) ==
    /\ At(p, "readReceived") /\ h \in WithStatus("received")
    /\ task' = [task EXCEPT ![p] = h]
    /\ Goto(p, "prove")
    /\ UNCHANGED <<tables, queue, pushVars, mode, params, faults>>

\* Mutant: without a received row, -rerun is over.
RerunOnlyReceived(p) ==
    /\ At(p, "readReceived") /\ WithStatus("received") = {}
    /\ Exit(p)
    /\ UNCHANGED <<tables, queue, pushVars, faults>>

RerunNoReceived(p) ==
    /\ At(p, "readReceived") /\ WithStatus("received") = {}
    /\ Goto(p, "readPublished")
    /\ UNCHANGED <<tables, queue, pushVars, mode, task, params, faults>>

RerunPublished(p, h) ==
    /\ At(p, "readPublished") /\ h \in WithStatus("published")
    /\ task' = [task EXCEPT ![p] = h]
    /\ Goto(p, "prove")
    /\ UNCHANGED <<tables, queue, pushVars, mode, params, faults>>

QuitNoReceived(p) ==
    /\ At(p, "readPublished") /\ WithStatus("published") = {}
    /\ Exit(p)
    /\ UNCHANGED <<tables, queue, pushVars, faults>>

\* Mutant: keys are loaded only by a prover that has none.
LoadFirstParams(p, tier) ==
    IF params[p] # None THEN params[p] ELSE tier

\* Mutant: the keys are never loaded.
LoadNoParams(p, tier) ==
    IF params[p] = tier THEN tier ELSE params[p]

\* LoadSnarkParamsOnce: the keys p holds once it has loaded those of a tier.
LoadSnarkParamsOnce(p, tier) ==
    IF params[p] = tier THEN params[p] ELSE tier

\* GenerateAndVerifyProof
Prove(p) ==
    /\ At(p, "prove")
    /\ params' = [params EXCEPT ![p] = LoadSnarkParamsOnce(p, TierOf[task[p]])]
    /\ Goto(p, "check")
    /\ UNCHANGED <<tables, queue, pushVars, mode, task, faults>>

\* Mutant: the result of the check is read the wrong way round.
CheckProofInverted(p) ==
    /\ At(p, "check")
    /\ Goto(p, IF proof[task[p]] # None THEN "create" ELSE "finish")
    /\ UNCHANGED <<tables, queue, pushVars, mode, task, params, faults>>

\* Mutant: there is no check.
NoCheckProof(p) ==
    /\ At(p, "check")
    /\ Goto(p, "create")
    /\ UNCHANGED <<tables, queue, pushVars, mode, task, params, faults>>

\* GetProofByBatchNumber: with a proof in the table only the status is left.
CheckProof(p) ==
    /\ At(p, "check")
    /\ Goto(p, IF proof[task[p]] # None THEN "finish" ELSE "create")
    /\ UNCHANGED <<tables, queue, pushVars, mode, task, params, faults>>

\* An error other than a timeout is taken for "no such proof".
CheckFails(p) ==
    /\ At(p, "check") /\ Fault
    /\ Goto(p, "create")
    /\ UNCHANGED <<tables, queue, pushVars, mode, task, params>>

Row(p) == [by |-> p, keys |-> params[p]]

\* Mutant: no unique index, the row of the last prover wins.
CreateProofAnew(p) ==
    /\ At(p, "create")
    /\ proof' = [proof EXCEPT ![task[p]] = Row(p)]
    /\ Goto(p, "finish")
    /\ UNCHANGED <<status, queue, pushVars, mode, task, params, faults>>

CreateProof(p) ==
    /\ At(p, "create") /\ proof[task[p]] = None
    /\ proof' = [proof EXCEPT ![task[p]] = Row(p)]
    /\ Goto(p, "finish")
    /\ UNCHANGED <<status, queue, pushVars, mode, task, params, faults>>

\* The unique index refuses a second proof of the batch: the prover returns.
CreateDuplicate(p) ==
    /\ At(p, "create") /\ proof[task[p]] # None
    /\ Exit(p)
    /\ UNCHANGED <<tables, queue, pushVars, faults>>

\* The insert is done, its reply is lost: the prover returns.
CreateUnacknowledged(p) ==
    /\ At(p, "create") /\ proof[task[p]] = None /\ Fault
    /\ proof' = [proof EXCEPT ![task[p]] = Row(p)]
    /\ Exit(p)
    /\ UNCHANGED <<status, queue, pushVars>>

\* Mutant: the row is marked before its proof is stored.
MarkEarly(p) ==
    /\ pc[p] \in {"create", "finish"}
    /\ status' = [status EXCEPT ![task[p]] = "finished"]
    /\ IF At(p, "finish") THEN NextRound(p) ELSE UNCHANGED proverVars
    /\ UNCHANGED <<proof, queue, pushVars, faults>>

\* UpdateBatchWitnessStatus(StatusFinished)
MarkFinished(p) ==
    /\ At(p, "finish")
    /\ status' = [status EXCEPT ![task[p]] = "finished"]
    /\ NextRound(p)
    /\ UNCHANGED <<proof, queue, pushVars, faults>>

\* A failed update is printed and forgotten.
MarkFails(p) ==
    /\ At(p, "finish") /\ Fault
    /\ NextRound(p)
    /\ UNCHANGED <<tables, queue, pushVars>>

\* A crash, a panic, or an error after which Run returns.
Crash(p) ==
    /\ ~At(p, "down") /\ Fault
    /\ Exit(p)
    /\ UNCHANGED <<tables, queue, pushVars>>

----------------------------------------------------------------------------
Push == StartPush \/ QueryPage \/ EndPush \/ PushCrash \/ \E h \in Heights : LPush(h)

Fetch(p) ==
    \/ PopTask(p) \/ QuitNoTask(p) \/ SelectPublished(p) \/ QuitNoPublished(p)
    \/ UpdateReceived(p) \/ RerunNoReceived(p) \/ QuitNoReceived(p)
    \/ \E h \in Heights : RerunReceived(p, h) \/ RerunPublished(p, h)

Work(p) == Prove(p) \/ CheckProof(p) \/ CreateProof(p) \/ CreateDuplicate(p) \/ MarkFinished(p)

Fail(p) == \/ PopFails(p) \/ FetchFails(p) \/ UpdateUnacknowledged(p) \/ CheckFails(p)
           \/ CreateUnacknowledged(p) \/ MarkFails(p) \/ Crash(p)

Next ==
    \/ \E k \in 1 .. InsertRows : CreateBatchWitness(k)
    \/ Push
    \/ \E p \in Provers : StartProver(p) \/ StartRerun(p) \/ Fetch(p) \/ Work(p) \/ Fail(p)

Spec == Init /\ [][Next]_vars

\* What the fault-free processes do without being asked: an insert that is
\* due, a started pusher, a running prover.  Operators push once, and run
\* -rerun again and again until it finds nothing to do.
FairSpec ==
    /\ Spec
    /\ WF_vars(\E k \in 1 .. InsertRows : CreateBatchWitness(k))
    /\ WF_vars(Push)
    /\ \A p \in Provers : WF_vars(Fetch(p) \/ Work(p))
    /\ SF_vars(\E p \in Provers : StartRerun(p))

----------------------------------------------------------------------------
(* Properties.                                                             *)

\* The tables, the queue and every process hold values of their types.
TypeOK ==
    /\ status \in [Heights -> Statuses]
    /\ proof \in [Heights -> ProofRows \cup {None}]
    /\ queue \in Seq(Heights)
    /\ pushPc \in {"idle", "query", "exec"}
    /\ pushOffset \in Nat /\ pushPage \subseteq Heights /\ pushes \in Nat
    /\ pc \in [Provers -> Labels]
    /\ mode \in [Provers -> {"normal", "rerun"}]
    /\ task \in [Provers -> Heights \cup {None}]
    /\ params \in [Provers -> Tiers \cup {None}]
    /\ faults \in Nat

\* A witness row says finished only if the proof of its batch is stored,
\* whatever crashed or ran twice in between.
FinishedHasProof == \A h \in WithStatus("finished") : proof[h] # None

\* A stored proof was made with the keys of its own batch's tier, though a
\* prover keeps the keys it loaded for an earlier batch.
ProofKeysMatch == \A h \in Heights : proof[h] # None => proof[h].keys = TierOf[h]

\* Several provers may prove one batch: the proof stored first stays.
ProofsPermanent ==
    [][\A h \in Heights : proof[h] # None => proof'[h] = proof[h]]_vars

\* A prover that will finish its task whatever the others do: it never runs
\* into the unique index.
Holds(p, h) ==
    /\ task[p] = h
    /\ \/ pc[p] \in {"prove", "check", "finish"}
       \/ pc[p] = "create" /\ proof[h] = None

\* Unless something failed, a received row is in the hands of a live prover
\* that will finish it: only a failure leaves work for -rerun, even when
\* tasks are pushed twice or -rerun runs beside the others.
ReceivedIsHeld ==
    faults = 0 => \A h \in WithStatus("received") : \E p \in Provers : Holds(p, h)

\* h is on its way to a prover: in the queue, or popped and not yet taken.
Queued(h) ==
    \/ \E i \in 1 .. Len(queue) : queue[i] = h
    \/ \E p \in Provers : task[p] = h /\ pc[p] \in {"select", "update"}

\* When the pusher has said that there is no more published data, every row
\* still published is on its way to a prover.
PublishedIsQueued ==
    faults = 0 /\ pushes > 0 /\ pushPc = "idle" =>
        \A h \in WithStatus("published") : Queued(h)

\* The life of a row is published, received, finished, and never goes back.
StatusMonotone ==
    [][\A h \in Heights :
        /\ status[h] = "finished" => status'[h] = "finished"
        /\ status[h] = "received" => status'[h] \in {"received", "finished"}]_vars

\* Every batch is finished in the end, and stays so: faults, lost tasks and
\* provers that quit early are made good by -rerun.
EventuallyAllFinished == <>[](WithStatus("finished") = Heights)

\* The message of a normal prover that quits: "there is no published status
\* witness in db".
QuitOnlyWhenNonePublished ==
    [][\A p \in Provers : QuitNoPublished(p) => WithStatus("published") = {}]_vars

\* The tables, read as a ledger of proofs.
Ledger == INSTANCE ProofLedger WITH
    Batches <- Heights, Rows <- ProofRows, NoRow <- None,
    known <- Heights \ WithStatus("absent"),
    ledger <- proof,
    marked <- WithStatus("finished")

\* The tables behave as the ledger promises.
ImplementsLedger == Ledger!LedgerSpec

=============================================================================
