------------------------------ MODULE Verifier ------------------------------
(***************************************************************************)
(* The verifier: it reads the exported proof table and the totals that the *)
(* exchange declares, verifies the proofs in parallel, every worker with   *)
(* the verifying key it loaded last, and then checks one batch after the   *)
(* other that they form one chain up to the declared totals.  A panic of   *)
(* any worker ends the process.  A commitment stands for the totals it     *)
(* commits to, and a batch commitment for the public values it hashes.     *)
(***************************************************************************)
EXTENDS Integers, Sequences, FiniteSets

CONSTANTS
    WorkersNum, \* number of verifying goroutines
    Tiers,      \* the AssetsCountTiers there is a verifying key for
    Tables,     \* the proof tables the verifier may be given
    Configs,    \* the CexAssetsInfo it may be configured with
    None        \* no proof, no batch, no key, not a valid proof

ASSUME WorkersAssumption == WorkersNum \in Nat \ {0}

Workers == 0 .. WorkersNum - 1

(* A row of the proof table: its public values; committed, whether the      *)
(* batch commitment is their hash; keys, the tier whose verifying key       *)
(* accepts its proof; and added, what the users of the batch own and owe.   *)

\* Totals of the exchange: equity and debt of each asset.
NoTotals(assets) == [a \in assets |-> [equity |-> 0, debt |-> 0]]
Add(s, t) == [a \in DOMAIN s |-> [equity |-> s[a].equity + t[a].equity,
                                  debt |-> s[a].debt + t[a].debt]]

\* What the circuit proves of the values that a batch commitment hashes.
Sound(row) ==
    row.committed /\ row.keys # None => row.after = Add(row.before, row.added)
ASSUME SoundnessAssumption ==
    \A file \in Tables : \A i \in 1 .. Len(file) : Sound(file[i])

\* Files are finite, and None is neither a row nor a tier.
ASSUME FilesAssumption ==
    /\ \A file \in Tables : Len(file) \in Nat /\ \A i \in 1 .. Len(file) : file[i] # None
    /\ \A entries \in Configs : Len(entries) \in Nat
    /\ None \notin Tiers

VARIABLES
    table,    \* the rows, in the order of the file
    declared, \* the entries of CexAssetsInfo
    phase,    \* "read", "verify", "chain", "pass" or "panic"
    proofs,   \* the row at each BatchNumber
    at,       \* the next row of each worker, j
    vk,       \* the tier of the verifying key each worker holds
    proofMap, \* what the workers report of the batches they have verified
    batch,    \* the next batch of the chain check
    prev      \* the batch before it

inputs == <<table, declared>>
workVars == <<proofs, at, vk, proofMap>>
chainVars == <<batch, prev>>
vars == <<inputs, phase, workVars, chainVars>>

Numbers == 0 .. Len(table) - 1
Assets == 0 .. Len(declared) - 1

Init ==
    /\ table \in Tables /\ declared \in Configs
    /\ phase = "read"
    /\ proofs = [n \in Numbers |-> None]
    /\ at = [w \in Workers |-> 0]
    /\ vk = [w \in Workers |-> None]
    /\ proofMap = [n \in Numbers |-> None]
    /\ batch = 0 /\ prev = None

Panic == phase' = "panic" /\ UNCHANGED <<inputs, workVars, chainVars>>

----------------------------------------------------------------------------
(* Reading the inputs.                                                     *)

\* Mutant: the insolvent assets are not looked for.
AcceptableUnchecked == \A i \in 1 .. Len(declared) : declared[i].index \in Assets

\* No index out of range, and no asset with more debt than equity.
Acceptable ==
    \A i \in 1 .. Len(declared) :
        /\ declared[i].index \in Assets
        /\ declared[i].totals.debt <= declared[i].totals.equity

\* cexAssetsInfo: of two entries of one asset, the later one.
LastOf(S) == CHOOSE i \in S : \A j \in S : j <= i
CexAssetsInfo ==
    [a \in Assets |->
        LET entries == {i \in 1 .. Len(declared) : declared[i].index = a}
        IN  IF entries = {} THEN [equity |-> 0, debt |-> 0]
            ELSE declared[LastOf(entries)].totals]

\* Every worker verifies a range of the batches; the last ranges may be empty.
AverageProofCount == (Len(table) + WorkersNum - 1) \div WorkersNum
StartIndex(w) == w * AverageProofCount
EndIndex(w) ==
    IF (w + 1) * AverageProofCount > Len(table) THEN Len(table)
    ELSE (w + 1) * AverageProofCount

\* Mutant: the rows are taken in the order of the file.
PlacedInOrder == [n \in Numbers |-> table[n+1]]

\* The rows are placed by their numbers, whatever their order in the file.
Placed ==
    [n \in Numbers |->
        LET rows == {i \in 1 .. Len(table) : table[i].number = n}
        IN  IF rows = {} THEN None ELSE table[LastOf(rows)]]

Read ==
    /\ phase = "read"
    /\ Acceptable /\ \A i \in 1 .. Len(table) : table[i].number \in Numbers
    /\ proofs' = Placed
    /\ at' = [w \in Workers |-> StartIndex(w)]
    /\ phase' = "verify"
    /\ UNCHANGED <<inputs, vk, proofMap, chainVars>>

RejectInput ==
    /\ phase = "read"
    /\ ~Acceptable \/ \E i \in 1 .. Len(table) : table[i].number \notin Numbers
    /\ Panic

----------------------------------------------------------------------------
(* The workers.                                                            *)

\* Mutant: the key of the first tier is kept.
VerifyingKeyOnce(w, tier) == IF vk[w] # None THEN vk[w] ELSE tier

\* A worker loads the key of a tier when it comes to a batch of another tier.
VerifyingKey(w, tier) == IF vk[w] = tier THEN vk[w] ELSE tier

\* The row decodes, its public values are those of the batch commitment, its
\* tier is configured, and the proof verifies with the key w then holds.
Verifies(w, row) ==
    /\ row # None /\ row.committed
    /\ row.tier \in Tiers
    /\ row.keys = VerifyingKey(w, row.tier)

VerifyRow(w) ==
    /\ phase = "verify" /\ at[w] < EndIndex(w) /\ Verifies(w, proofs[at[w]])
    /\ vk' = [vk EXCEPT ![w] = VerifyingKey(w, proofs[at[w]].tier)]
    /\ proofMap' = [proofMap EXCEPT ![proofs[at[w]].number] = proofs[at[w]]]
    /\ at' = [at EXCEPT ![w] = @ + 1]
    /\ UNCHANGED <<inputs, phase, proofs, chainVars>>

\* Mutant: a worker tries a proof that fails again.
RejectRowRetry(w) ==
    /\ phase = "verify" /\ at[w] < EndIndex(w) /\ ~Verifies(w, proofs[at[w]])
    /\ UNCHANGED vars

RejectRow(w) ==
    /\ phase = "verify" /\ at[w] < EndIndex(w) /\ ~Verifies(w, proofs[at[w]])
    /\ Panic

WorkDone == \A w \in Workers : at[w] >= EndIndex(w)

\* wg.Wait
Wait ==
    /\ phase = "verify" /\ WorkDone
    /\ phase' = "chain"
    /\ UNCHANGED <<inputs, workVars, chainVars>>

----------------------------------------------------------------------------
(* The chain of the batches.                                               *)

\* Mutant: the totals before a batch are not compared.
ChainsOnIndexOnly(data) ==
    /\ data # None
    /\ batch = 0 => data.min = 0
    /\ prev # None => data.root = prev.root /\ data.min = prev.max + 1

ChainsOn(data) ==
    /\ data # None
    /\ batch = 0 => data.min = 0
    /\ prev # None => data.root = prev.root /\ data.min = prev.max + 1
    /\ data.before = IF prev = None THEN NoTotals(Assets) ELSE prev.after

CheckBatch ==
    /\ phase = "chain" /\ batch < Len(table) /\ ChainsOn(proofMap[batch])
    /\ prev' = proofMap[batch] /\ batch' = batch + 1
    /\ UNCHANGED <<inputs, phase, workVars>>

RejectBatch ==
    /\ phase = "chain" /\ batch < Len(table) /\ ~ChainsOn(proofMap[batch])
    /\ Panic

FinalMatches == prev # None /\ prev.after = CexAssetsInfo

\* "All proofs verify passed!!!"
Pass ==
    /\ phase = "chain" /\ batch = Len(table) /\ FinalMatches
    /\ phase' = "pass"
    /\ UNCHANGED <<inputs, workVars, chainVars>>

\* "Final Cex Assets Info Not Match", also of a table without rows.
RejectFinal ==
    /\ phase = "chain" /\ batch = Len(table) /\ ~FinalMatches
    /\ Panic

\* The process has ended.
Ended == phase \in {"pass", "panic"} /\ UNCHANGED vars

----------------------------------------------------------------------------
Worker(w) == VerifyRow(w) \/ RejectRow(w)
Main == Read \/ RejectInput \/ Wait \/ CheckBatch \/ RejectBatch \/ Pass \/ RejectFinal

Next == Main \/ Ended \/ \E w \in Workers : Worker(w)

Spec == Init /\ [][Next]_vars

\* The goroutines are scheduled.
FairSpec == Spec /\ WF_vars(Main) /\ \A w \in Workers : WF_vars(Worker(w))

----------------------------------------------------------------------------
(* Properties.                                                             *)

\* The state of the verifier and its workers has its type.
TypeOK ==
    /\ phase \in {"read", "verify", "chain", "pass", "panic"}
    /\ \A n \in Numbers : proofs[n] # None => proofs[n].number = n
    /\ at \in [Workers -> Nat]
    /\ vk \in [Workers -> Tiers \cup {None}]
    /\ \A n \in Numbers : proofMap[n] \in {proofs[n], None}
    /\ batch \in 0 .. Len(table)
    /\ prev = None <=> batch = 0

\* The row of batch n in the file.
RowOf(n) == table[CHOOSE i \in 1 .. Len(table) : table[i].number = n]

\* What a table must be for the totals to be the declared ones: each batch is
\* there once, with a proof that its own tier's key accepts, and the batches
\* chain from nothing at account 0 to the declared totals.
Complete ==
    /\ Len(table) > 0
    /\ \A n \in Numbers : \E i \in 1 .. Len(table) : table[i].number = n
    /\ \A n \in Numbers : /\ RowOf(n).committed
                          /\ RowOf(n).tier \in Tiers /\ RowOf(n).keys = RowOf(n).tier
    /\ RowOf(0).min = 0 /\ RowOf(0).before = NoTotals(Assets)
    /\ \A n \in Numbers \ {0} : /\ RowOf(n).min = RowOf(n-1).max + 1
                                /\ RowOf(n).before = RowOf(n-1).after
                                /\ RowOf(n).root = RowOf(n-1).root
    /\ RowOf(Len(table) - 1).after = CexAssetsInfo

\* The verdict does not depend on the number of workers, on their schedule, on
\* the keys they have cached or on the order of the file.
VerdictRight ==
    /\ phase = "pass" => Complete /\ Acceptable
    /\ phase = "panic" => ~(Complete /\ Acceptable)

\* The users' amounts over the first n batches.
Sum[n \in 0 .. Len(table)] ==
    IF n = 0 THEN NoTotals(Assets) ELSE Add(Sum[n-1], RowOf(n-1).added)

\* The proof of solvency: when the verifier passes, the declared equity and
\* debt of each asset are those of all users together, and equity covers debt.
PassIsSolvent ==
    phase = "pass" =>
        /\ CexAssetsInfo = Sum[Len(table)]
        /\ \A a \in Assets : CexAssetsInfo[a].debt <= CexAssetsInfo[a].equity

\* The verifier always comes to a verdict.
EventuallyVerdict == <>(phase \in {"pass", "panic"})

=============================================================================
