----------------------- MODULE ProofGeneration_proofs -----------------------
(***************************************************************************)
(* Theorems about ProofGeneration, for any number of batches, provers,     *)
(* pushes and faults.                                                      *)
(***************************************************************************)
EXTENDS ProofGeneration, NumberFacts, FiniteSetTheorems

Busy == {"update", "prove", "check", "create", "finish"}

\* A prover past the fetch works on a height whose row is in the table, and
\* a prover past the proving holds the keys of its batch's tier.
TaskOK ==
    \A p \in Provers :
        /\ pc[p] \in Busy \cup {"select"} => task[p] \in Heights
        /\ pc[p] \in Busy => status[task[p]] # "absent"
        /\ pc[p] \in {"check", "create", "finish"} => params[p] = TierOf[task[p]]

----------------------------------------------------------------------------
\* The rows of a page can be counted.
LEMMA PageType ==
    ASSUME NEW offset \in Nat, NEW page \in Pages(offset)
    PROVE  /\ page \subseteq WithStatus("published") /\ page \subseteq Heights
           /\ Cardinality(page) \in Nat
<1>1. page \subseteq WithStatus("published")
  BY DEF Pages, Page, kSubset
<1>2. IsFiniteSet(Heights) /\ WithStatus("published") \subseteq Heights
  BY CountAssumption, FS_Interval DEF Heights, WithStatus
<1>3. IsFiniteSet(page)
  BY <1>1, <1>2, FS_Subset
<1> QED
  BY <1>1, <1>2, <1>3, FS_CardinalityType

\* The initial state is typed.
LEMMA InitTyped == Init => TypeOK /\ TaskOK
  BY DEF Init, TypeOK, TaskOK, Statuses, Labels, Busy

\* Every step keeps the types, and a prover's task one whose row exists.
LEMMA StepTyped == TypeOK /\ TaskOK /\ [Next]_vars => TypeOK' /\ TaskOK'
<1> SUFFICES ASSUME TypeOK, TaskOK, [Next]_vars
             PROVE  TypeOK' /\ TaskOK'
  OBVIOUS
<1> USE DEF TypeOK, TaskOK, Busy, Statuses, Labels, WithStatus, vars, tables, pushVars,
            proverVars, Goto, Exit, NextRound, At, Fault
<1>1. ASSUME NEW k \in 1 .. InsertRows, CreateBatchWitness(k)  PROVE TypeOK' /\ TaskOK'
  BY <1>1 DEF CreateBatchWitness, NextRows
<1>2. CASE StartPush
  BY <1>2 DEF StartPush
<1>3. CASE QueryPage
  <2>1. pushPage' \subseteq Heights /\ Cardinality(pushPage') \in Nat
    BY <1>3, PageType DEF QueryPage
  <2>2. pushOffset' \in Nat /\ pushPage' \subseteq Heights
    BY <1>3, <2>1 DEF QueryPage
  <2> QED
    BY <1>3, <2>2 DEF QueryPage
<1>4. CASE EndPush
  BY <1>4 DEF EndPush
<1>5. CASE PushCrash
  BY <1>5 DEF PushCrash
<1>6. ASSUME NEW h \in Heights, LPush(h)  PROVE TypeOK' /\ TaskOK'
  BY <1>6 DEF LPush
<1>7. ASSUME NEW p \in Provers, StartProver(p) \/ StartRerun(p)  PROVE TypeOK' /\ TaskOK'
  BY <1>7 DEF StartProver, StartRerun
<1>8. ASSUME NEW p \in Provers, Fetch(p)  PROVE TypeOK' /\ TaskOK'
  <2>1. CASE PopTask(p)
    <3>1. Head(queue) \in Heights /\ Tail(queue) \in Seq(Heights)
      BY <2>1 DEF PopTask
    <3> QED
      BY <2>1, <3>1 DEF PopTask
  <2>2. CASE QuitNoTask(p)
    BY <2>2 DEF QuitNoTask
  <2>3. CASE SelectPublished(p)
    BY <2>3 DEF SelectPublished
  <2>4. CASE QuitNoPublished(p)
    BY <2>4 DEF QuitNoPublished
  <2>5. CASE UpdateReceived(p)
    BY <2>5 DEF UpdateReceived
  <2>6. CASE RerunNoReceived(p)
    BY <2>6 DEF RerunNoReceived
  <2>7. CASE QuitNoReceived(p)
    BY <2>7 DEF QuitNoReceived
  <2>8. ASSUME NEW h \in Heights, RerunReceived(p, h) \/ RerunPublished(p, h)
        PROVE  TypeOK' /\ TaskOK'
    <3>1. CASE RerunReceived(p, h)
      BY <3>1 DEF RerunReceived
    <3>2. CASE RerunPublished(p, h)
      BY <3>2 DEF RerunPublished
    <3> QED
      BY <2>8, <3>1, <3>2
  <2> QED
    BY <1>8, <2>1, <2>2, <2>3, <2>4, <2>5, <2>6, <2>7, <2>8 DEF Fetch
<1>9. ASSUME NEW p \in Provers, Work(p)  PROVE TypeOK' /\ TaskOK'
  <2>1. CASE Prove(p)
    BY <2>1, TierAssumption DEF Prove, LoadSnarkParamsOnce
  <2>2. CASE CheckProof(p)
    BY <2>2 DEF CheckProof
  <2>3. CASE CreateProof(p)
    <3>1. Row(p) \in ProofRows
      BY <2>3, TierAssumption DEF CreateProof, Row, ProofRows
    <3> QED
      BY <2>3, <3>1 DEF CreateProof
  <2>4. CASE CreateDuplicate(p)
    BY <2>4 DEF CreateDuplicate
  <2>5. CASE MarkFinished(p)
    BY <2>5 DEF MarkFinished
  <2> QED
    BY <1>9, <2>1, <2>2, <2>3, <2>4, <2>5 DEF Work
<1>10. ASSUME NEW p \in Provers, Fail(p)  PROVE TypeOK' /\ TaskOK'
  <2>1. CASE PopFails(p)
    BY <2>1 DEF PopFails
  <2>2. CASE FetchFails(p)
    BY <2>2 DEF FetchFails
  <2>3. CASE CheckFails(p)
    BY <2>3 DEF CheckFails
  <2>4. CASE CreateUnacknowledged(p)
    <3>1. Row(p) \in ProofRows
      BY <2>4, TierAssumption DEF CreateUnacknowledged, Row, ProofRows
    <3> QED
      BY <2>4, <3>1 DEF CreateUnacknowledged
  <2>5. CASE MarkFails(p)
    BY <2>5 DEF MarkFails
  <2>6. CASE Crash(p)
    BY <2>6 DEF Crash
  <2>7. CASE UpdateUnacknowledged(p)
    BY <2>7 DEF UpdateUnacknowledged
  <2> QED
    BY <1>10, <2>1, <2>2, <2>3, <2>4, <2>5, <2>6, <2>7 DEF Fail
<1>11. CASE UNCHANGED vars
  BY <1>11
<1> QED
  BY <1>1, <1>2, <1>3, <1>4, <1>5, <1>6, <1>7, <1>8, <1>9, <1>10, <1>11 DEF Next, Push

\* Every reachable state is typed.
THEOREM TypeCorrect == Spec => [](TypeOK /\ TaskOK)
  BY InitTyped, StepTyped, PTL DEF Spec

----------------------------------------------------------------------------
\* A prover that is about to mark its row has a stored proof to show for it.
MarkIsEarned == \A p \in Provers : pc[p] = "finish" => proof[task[p]] # None

Safe == FinishedHasProof /\ ProofKeysMatch /\ MarkIsEarned

\* Without rows nothing is marked and nothing proved.
LEMMA InitSafe == Init => Safe
  BY DEF Init, Safe, FinishedHasProof, ProofKeysMatch, MarkIsEarned, WithStatus

\* A step that leaves the proofs alone, marks nothing finished and moves no
\* prover to "finish" keeps Safe.
LEMMA SafeUndisturbed ==
    ASSUME Safe,
           proof' = proof,
           \A h \in Heights : status'[h] = "finished" => status[h] = "finished",
           \A p \in Provers : pc'[p] = "finish" => pc[p] = "finish" /\ task'[p] = task[p]
    PROVE  Safe'
  BY DEF Safe, FinishedHasProof, ProofKeysMatch, MarkIsEarned, WithStatus

\* Every step keeps a finished row proved, a proof made with its tier's keys,
\* and every mark earned.
LEMMA StepSafe == TypeOK /\ TaskOK /\ Safe /\ [Next]_vars => Safe'
<1> SUFFICES ASSUME TypeOK, TaskOK, Safe, [Next]_vars
             PROVE  Safe'
  OBVIOUS
<1> USE DEF TypeOK, TaskOK, Busy, Statuses, Labels, vars, tables, pushVars, proverVars,
            Goto, Exit, NextRound, At, Fault
<1>1. ASSUME NEW k \in 1 .. InsertRows, CreateBatchWitness(k)  PROVE Safe'
  <2>1. \A h \in Heights : status'[h] = "finished" => status[h] = "finished"
    BY <1>1 DEF CreateBatchWitness
  <2> QED
    BY <1>1, <2>1, SafeUndisturbed DEF CreateBatchWitness
<1>2. CASE Push
  BY <1>2, SafeUndisturbed
     DEF Push, StartPush, QueryPage, EndPush, PushCrash, LPush
<1>3. ASSUME NEW p \in Provers, StartProver(p) \/ StartRerun(p)  PROVE Safe'
  BY <1>3, SafeUndisturbed DEF StartProver, StartRerun
<1>4. ASSUME NEW p \in Provers, Fetch(p)  PROVE Safe'
  <2>1. CASE UpdateReceived(p)
    <3>1. \A h \in Heights : status'[h] = "finished" => status[h] = "finished"
      BY <2>1 DEF UpdateReceived
    <3>2. \A q \in Provers : pc'[q] = "finish" => pc[q] = "finish" /\ task'[q] = task[q]
      BY <2>1 DEF UpdateReceived
    <3> QED
      BY <2>1, <3>1, <3>2, SafeUndisturbed DEF UpdateReceived
  <2>2. CASE ~UpdateReceived(p)
    <3>1. proof' = proof /\ status' = status
      BY <1>4, <2>2 DEF Fetch, PopTask, QuitNoTask, SelectPublished, QuitNoPublished,
         RerunNoReceived, QuitNoReceived, RerunReceived, RerunPublished
    <3>2. \A q \in Provers : pc'[q] = "finish" => pc[q] = "finish" /\ task'[q] = task[q]
      BY <1>4, <2>2 DEF Fetch, PopTask, QuitNoTask, SelectPublished, QuitNoPublished,
         RerunNoReceived, QuitNoReceived, RerunReceived, RerunPublished
    <3> QED
      BY <3>1, <3>2, SafeUndisturbed
  <2> QED
    BY <2>1, <2>2
<1>5. ASSUME NEW p \in Provers, CreateProof(p) \/ CreateUnacknowledged(p)  PROVE Safe'
  <2>1. /\ pc[p] = "create" /\ task[p] \in Heights /\ proof[task[p]] = None
        /\ proof' = [proof EXCEPT ![task[p]] = Row(p)] /\ status' = status
    BY <1>5 DEF CreateProof, CreateUnacknowledged
  <2>2. /\ Row(p) \in ProofRows /\ Row(p).keys = TierOf[task[p]]
    BY <2>1, TierAssumption DEF Row, ProofRows
  <2>3. Row(p) # None
    BY <2>2, NoneAssumption
  <2>4. FinishedHasProof' /\ ProofKeysMatch'
    BY <2>1, <2>2, <2>3 DEF Safe, FinishedHasProof, ProofKeysMatch, WithStatus
  <2>5. MarkIsEarned'
    <3>1. CASE CreateProof(p)
      BY <2>1, <2>3, <3>1 DEF CreateProof, Safe, MarkIsEarned
    <3>2. CASE CreateUnacknowledged(p)
      BY <2>1, <2>3, <3>2 DEF CreateUnacknowledged, Safe, MarkIsEarned
    <3> QED
      BY <1>5, <3>1, <3>2
  <2> QED
    BY <2>4, <2>5 DEF Safe
<1>6. ASSUME NEW p \in Provers, CheckProof(p)  PROVE Safe'
  BY <1>6 DEF CheckProof, Safe, FinishedHasProof, ProofKeysMatch, MarkIsEarned, WithStatus
<1>7. ASSUME NEW p \in Provers, MarkFinished(p)  PROVE Safe'
  BY <1>7 DEF MarkFinished, Safe, FinishedHasProof, ProofKeysMatch, MarkIsEarned, WithStatus
<1>8. ASSUME NEW p \in Provers, Prove(p) \/ CreateDuplicate(p)  PROVE Safe'
  BY <1>8, SafeUndisturbed DEF Prove, CreateDuplicate
<1>9. ASSUME NEW p \in Provers,
             PopFails(p) \/ FetchFails(p) \/ CheckFails(p) \/ MarkFails(p) \/ Crash(p)
      PROVE  Safe'
  BY <1>9, SafeUndisturbed DEF PopFails, FetchFails, CheckFails, MarkFails, Crash
<1>10. ASSUME NEW p \in Provers, UpdateUnacknowledged(p)  PROVE Safe'
  <2>1. \A h \in Heights : status'[h] = "finished" => status[h] = "finished"
    BY <1>10 DEF UpdateUnacknowledged
  <2>2. \A q \in Provers : pc'[q] = "finish" => pc[q] = "finish" /\ task'[q] = task[q]
    BY <1>10 DEF UpdateUnacknowledged
  <2> QED
    BY <1>10, <2>1, <2>2, SafeUndisturbed DEF UpdateUnacknowledged
<1>11. CASE UNCHANGED vars
  BY <1>11, SafeUndisturbed
<1> QED
  BY <1>1, <1>2, <1>3, <1>4, <1>5, <1>6, <1>7, <1>8, <1>9, <1>10, <1>11
     DEF Next, Work, Fail

\* A row marked finished has its proof, and every proof the keys of its tier.
THEOREM ProofsAreSafe == Spec => [](FinishedHasProof /\ ProofKeysMatch)
<1>1. Safe => FinishedHasProof /\ ProofKeysMatch
  BY DEF Safe
<1> QED
  BY <1>1, InitTyped, StepTyped, InitSafe, StepSafe, PTL DEF Spec

\* Whatever keys a prover has loaded before, a stored proof was made with those
\* of its own batch's tier.
COROLLARY KeysMatch == Spec => []ProofKeysMatch
  BY ProofsAreSafe, PTL

----------------------------------------------------------------------------
\* No step replaces or removes a stored proof.
LEMMA StepPermanent ==
    TypeOK /\ TaskOK /\ [Next]_vars =>
        \A h \in Heights : proof[h] # None => proof'[h] = proof[h]
<1> SUFFICES ASSUME TypeOK, TaskOK, [Next]_vars, NEW h \in Heights, proof[h] # None
             PROVE  proof'[h] = proof[h]
  OBVIOUS
<1>1. ASSUME NEW p \in Provers, CreateProof(p) \/ CreateUnacknowledged(p)
      PROVE  proof'[h] = proof[h]
  BY <1>1 DEF CreateProof, CreateUnacknowledged, TypeOK, TaskOK
<1>2. ASSUME ~ \E p \in Provers : CreateProof(p) \/ CreateUnacknowledged(p)
      PROVE  proof' = proof
  BY <1>2 DEF Next, CreateBatchWitness, Push, StartPush, QueryPage, EndPush, PushCrash,
     LPush, StartProver, StartRerun, Fetch, PopTask, QuitNoTask, SelectPublished,
     QuitNoPublished, UpdateReceived, RerunNoReceived, QuitNoReceived, RerunReceived,
     RerunPublished, Work, Prove, CheckProof, CreateDuplicate, MarkFinished, Fail,
     PopFails, FetchFails, UpdateUnacknowledged, CheckFails, MarkFails, Crash, vars, tables
<1> QED
  BY <1>1, <1>2

\* The proof stored first stays, however many provers prove the batch.
THEOREM ProofsAreForever == Spec => ProofsPermanent
<1>1. TypeOK /\ TaskOK /\ [Next]_vars =>
          [\A h \in Heights : proof[h] # None => proof'[h] = proof[h]]_vars
  BY StepPermanent
<1> QED
  BY <1>1, InitTyped, StepTyped, PTL DEF Spec, ProofsPermanent

----------------------------------------------------------------------------
\* Without rows none is received.
LEMMA InitHeld == Init => ReceivedIsHeld
  BY DEF Init, ReceivedIsHeld, WithStatus

\* A step that changes neither the tables nor the state of a prover past the
\* fetch leaves every received row with its holder.
LEMMA HeldUndisturbed ==
    ASSUME ReceivedIsHeld, faults' = 0 => faults = 0,
           \A h \in Heights : status'[h] = "received" => status[h] = "received",
           proof' = proof,
           \A p \in Provers : pc[p] \in {"prove", "check", "create", "finish"}
                                 => pc'[p] = pc[p] /\ task'[p] = task[p]
    PROVE  ReceivedIsHeld'
  BY DEF ReceivedIsHeld, Holds, WithStatus

\* Every step that is not a failure leaves every received row with a prover
\* that will finish it.
LEMMA StepHeld == TypeOK /\ TaskOK /\ Safe /\ ReceivedIsHeld /\ [Next]_vars => ReceivedIsHeld'
<1> SUFFICES ASSUME TypeOK, TaskOK, Safe, ReceivedIsHeld, [Next]_vars
             PROVE  ReceivedIsHeld'
  OBVIOUS
<1> USE DEF TypeOK, TaskOK, Busy, Statuses, Labels, vars, tables, pushVars, proverVars,
            Goto, Exit, NextRound, At
<1>1. ASSUME NEW k \in 1 .. InsertRows, CreateBatchWitness(k)  PROVE ReceivedIsHeld'
  <2>1. \A h \in Heights : status'[h] = "received" => status[h] = "received"
    BY <1>1 DEF CreateBatchWitness
  <2> QED
    BY <1>1, <2>1, HeldUndisturbed DEF CreateBatchWitness
<1>2. CASE Push
  BY <1>2, HeldUndisturbed
     DEF Push, StartPush, QueryPage, EndPush, PushCrash, LPush, Fault
<1>3. ASSUME NEW p \in Provers, StartProver(p) \/ StartRerun(p)  PROVE ReceivedIsHeld'
  BY <1>3, HeldUndisturbed DEF StartProver, StartRerun
<1>4. ASSUME NEW p \in Provers, Fetch(p)  PROVE ReceivedIsHeld'
  <2>1. CASE UpdateReceived(p)
    <3> SUFFICES ASSUME faults = 0, NEW h \in Heights, status'[h] = "received"
                 PROVE  \E q \in Provers : Holds(q, h)'
      BY <2>1 DEF UpdateReceived, ReceivedIsHeld, WithStatus
    <3>1. CASE h = task[p]
      BY <2>1, <3>1 DEF UpdateReceived, Holds
    <3>2. CASE h # task[p]
      <4>1. PICK q \in Provers : Holds(q, h)
        BY <2>1, <3>2 DEF UpdateReceived, ReceivedIsHeld, WithStatus
      <4>2. q # p
        BY <2>1, <4>1 DEF UpdateReceived, Holds
      <4> QED
        BY <2>1, <4>1, <4>2 DEF UpdateReceived, Holds
    <3> QED
      BY <3>1, <3>2
  <2>2. CASE ~UpdateReceived(p)
    <3>1. proof' = proof /\ status' = status /\ faults' = faults
      BY <1>4, <2>2 DEF Fetch, PopTask, QuitNoTask, SelectPublished, QuitNoPublished,
         RerunNoReceived, QuitNoReceived, RerunReceived, RerunPublished
    <3>2. \A q \in Provers : pc[q] \in {"prove", "check", "create", "finish"}
                                => pc'[q] = pc[q] /\ task'[q] = task[q]
      BY <1>4, <2>2 DEF Fetch, PopTask, QuitNoTask, SelectPublished, QuitNoPublished,
         RerunNoReceived, QuitNoReceived, RerunReceived, RerunPublished
    <3> QED
      BY <3>1, <3>2, HeldUndisturbed
  <2> QED
    BY <2>1, <2>2
<1>5. ASSUME NEW p \in Provers, Work(p)  PROVE ReceivedIsHeld'
  <2> SUFFICES ASSUME faults = 0, NEW h \in Heights, status'[h] = "received"
               PROVE  \E q \in Provers : Holds(q, h)'
    BY <1>5 DEF Work, Prove, CheckProof, CreateProof, CreateDuplicate, MarkFinished,
       ReceivedIsHeld, WithStatus
  <2>1. status[h] = "received"
    BY <1>5 DEF Work, Prove, CheckProof, CreateProof, CreateDuplicate, MarkFinished
  <2>2. PICK q \in Provers : Holds(q, h)
    BY <2>1 DEF ReceivedIsHeld, WithStatus
  <2>3. CASE Prove(p) \/ CheckProof(p)
    BY <2>2, <2>3 DEF Prove, CheckProof, Holds
  <2>4. CASE CreateProof(p)
    <3>1. CASE h = task[p]
      BY <2>4, <3>1 DEF CreateProof, Holds
    <3>2. CASE h # task[p]
      BY <2>2, <2>4, <3>2 DEF CreateProof, Holds
    <3> QED
      BY <3>1, <3>2
  <2>5. CASE CreateDuplicate(p)
    BY <2>2, <2>5 DEF CreateDuplicate, Holds
  <2>6. CASE MarkFinished(p)
    BY <2>2, <2>6 DEF MarkFinished, Holds
  <2> QED
    BY <1>5, <2>3, <2>4, <2>5, <2>6 DEF Work
<1>6. ASSUME NEW p \in Provers, Fail(p)  PROVE ReceivedIsHeld'
  <2>1. faults' # 0
    BY <1>6 DEF Fail, PopFails, FetchFails, UpdateUnacknowledged, CheckFails,
       CreateUnacknowledged, MarkFails, Crash, Fault
  <2> QED
    BY <2>1 DEF ReceivedIsHeld
<1>7. CASE UNCHANGED vars
  BY <1>7, HeldUndisturbed
<1> QED
  BY <1>1, <1>2, <1>3, <1>4, <1>5, <1>6, <1>7 DEF Next

\* Without a failure every received row is in the hands of a live prover.
THEOREM NoOrphans == Spec => []ReceivedIsHeld
  BY InitTyped, StepTyped, InitSafe, StepSafe, InitHeld, StepHeld, PTL DEF Spec

----------------------------------------------------------------------------
\* The empty tables are the empty ledger.
LEMMA InitLedger == Init => Ledger!LedgerInit
  BY DEF Init, Ledger!LedgerInit, WithStatus

\* Every step of the tables is a step of the ledger, or leaves it as it was.
LEMMA StepLedger ==
    TypeOK /\ TaskOK /\ Safe /\ [Next]_vars => [Ledger!LedgerNext]_(Ledger!ledgerVars)
<1> SUFFICES ASSUME TypeOK, TaskOK, Safe, [Next]_vars
             PROVE  Ledger!LedgerNext \/ UNCHANGED Ledger!ledgerVars
  OBVIOUS
<1> DEFINE known == Heights \ WithStatus("absent")
           marked == WithStatus("finished")
<1> USE DEF TypeOK, TaskOK, Busy, Statuses, Labels
<1>1. ASSUME NEW k \in 1 .. InsertRows, CreateBatchWitness(k)  PROVE Ledger!LedgerNext
  <2>1. known' = known \cup NextRows(k) /\ NextRows(k) \subseteq Heights \ known
    BY <1>1 DEF CreateBatchWitness, NextRows, WithStatus
  <2>2. marked' = marked /\ proof' = proof
    BY <1>1 DEF CreateBatchWitness, NextRows, WithStatus
  <2>3. Ledger!Publish(NextRows(k))
    BY <2>1, <2>2 DEF Ledger!Publish
  <2> QED
    BY <2>1, <2>3 DEF Ledger!LedgerNext
<1>2. ASSUME NEW p \in Provers, CreateProof(p) \/ CreateUnacknowledged(p)
      PROVE  Ledger!LedgerNext
  <2>1. /\ task[p] \in known /\ proof[task[p]] = None
        /\ proof' = [proof EXCEPT ![task[p]] = Row(p)] /\ status' = status
        /\ Row(p) \in ProofRows /\ task[p] \in Heights
    BY <1>2, TierAssumption
       DEF CreateProof, CreateUnacknowledged, At, Row, ProofRows, WithStatus
  <2>2. Ledger!Record(task[p], Row(p))
    BY <2>1 DEF Ledger!Record, WithStatus
  <2> QED
    BY <2>1, <2>2 DEF Ledger!LedgerNext
<1>3. ASSUME NEW p \in Provers, MarkFinished(p)  PROVE Ledger!LedgerNext
  <2>1. /\ task[p] \in Heights /\ status[task[p]] # "absent" /\ proof[task[p]] # None
        /\ status' = [status EXCEPT ![task[p]] = "finished"] /\ proof' = proof
    BY <1>3 DEF MarkFinished, At, Safe, MarkIsEarned
  <2>2. known' = known /\ marked' = marked \cup {task[p]}
    BY <2>1 DEF WithStatus
  <2>3. Ledger!Mark(task[p])
    BY <2>1, <2>2 DEF Ledger!Mark
  <2> QED
    BY <2>1, <2>3 DEF Ledger!LedgerNext
<1>4. ASSUME NEW p \in Provers, UpdateReceived(p) \/ UpdateUnacknowledged(p)
      PROVE  Ledger!LedgerNext
  <2>1. /\ task[p] \in Heights /\ status[task[p]] # "absent"
        /\ status' = [status EXCEPT ![task[p]] = "received"] /\ proof' = proof
    BY <1>4 DEF UpdateReceived, UpdateUnacknowledged, At
  <2>2. known' = known /\ marked' = marked \ {task[p]}
    BY <2>1 DEF WithStatus
  <2>3. Ledger!Unmark(task[p])
    BY <2>1, <2>2 DEF Ledger!Unmark
  <2> QED
    BY <2>1, <2>3 DEF Ledger!LedgerNext
<1>5. ASSUME ~ \E k \in 1 .. InsertRows : CreateBatchWitness(k),
             ~ \E p \in Provers : \/ CreateProof(p) \/ CreateUnacknowledged(p)
                                  \/ MarkFinished(p) \/ UpdateReceived(p)
                                  \/ UpdateUnacknowledged(p)
      PROVE  UNCHANGED Ledger!ledgerVars
  <2>1. status' = status /\ proof' = proof
    BY <1>5 DEF Next, Push, StartPush, QueryPage, EndPush, PushCrash,
       LPush, StartProver, StartRerun, Fetch, PopTask, QuitNoTask, SelectPublished,
       QuitNoPublished, RerunNoReceived, QuitNoReceived, RerunReceived,
       RerunPublished, Work, Prove, CheckProof, CreateDuplicate, Fail,
       PopFails, FetchFails, CheckFails, MarkFails, Crash, vars, tables
  <2> QED
    BY <2>1 DEF Ledger!ledgerVars, WithStatus
<1> QED
  BY <1>1, <1>2, <1>3, <1>4, <1>5

\* The witness and proof tables implement the ledger of proofs.
THEOREM TablesAreLedger == Spec => ImplementsLedger
  BY InitTyped, StepTyped, InitSafe, StepSafe, InitLedger, StepLedger, PTL
     DEF Spec, ImplementsLedger, Ledger!LedgerSpec

----------------------------------------------------------------------------
(* Paging.                                                                 *)

\* A height has at most as many smaller ones as its number says, and fewer
\* of a smaller set.
LEMMA RankBound ==
    ASSUME NEW h \in Heights, NEW S \in SUBSET Heights
    PROVE  /\ Rank(h, S) \in Nat /\ Rank(h, S) < N
           /\ \A T \in SUBSET S : Rank(h, T) <= Rank(h, S) /\ Rank(h, T) \in Nat
<1> DEFINE B == {g \in S : g < h}
<1>1. h \in Nat /\ h < N /\ N \in Nat
  BY CountAssumption DEF Heights
<1>2. IsFiniteSet(0 .. h-1) /\ Cardinality(0 .. h-1) = h
  BY <1>1, FS_Interval
<1>3. B \subseteq 0 .. h-1
  <2> SUFFICES ASSUME NEW g \in S, g < h  PROVE g \in 0 .. h-1
    OBVIOUS
  <2>1. g \in 0 .. N-1
    BY DEF Heights
  <2> QED
    BY <1>1, <2>1
<1>4. IsFiniteSet(B) /\ Cardinality(B) <= h /\ Cardinality(B) \in Nat
  BY <1>2, <1>3, FS_Subset, FS_CardinalityType
<1>5. ASSUME NEW T \in SUBSET S
      PROVE  Cardinality({g \in T : g < h}) <= Cardinality(B) /\ Cardinality({g \in T : g < h}) \in Nat
  <2>1. {g \in T : g < h} \subseteq B
    OBVIOUS
  <2> QED
    BY <1>4, <2>1, FS_Subset, FS_CardinalityType
<1> QED
  BY <1>1, <1>4, <1>5 DEF Rank

\* One page holds every published row, in whatever order.
LEMMA OnePage ==
    ASSUME N <= PageLimit
    PROVE  Page(0) = WithStatus("published") /\ \A page \in Pages(0) : page = Page(0)
<1>1. ASSUME NEW h \in WithStatus("published")
      PROVE  0 <= Rank(h, WithStatus("published")) /\ Rank(h, WithStatus("published")) < 0 + PageLimit
  <2>1. h \in Heights /\ WithStatus("published") \in SUBSET Heights
    BY DEF WithStatus
  <2>2. Rank(h, WithStatus("published")) \in Nat /\ Rank(h, WithStatus("published")) < N
    BY <2>1, RankBound
  <2> QED
    BY <2>2, CountAssumption, PageAssumption
<1>2. Page(0) = WithStatus("published")
  BY <1>1 DEF Page
<1>3. ASSUME NEW page \in Pages(0)  PROVE page = Page(0)
  <2>1. IsFiniteSet(WithStatus("published"))
    <3>1. IsFiniteSet(Heights) /\ WithStatus("published") \in SUBSET Heights
      BY CountAssumption, FS_Interval DEF Heights, WithStatus
    <3> QED
      BY <3>1, FS_Subset
  <2>2. page \subseteq WithStatus("published")
    BY <1>3, PageType
  <2>3. CASE ByHeight
    BY <1>3, <2>3 DEF Pages
  <2>4. CASE ~ByHeight
    <3>1. Cardinality(page) = Cardinality(WithStatus("published"))
      BY <1>2, <1>3, <2>4 DEF Pages, kSubset
    <3> QED
      BY <1>2, <2>1, <2>2, <3>1, FS_Subset
  <2> QED
    BY <2>3, <2>4
<1> QED
  BY <1>2, <1>3

\* While the pusher is at it, what is not on its way to a prover is on the
\* page in hand, or no page has been asked for.
OnItsWay(h) ==
    \/ Queued(h)
    \/ pushPc = "exec" /\ h \in pushPage
    \/ pushPc = "query" /\ pushOffset = 0

PushedLate ==
    /\ pushes > 0 => WithStatus("absent") = {}
    /\ pushPc # "idle" => pushes > 0

PushInv ==
    /\ PushedLate
    /\ faults = 0 /\ pushes > 0 => \A h \in WithStatus("published") : OnItsWay(h)

\* A row stays on its way when neither the queue nor the pusher nor a prover
\* between queue and table changes.
LEMMA OnItsWayUndisturbed ==
    ASSUME PushInv, UNCHANGED <<queue, pushVars>>, faults' = 0 => faults = 0,
           \A h \in Heights : status'[h] = "published" => status[h] = "published",
           \A h \in Heights : status'[h] = "absent" => status[h] = "absent",
           \A p \in Provers : pc[p] \in {"select", "update"}
                                 => pc'[p] \in {"select", "update"} /\ task'[p] = task[p]
    PROVE  PushInv'
<1>1. PushedLate'
  BY DEF PushInv, PushedLate, WithStatus, pushVars
<1>2. ASSUME faults' = 0, pushes' > 0, NEW h \in WithStatus("published")'  PROVE OnItsWay(h)'
  <2>1. h \in WithStatus("published") /\ faults = 0 /\ pushes > 0
    BY <1>2 DEF WithStatus, pushVars
  <2>2. OnItsWay(h)
    BY <2>1 DEF PushInv
  <2>3. Queued(h) => Queued(h)'
    BY DEF Queued
  <2> QED
    BY <2>2, <2>3 DEF OnItsWay, pushVars
<1> QED
  BY <1>1, <1>2 DEF PushInv

\* Nothing is pushed before the witness service is done.
LEMMA StepPushedLate ==
    ~EarlyPush /\ TypeOK /\ TaskOK /\ PushedLate /\ [Next]_vars => PushedLate'
<1> SUFFICES ASSUME ~EarlyPush, TypeOK, TaskOK, PushedLate, [Next]_vars  PROVE PushedLate'
  OBVIOUS
<1>1. CASE Push
  <2>1. status' = status
    BY <1>1 DEF Push, StartPush, QueryPage, EndPush, PushCrash, LPush, tables
  <2>2. CASE StartPush
    BY <2>1, <2>2 DEF StartPush, PushedLate, WithStatus, TypeOK
  <2>3. CASE ~StartPush
    BY <1>1, <2>1, <2>3
       DEF Push, QueryPage, EndPush, PushCrash, LPush, PushedLate, WithStatus
  <2> QED
    BY <2>2, <2>3
<1>2. CASE ~Push
  <2>1. UNCHANGED <<pushPc, pushes>>
    BY <1>2 DEF Next, CreateBatchWitness, StartProver, StartRerun, Fetch, PopTask, QuitNoTask,
       SelectPublished, QuitNoPublished, UpdateReceived, RerunNoReceived, QuitNoReceived,
       RerunReceived, RerunPublished, Work, Prove, CheckProof, CreateProof, CreateDuplicate,
       MarkFinished, Fail, PopFails, FetchFails, UpdateUnacknowledged, CheckFails,
       CreateUnacknowledged, MarkFails, Crash, vars, pushVars
  <2>2. \A h \in Heights : status'[h] = "absent" => status[h] = "absent"
    BY <1>2 DEF Next, CreateBatchWitness, StartProver, StartRerun, Fetch, PopTask, QuitNoTask,
       SelectPublished, QuitNoPublished, UpdateReceived, RerunNoReceived, QuitNoReceived,
       RerunReceived, RerunPublished, Work, Prove, CheckProof, CreateProof, CreateDuplicate,
       MarkFinished, Fail, PopFails, FetchFails, UpdateUnacknowledged, CheckFails,
       CreateUnacknowledged, MarkFails, Crash, vars, tables, TypeOK
  <2> QED
    BY <2>1, <2>2 DEF PushedLate, WithStatus
<1> QED
  BY <1>1, <1>2

\* Every step but a failure leaves the published rows on their way, as long
\* as they fit on one page.
LEMMA StepPush ==
    ASSUME ~EarlyPush, N <= PageLimit,
           TypeOK, TaskOK, PushInv, [Next]_vars
    PROVE  PushInv'
<1> USE DEF vars, tables, pushVars, proverVars, Goto, Exit, NextRound, At
<1>1. PushedLate'
  BY StepPushedLate DEF PushInv
<1>2. ASSUME NEW k \in 1 .. InsertRows, CreateBatchWitness(k)  PROVE PushInv'
  <2>1. WithStatus("absent") # {} /\ UNCHANGED <<pushes, pushPc>>
    BY <1>2 DEF CreateBatchWitness
  <2>2. ~ (pushes > 0)
    BY <2>1 DEF PushInv, PushedLate
  <2> QED
    BY <1>1, <2>1, <2>2 DEF PushInv
<1>3. CASE StartPush
  <2>1. pushPc' = "query" /\ pushOffset' = 0
    BY <1>3 DEF StartPush
  <2> QED
    BY <1>1, <2>1 DEF PushInv, OnItsWay
<1>4. CASE QueryPage
  <2>1. status' = status /\ queue' = queue /\ pushes' = pushes /\ faults' = faults
        /\ pc' = pc /\ task' = task
        /\ pushPc = "query" /\ pushPc' = "exec" /\ pushPage' \in Pages(pushOffset)
    BY <1>4 DEF QueryPage
  <2>2. ASSUME faults = 0, pushes > 0, NEW h \in WithStatus("published")
        PROVE  OnItsWay(h)'
    <3>1. CASE Queued(h)
      <4>1. Queued(h)'
        BY <2>1, <3>1 DEF Queued
      <4> QED
        BY <4>1 DEF OnItsWay
    <3>2. CASE pushOffset = 0
      BY <2>1, <2>2, <3>2, OnePage DEF OnItsWay
    <3>3. Queued(h) \/ pushOffset = 0
      BY <2>1, <2>2 DEF PushInv, OnItsWay
    <3> QED
      BY <3>1, <3>2, <3>3
  <2>3. WithStatus("published")' = WithStatus("published")
    BY <2>1 DEF WithStatus
  <2> QED
    BY <1>1, <2>1, <2>2, <2>3 DEF PushInv
<1>5. CASE EndPush
  <2>1. status' = status /\ queue' = queue /\ pushes' = pushes /\ faults' = faults
        /\ pc' = pc /\ task' = task
        /\ pushPc = "query" /\ Page(pushOffset) = {}
    BY <1>5 DEF EndPush
  <2>2. ASSUME faults = 0, pushes > 0, NEW h \in WithStatus("published")
        PROVE  OnItsWay(h)'
    <3>1. Queued(h) \/ pushOffset = 0
      BY <2>1, <2>2 DEF PushInv, OnItsWay
    <3>2. pushOffset # 0
      BY <2>1, <2>2, OnePage
    <3>3. Queued(h)'
      BY <2>1, <3>1, <3>2 DEF Queued
    <3> QED
      BY <3>3 DEF OnItsWay
  <2>3. WithStatus("published")' = WithStatus("published")
    BY <2>1 DEF WithStatus
  <2> QED
    BY <1>1, <2>1, <2>2, <2>3 DEF PushInv
<1>6. ASSUME NEW h \in Heights, LPush(h)  PROVE PushInv'
  <2>1. status' = status /\ queue' = Append(queue, h) /\ pushes' = pushes /\ faults' = faults
        /\ pc' = pc /\ task' = task /\ queue \in Seq(Heights)
        /\ pushPc = "exec" /\ pushPage' = pushPage \ {h}
        /\ pushPc' = IF pushPage' = {} THEN "query" ELSE "exec"
    BY <1>6 DEF LPush, TypeOK
  <2>2. ASSUME faults = 0, pushes > 0, NEW g \in WithStatus("published")
        PROVE  OnItsWay(g)'
    <3>1. \A i \in 1 .. Len(queue) : i \in 1 .. Len(queue') /\ queue'[i] = queue[i]
      BY <2>1
    <3>2. Queued(g) => Queued(g)'
      BY <2>1, <3>1 DEF Queued
    <3>3. Queued(h)'
      <4>1. Len(queue') = Len(queue) + 1 /\ Len(queue) \in Nat /\ queue'[Len(queue) + 1] = h
        BY <2>1
      <4> QED
        BY <4>1 DEF Queued
    <3>4. Queued(g) \/ g \in pushPage
      BY <2>1, <2>2 DEF PushInv, OnItsWay
    <3>5. g \in pushPage /\ g # h => pushPc' = "exec" /\ g \in pushPage'
      BY <2>1
    <3> QED
      BY <3>2, <3>3, <3>4, <3>5 DEF OnItsWay
  <2>3. WithStatus("published")' = WithStatus("published")
    BY <2>1 DEF WithStatus
  <2> QED
    BY <1>1, <2>1, <2>2, <2>3 DEF PushInv
<1>7. ASSUME NEW p \in Provers, StartProver(p) \/ StartRerun(p)  PROVE PushInv'
  BY <1>7, OnItsWayUndisturbed DEF StartProver, StartRerun, TypeOK
<1>8. ASSUME NEW p \in Provers, Fetch(p)  PROVE PushInv'
  <2>1. CASE PopTask(p)
    <3>1. status' = status /\ queue' = Tail(queue) /\ pushes' = pushes /\ faults' = faults
          /\ UNCHANGED pushVars /\ queue # <<>> /\ queue \in Seq(Heights)
          /\ pc[p] = "pop" /\ pc'[p] = "select" /\ task'[p] = Head(queue)
          /\ \A q \in Provers : q # p => pc'[q] = pc[q] /\ task'[q] = task[q]
      BY <2>1 DEF PopTask, TypeOK
    <3>2. ASSUME NEW h \in Heights, Queued(h)  PROVE Queued(h)'
      <4>1. ASSUME NEW i \in 1 .. Len(queue), queue[i] = h  PROVE Queued(h)'
        <5>1. CASE i = 1
          BY <3>1, <4>1, <5>1 DEF Queued
        <5>2. CASE i # 1
          <6>1. i - 1 \in 1 .. Len(Tail(queue)) /\ Tail(queue)[i-1] = queue[i]
            BY <3>1, <5>2
          <6> QED
            BY <3>1, <4>1, <6>1 DEF Queued
        <5> QED
          BY <5>1, <5>2
      <4>2. ASSUME NEW q \in Provers, task[q] = h, pc[q] \in {"select", "update"}
            PROVE  Queued(h)'
        BY <3>1, <4>2 DEF Queued
      <4> QED
        BY <3>2, <4>1, <4>2 DEF Queued
    <3>3. \A h \in WithStatus("published") : OnItsWay(h) => OnItsWay(h)'
      BY <3>1, <3>2 DEF OnItsWay, WithStatus
    <3>4. WithStatus("published")' = WithStatus("published")
      BY <3>1 DEF WithStatus
    <3> QED
      BY <1>1, <3>1, <3>3, <3>4 DEF PushInv
  <2>2. CASE QuitNoPublished(p)
    <3>1. status' = status /\ queue' = queue /\ faults' = faults
          /\ UNCHANGED pushVars /\ status[task[p]] # "published"
          /\ \A q \in Provers : q # p => pc'[q] = pc[q] /\ task'[q] = task[q]
      BY <2>2 DEF QuitNoPublished, TypeOK
    <3>2. \A h \in WithStatus("published") : Queued(h) => Queued(h)'
      BY <3>1 DEF Queued, WithStatus
    <3>3. \A h \in WithStatus("published") : OnItsWay(h) => OnItsWay(h)'
      BY <3>1, <3>2 DEF OnItsWay
    <3>4. WithStatus("published")' = WithStatus("published")
      BY <3>1 DEF WithStatus
    <3> QED
      BY <1>1, <3>1, <3>3, <3>4 DEF PushInv
  <2>3. CASE UpdateReceived(p)
    <3>1. status' = [status EXCEPT ![task[p]] = "received"] /\ queue' = queue /\ faults' = faults
          /\ UNCHANGED pushVars /\ task[p] \in Heights
          /\ \A q \in Provers : q # p => pc'[q] = pc[q] /\ task'[q] = task[q]
      BY <2>3 DEF UpdateReceived, TypeOK, TaskOK, Busy
    <3>2. \A h \in WithStatus("published")' : h \in WithStatus("published") /\ h # task[p]
      BY <3>1 DEF WithStatus, TypeOK
    <3>3. \A h \in WithStatus("published")' : Queued(h) => Queued(h)'
      BY <3>1, <3>2 DEF Queued
    <3>4. \A h \in WithStatus("published")' : OnItsWay(h) => OnItsWay(h)'
      BY <3>1, <3>3 DEF OnItsWay
    <3> QED
      BY <1>1, <3>1, <3>2, <3>4 DEF PushInv
  <2>4. CASE ~ (PopTask(p) \/ QuitNoPublished(p) \/ UpdateReceived(p))
    <3>1. status' = status /\ queue' = queue /\ faults' = faults /\ UNCHANGED pushVars
      BY <1>8, <2>4 DEF Fetch, QuitNoTask, SelectPublished,
         RerunNoReceived, QuitNoReceived, RerunReceived, RerunPublished
    <3>2. \A q \in Provers : pc[q] \in {"select", "update"}
                                => pc'[q] \in {"select", "update"} /\ task'[q] = task[q]
      BY <1>8, <2>4 DEF Fetch, QuitNoTask, SelectPublished,
         RerunNoReceived, QuitNoReceived, RerunReceived, RerunPublished, TypeOK
    <3> QED
      BY <3>1, <3>2, OnItsWayUndisturbed
  <2> QED
    BY <2>1, <2>2, <2>3, <2>4
<1>9. ASSUME NEW p \in Provers, Work(p)  PROVE PushInv'
  <2>1. UNCHANGED <<queue, pushVars, faults>>
    BY <1>9 DEF Work, Prove, CheckProof, CreateProof, CreateDuplicate, MarkFinished
  <2>2. /\ \A h \in Heights : status'[h] = "published" => status[h] = "published"
        /\ \A h \in Heights : status'[h] = "absent" => status[h] = "absent"
    BY <1>9 DEF Work, Prove, CheckProof, CreateProof, CreateDuplicate, MarkFinished, TypeOK
  <2>3. \A q \in Provers : pc[q] \in {"select", "update"}
                              => pc'[q] \in {"select", "update"} /\ task'[q] = task[q]
    BY <1>9 DEF Work, Prove, CheckProof, CreateProof, CreateDuplicate, MarkFinished, TypeOK
  <2> QED
    BY <2>1, <2>2, <2>3, OnItsWayUndisturbed
<1>10. ASSUME (\E p \in Provers : Fail(p)) \/ PushCrash  PROVE PushInv'
  <2>1. faults' # 0
    BY <1>10 DEF Fail, PopFails, FetchFails, UpdateUnacknowledged, CheckFails,
       CreateUnacknowledged, MarkFails, Crash, PushCrash, Fault, TypeOK
  <2> QED
    BY <1>1, <2>1 DEF PushInv
<1>11. CASE UNCHANGED vars
  BY <1>11, OnItsWayUndisturbed
<1> QED
  BY <1>2, <1>3, <1>4, <1>5, <1>6, <1>7, <1>8, <1>9, <1>10, <1>11 DEF Next, Push

\* When all witnesses are in the table before the tasks are pushed, and one
\* page of the query holds them all, the pusher leaves no published row
\* behind: once it says that there are no more, each is in the queue or in
\* the hands of a prover, unless something failed.
THEOREM NothingForgotten ==
    ASSUME ~EarlyPush, N <= PageLimit
    PROVE  Spec => []PublishedIsQueued
<1>1. Init => PushInv
  BY DEF Init, PushInv, PushedLate
<1>2. TypeOK /\ TaskOK /\ PushInv /\ [Next]_vars => PushInv'
  BY StepPush
<1>3. PushInv => PublishedIsQueued
  BY DEF PushInv, PublishedIsQueued, OnItsWay
<1> QED
  BY <1>1, <1>2, <1>3, InitTyped, StepTyped, PTL DEF Spec

----------------------------------------------------------------------------
(* The documented procedure: tasks are pushed once, when every witness is  *)
(* in the table, and -rerun runs alone.                                    *)

Fetching(p) == pc[p] \in {"select", "update"}
Proving(p) == pc[p] \in {"prove", "check", "create", "finish"}
InQueue(h) == \E i \in 1 .. Len(queue) : queue[i] = h
OnPage(h) == pushPc = "exec" /\ h \in pushPage
Pushed(h) == InQueue(h) \/ (\E p \in Provers : Fetching(p) /\ task[p] = h)

\* A height is in one place at most: on the page, in the queue, or with one
\* prover that has popped it.
TaskOnce ==
    /\ \A i, j \in 1 .. Len(queue) : queue[i] = queue[j] => i = j
    /\ \A p, q \in Provers : Fetching(p) /\ Fetching(q) /\ task[p] = task[q] => p = q
    /\ \A p \in Provers : Fetching(p) => ~InQueue(task[p])
    /\ \A h \in Heights : OnPage(h) => ~Pushed(h)

\* The pages that are still to come hold nothing that has been on one; when
\* one page holds all rows, they hold nothing.
Behind(h) == Rank(h, WithStatus("published")) < pushOffset
AllPaged == N <= PageLimit /\ pushOffset # 0
PushOnce ==
    /\ pushes <= 1
    /\ pushPc # "idle" => pushes = 1
    /\ pushes > 0 => WithStatus("absent") = {}
    /\ pushes = 0 => \A h \in Heights : ~Pushed(h)
    /\ pushPc # "idle" =>
           \A h \in WithStatus("published") :
               Pushed(h) \/ OnPage(h) \/ AllPaged => Behind(h)

\* Provers of both modes are never up at once, nor two of -rerun.
OneMode ==
    \A p \in Provers :
        /\ pc[p] = "pop" \/ Fetching(p) \/ pc[p] = "down" => mode[p] = "normal"
        /\ pc[p] \in {"readReceived", "readPublished"} => mode[p] = "rerun"
        /\ mode[p] = "rerun" => \A q \in Provers : q # p => pc[q] = "down"

\* A prover about to take a row has found it published, and nobody took it
\* in between; one that has taken it keeps it from being published.
TakenOnce ==
    \A p \in Provers :
        /\ pc[p] = "update" => status[task[p]] = "published"
        /\ Proving(p) /\ mode[p] = "normal" => status[task[p]] \notin {"absent", "published"}

OnceInv == TaskOnce /\ PushOnce /\ OneMode /\ TakenOnce

\* Fewer heights have a small rank than there are small ranks.
LEMMA SmallRanks ==
    ASSUME NEW S \in SUBSET Heights, NEW k \in Nat
    PROVE  /\ IsFiniteSet({g \in S : Rank(g, S) < k})
           /\ Cardinality({g \in S : Rank(g, S) < k}) <= k
<1> DEFINE A == {g \in S : Rank(g, S) < k}
<1>1. IsFiniteSet(Heights) /\ Heights \subseteq Nat /\ N \in Nat /\ \A h \in Heights : h <= N
  BY CountAssumption, FS_Interval DEF Heights
<1>2. IsFiniteSet(A) /\ A \subseteq Nat /\ \A h \in A : h <= N
  BY <1>1, FS_Subset
<1>3. CASE A = {}
  BY <1>3, FS_EmptySet
<1>4. CASE A # {}
  <2>1. PICK m \in A : \A g \in A : g <= m
    BY <1>1, <1>2, <1>4, GreatestNat
  <2> DEFINE B == {g \in S : g < m}
  <2>2. A \ {m} \subseteq B
    BY <1>2, <2>1
  <2>3. IsFiniteSet(B)
    BY <1>1, FS_Subset
  <2>4. Cardinality(A \ {m}) <= Cardinality(B) /\ Cardinality(A \ {m}) = Cardinality(A) - 1
    BY <1>2, <2>1, <2>2, <2>3, FS_Subset, FS_RemoveElement
  <2>5. Cardinality(B) < k /\ Cardinality(B) \in Nat
    BY <2>1, <2>3, FS_CardinalityType DEF Rank
  <2>6. Cardinality(A) \in Nat
    BY <1>2, FS_CardinalityType
  <2> QED
    BY <1>2, <2>4, <2>5, <2>6
<1> QED
  BY <1>3, <1>4

\* The offset advances past the whole page.
LEMMA PageBehind ==
    ASSUME NEW offset \in Nat, NEW h \in Page(offset)
    PROVE  Rank(h, WithStatus("published")) < offset + Cardinality(Page(offset))
<1> DEFINE S == WithStatus("published")
           A == {g \in S : Rank(g, S) < offset}
           C == Page(offset) \ {h}
           B == {g \in S : g < h}
<1>1. S \in SUBSET Heights /\ h \in S /\ h \in Heights /\ Page(offset) \subseteq S
  BY DEF WithStatus, Page
<1>2. IsFiniteSet(Heights) /\ Heights \subseteq Nat
  BY CountAssumption, FS_Interval DEF Heights
<1>3. IsFiniteSet(A) /\ Cardinality(A) <= offset /\ Cardinality(A) \in Nat
  BY <1>1, SmallRanks, FS_CardinalityType
<1>4. IsFiniteSet(Page(offset)) /\ IsFiniteSet(C)
  BY <1>1, <1>2, FS_Subset
<1>5. Cardinality(C) = Cardinality(Page(offset)) - 1 /\ Cardinality(C) \in Nat
      /\ Cardinality(Page(offset)) \in Nat
  BY <1>4, FS_RemoveElement, FS_CardinalityType
<1>6. B \subseteq A \cup C
  <2> SUFFICES ASSUME NEW g \in S, g < h, ~ (Rank(g, S) < offset)  PROVE g \in C
    OBVIOUS
  <2>1. g \in Heights /\ g \in Nat /\ h \in Nat
    BY <1>1, <1>2
  <2>2. {x \in S : x < g} \subseteq B
    <3> SUFFICES ASSUME NEW x \in S, x < g  PROVE x < h
      OBVIOUS
    <3>1. x \in Nat
      BY <1>1, <1>2
    <3> QED
      BY <2>1, <3>1
  <2>3. IsFiniteSet(B)
    BY <1>1, <1>2, FS_Subset
  <2>4. Rank(g, S) <= Rank(h, S) /\ Rank(g, S) \in Nat /\ Rank(h, S) \in Nat
    BY <2>2, <2>3, FS_Subset, FS_CardinalityType DEF Rank
  <2>5. Rank(h, S) < offset + PageLimit
    BY DEF Page
  <2>6. offset <= Rank(g, S) /\ Rank(g, S) < offset + PageLimit
    BY <2>4, <2>5, PageAssumption
  <2> QED
    BY <2>1, <2>6 DEF Page
<1>7. IsFiniteSet(A \cup C) /\ Cardinality(A \cup C) <= Cardinality(A) + Cardinality(C)
  <2>1. IsFiniteSet(A \cap C) /\ Cardinality(A \cap C) \in Nat
    BY <1>3, FS_Intersection, FS_CardinalityType
  <2>2. IsFiniteSet(A \cup C)
        /\ Cardinality(A \cup C) = Cardinality(A) + Cardinality(C) - Cardinality(A \cap C)
    BY <1>3, <1>4, FS_Union
  <2> QED
    BY <1>3, <1>5, <2>1, <2>2
<1>8. Cardinality(B) <= Cardinality(A \cup C) /\ Cardinality(B) \in Nat
      /\ Cardinality(A \cup C) \in Nat
  BY <1>6, <1>7, FS_Subset, FS_CardinalityType
<1> QED
  BY <1>3, <1>5, <1>7, <1>8 DEF Rank

\* Taking a height out of the queue or from a prover, and giving up the
\* published status, disturbs neither.
LEMMA PlacesUndisturbed ==
    ASSUME TypeOK, TaskOnce, PushOnce, UNCHANGED <<queue, pushVars>>,
           \A p \in Provers : Fetching(p)' => Fetching(p) /\ task'[p] = task[p],
           \A h \in Heights : status'[h] = "published" => status[h] = "published",
           \A h \in Heights : status'[h] = "absent" => status[h] = "absent"
    PROVE  TaskOnce' /\ PushOnce'
<1> DEFINE S == WithStatus("published")
<1>1. \A h : InQueue(h)' = InQueue(h) /\ OnPage(h)' = OnPage(h)
  BY DEF InQueue, OnPage, pushVars
<1>2. \A h : Pushed(h)' => Pushed(h)
  BY <1>1 DEF Pushed
<1>3. TaskOnce'
  BY <1>1, <1>2 DEF TaskOnce
<1>4. S' \in SUBSET S /\ S \in SUBSET Heights
  BY DEF WithStatus
<1>5. ASSUME NEW h \in S', Behind(h)  PROVE Behind(h)'
  <2>1. h \in Heights /\ Rank(h, S') <= Rank(h, S) /\ Rank(h, S') \in Nat /\ Rank(h, S) \in Nat
    BY <1>4, RankBound
  <2>2. Rank(h, S) < pushOffset /\ pushOffset \in Nat /\ pushOffset' = pushOffset
    BY <1>5 DEF Behind, TypeOK, pushVars
  <2>3. Rank(h, S') < pushOffset'
    BY <2>1, <2>2
  <2> QED
    BY <2>3 DEF Behind, Rank
<1>6. PushOnce'
  <2>1. pushes' = pushes /\ pushPc' = pushPc
    BY DEF pushVars
  <2>2. WithStatus("absent")' \subseteq WithStatus("absent")
    BY DEF WithStatus
  <2>3. pushPc # "idle" => \A h \in S' : (Pushed(h) \/ OnPage(h) \/ AllPaged)' => Behind(h)'
    BY <1>1, <1>2, <1>4, <1>5 DEF PushOnce, AllPaged, pushVars
  <2> QED
    BY <1>2, <2>1, <2>2, <2>3 DEF PushOnce
<1> QED
  BY <1>3, <1>6

\* A prover takes a task from the queue, or loses it.
LEMMA PopOnce ==
    ASSUME TypeOK, TaskOnce, PushOnce, NEW p \in Provers, PopTask(p) \/ PopFails(p)
    PROVE  TaskOnce' /\ PushOnce'
<1> DEFINE h == Head(queue)
<1>1. queue # <<>> /\ queue \in Seq(Heights) /\ queue' = Tail(queue) /\ UNCHANGED <<pushVars, status>>
      /\ pc[p] = "pop" /\ \A q \in Provers : q # p => pc'[q] = pc[q] /\ task'[q] = task[q]
  BY DEF PopTask, PopFails, TypeOK, tables, proverVars, Goto, At
<1>2. h = queue[1] /\ h \in Heights /\ InQueue(h) /\ Len(queue) \in Nat \ {0}
  BY <1>1 DEF InQueue
<1>3. Fetching(p)' => task'[p] = h /\ pc'[p] = "select"
  BY <1>1 DEF PopTask, PopFails, TypeOK, Goto, At, Fetching, proverVars
<1>4. Len(queue') = Len(queue) - 1 /\ \A i \in 1 .. Len(queue') : queue'[i] = queue[i+1]
  BY <1>1
<1> HIDE DEF h
<1>5. ASSUME NEW g, InQueue(g)'  PROVE InQueue(g) /\ g # h
  <2>1. PICK i \in 1 .. Len(queue') : queue'[i] = g
    BY <1>5 DEF InQueue
  <2>2. i + 1 \in 1 .. Len(queue) /\ 1 \in 1 .. Len(queue) /\ i + 1 # 1 /\ queue[i+1] = g
    BY <1>2, <1>4, <2>1
  <2> QED
    BY <1>2, <2>2 DEF InQueue, TaskOnce
<1>6. ASSUME NEW q \in Provers, Fetching(q)'
      PROVE  (q = p /\ task'[q] = h) \/ (q # p /\ Fetching(q) /\ task'[q] = task[q] /\ task[q] # h)
  BY <1>1, <1>2, <1>3, <1>6 DEF TaskOnce, Fetching
<1>7. \A g : Pushed(g)' => Pushed(g)
  BY <1>2, <1>5, <1>6 DEF Pushed
<1>8. \A g : OnPage(g)' = OnPage(g)
  BY <1>1 DEF OnPage, pushVars
<1>9. TaskOnce'
  <2>1. \A i, j \in 1 .. Len(queue') : queue'[i] = queue'[j] => i = j
    <3> SUFFICES ASSUME NEW i \in 1 .. Len(queue'), NEW j \in 1 .. Len(queue'), queue'[i] = queue'[j]
                 PROVE  i = j
      OBVIOUS
    <3>1. i + 1 \in 1 .. Len(queue) /\ j + 1 \in 1 .. Len(queue) /\ queue[i+1] = queue[j+1]
      BY <1>2, <1>4
    <3>2. i + 1 = j + 1
      BY <3>1 DEF TaskOnce
    <3> QED
      BY <3>2
  <2>2. \A q \in Provers : Fetching(q)' => ~InQueue(task[q])'
    BY <1>5, <1>6 DEF TaskOnce
  <2>3. \A q, r \in Provers : Fetching(q)' /\ Fetching(r)' /\ task'[q] = task'[r] => q = r
    BY <1>6 DEF TaskOnce
  <2>4. \A g \in Heights : OnPage(g)' => ~Pushed(g)'
    BY <1>7, <1>8 DEF TaskOnce
  <2> QED
    BY <2>1, <2>2, <2>3, <2>4 DEF TaskOnce
<1>10. \A g : Behind(g)' = Behind(g)
  BY <1>1 DEF Behind, Rank, WithStatus, pushVars
<1>11. PushOnce'
  BY <1>1, <1>7, <1>8, <1>10 DEF PushOnce, AllPaged, pushVars, WithStatus
<1> QED
  BY <1>9, <1>11

\* A page is the one by height, too, when one page holds all: a page after it
\* is empty.
LEMMA PageIs ==
    ASSUME TypeOK, PushOnce, ByHeight \/ N <= PageLimit, pushPc = "query",
           Page(pushOffset) # {}, NEW page \in Pages(pushOffset)
    PROVE  page = Page(pushOffset) /\ ~AllPaged
<1>1. ASSUME AllPaged  PROVE FALSE
  <2>1. PICK h \in Page(pushOffset) : TRUE
    OBVIOUS
  <2>2. h \in WithStatus("published") /\ h \in Heights /\ pushOffset <= Rank(h, WithStatus("published"))
    BY DEF Page, WithStatus
  <2>3. Rank(h, WithStatus("published")) < pushOffset
    BY <1>1, <2>2 DEF PushOnce, Behind
  <2>4. Rank(h, WithStatus("published")) \in Nat /\ pushOffset \in Nat
    BY <2>2, RankBound DEF WithStatus, TypeOK
  <2> QED
    BY <2>2, <2>3, <2>4
<1>2. CASE ByHeight
  BY <1>1, <1>2 DEF Pages
<1>3. CASE N <= PageLimit
  BY <1>1, <1>3, OnePage DEF AllPaged
<1> QED
  BY <1>2, <1>3

\* The pusher puts nothing on a page, and on the queue, a second time.
LEMMA PushKeepsOnce ==
    ASSUME TypeOK, TaskOnce, PushOnce, Push, ~EarlyPush, MaxPush \in {0, 1},
           ByHeight \/ N <= PageLimit
    PROVE  TaskOnce' /\ PushOnce'
<1>1. UNCHANGED <<pc, task, status>>
  BY DEF Push, StartPush, QueryPage, EndPush, PushCrash, LPush, tables, proverVars
<1>2. WithStatus("absent")' = WithStatus("absent")
      /\ WithStatus("published")' = WithStatus("published")
  BY <1>1 DEF WithStatus
<1>3. ASSUME UNCHANGED queue  PROVE \A h : Pushed(h)' = Pushed(h) /\ InQueue(h)' = InQueue(h)
  BY <1>1, <1>3 DEF Pushed, InQueue, Fetching
<1>4. CASE StartPush
  <2>1. pushes = 0 /\ pushes' = 1 /\ WithStatus("absent") = {} /\ pushPc' = "query" /\ queue' = queue
        /\ pushOffset' = 0
    BY <1>4 DEF StartPush, TypeOK
  <2>2. \A h \in Heights : ~Pushed(h)
    BY <2>1 DEF PushOnce
  <2>3. \A h \in WithStatus("published") : ~Pushed(h)' /\ ~OnPage(h)'
    BY <1>3, <2>1, <2>2 DEF OnPage, WithStatus
  <2>4. PushOnce'
    BY <1>2, <2>1, <2>3 DEF PushOnce, AllPaged
  <2>5. TaskOnce'
    BY <1>1, <1>3, <2>1 DEF TaskOnce, OnPage, Fetching
  <2> QED
    BY <2>4, <2>5
<1>5. CASE QueryPage
  <2>1. /\ queue' = queue /\ pushes' = pushes /\ pushPc = "query" /\ pushPc' = "exec"
        /\ pushPage' = Page(pushOffset) /\ pushOffset' = pushOffset + Cardinality(Page(pushOffset))
        /\ ~AllPaged
    BY <1>5, PageIs DEF QueryPage
  <2>2. pushOffset \in Nat /\ Cardinality(Page(pushOffset)) \in Nat
    BY <1>5, <2>1, PageType DEF QueryPage, TypeOK
  <2>3. ASSUME NEW h \in Page(pushOffset)  PROVE ~Pushed(h) /\ Behind(h)'
    <3>1. h \in WithStatus("published") /\ h \in Heights /\ pushOffset <= Rank(h, WithStatus("published"))
      BY <2>3 DEF Page, WithStatus
    <3>2. Rank(h, WithStatus("published")) \in Nat
      BY <3>1, RankBound DEF WithStatus
    <3>3. ~Behind(h)
      BY <2>2, <3>1, <3>2 DEF Behind
    <3>4. ~Pushed(h)
      BY <2>1, <3>1, <3>3 DEF PushOnce
    <3>5. Rank(h, WithStatus("published")) < pushOffset'
      BY <2>1, <2>2, <2>3, PageBehind
    <3> QED
      BY <1>2, <3>4, <3>5 DEF Behind, Rank
  <2>4. ASSUME NEW h \in WithStatus("published"), Pushed(h)  PROVE Behind(h)'
    <3>1. Rank(h, WithStatus("published")) < pushOffset
      BY <2>1, <2>4 DEF PushOnce, Behind
    <3>2. Rank(h, WithStatus("published")) \in Nat
      BY RankBound DEF WithStatus
    <3>3. Rank(h, WithStatus("published")) < pushOffset'
      BY <2>1, <2>2, <3>1, <3>2
    <3> QED
      BY <1>2, <3>3 DEF Behind, Rank
  <2>5. \A h : OnPage(h)' => h \in Page(pushOffset)
    BY <2>1 DEF OnPage
  <2>6. TaskOnce'
    BY <1>1, <1>3, <2>1, <2>3, <2>5 DEF TaskOnce, Fetching
  <2>7. AllPaged' => \A h \in WithStatus("published") : h \in Page(pushOffset)
    BY <2>1, OnePage DEF AllPaged
  <2>8. PushOnce'
    BY <1>2, <1>3, <2>1, <2>3, <2>4, <2>5, <2>7 DEF PushOnce
  <2> QED
    BY <2>6, <2>8
<1>6. CASE EndPush \/ PushCrash
  <2>1. queue' = queue /\ pushes' = pushes /\ pushPc' = "idle"
    BY <1>6 DEF EndPush, PushCrash
  <2>2. TaskOnce'
    BY <1>1, <1>3, <2>1 DEF TaskOnce, OnPage, Fetching
  <2>3. PushOnce'
    BY <1>2, <1>3, <2>1 DEF PushOnce
  <2> QED
    BY <2>2, <2>3
<1>7. ASSUME NEW h \in Heights, LPush(h)  PROVE TaskOnce' /\ PushOnce'
  <2>1. /\ queue' = Append(queue, h) /\ queue \in Seq(Heights) /\ pushPage' = pushPage \ {h}
        /\ pushPc = "exec" /\ pushPc' \in {"query", "exec"} /\ h \in pushPage
        /\ pushes' = pushes /\ pushOffset' = pushOffset
    BY <1>7 DEF LPush, TypeOK
  <2>2. OnPage(h) /\ ~Pushed(h) /\ \A g : OnPage(g)' => OnPage(g) /\ g # h
    BY <2>1 DEF OnPage, TaskOnce
  <2>3. Len(queue) \in Nat /\ Len(queue') = Len(queue) + 1 /\ queue'[Len(queue) + 1] = h
        /\ \A i \in 1 .. Len(queue) : queue'[i] = queue[i]
    BY <2>1
  <2>4. \A g : InQueue(g)' <=> InQueue(g) \/ g = h
    <3>1. ASSUME NEW g, InQueue(g)'  PROVE InQueue(g) \/ g = h
      <4>1. PICK i \in 1 .. Len(queue') : queue'[i] = g
        BY <3>1 DEF InQueue
      <4>2. i \in 1 .. Len(queue) \/ i = Len(queue) + 1
        BY <2>3, <4>1
      <4> QED
        BY <2>3, <4>1, <4>2 DEF InQueue
    <3>2. ASSUME NEW g, InQueue(g)  PROVE InQueue(g)'
      <4>1. PICK i \in 1 .. Len(queue) : queue[i] = g
        BY <3>2 DEF InQueue
      <4>2. i \in 1 .. Len(queue') /\ queue'[i] = g
        BY <2>3, <4>1
      <4> QED
        BY <4>2 DEF InQueue
    <3>3. InQueue(h)'
      <4>1. Len(queue) + 1 \in 1 .. Len(queue')
        BY <2>3
      <4> QED
        BY <2>3, <4>1 DEF InQueue
    <3> QED
      BY <3>1, <3>2, <3>3
  <2>5. \A q \in Provers : Fetching(q)' = Fetching(q) /\ (Fetching(q) => task[q] # h) /\ task'[q] = task[q]
    BY <1>1, <2>2 DEF Fetching, Pushed
  <2>6. \A g : Pushed(g)' <=> Pushed(g) \/ g = h
    BY <2>4, <2>5 DEF Pushed
  <2>7. \A i, j \in 1 .. Len(queue') : queue'[i] = queue'[j] => i = j
    <3>1. \A i \in 1 .. Len(queue) : queue'[i] # h
      BY <2>2, <2>3 DEF Pushed, InQueue
    <3>2. \A i \in 1 .. Len(queue') : i \in 1 .. Len(queue) \/ i = Len(queue) + 1
      BY <2>3
    <3> QED
      BY <2>3, <3>1, <3>2 DEF TaskOnce
  <2>8. TaskOnce'
    BY <2>2, <2>4, <2>5, <2>6, <2>7 DEF TaskOnce
  <2>9. pushes = 1 /\ AllPaged' = AllPaged /\ \A g : Behind(g)' = Behind(g)
    BY <1>2, <2>1 DEF PushOnce, AllPaged, Behind, Rank
  <2>10. PushOnce'
    BY <1>2, <2>1, <2>2, <2>6, <2>9 DEF PushOnce
  <2> QED
    BY <2>8, <2>10
<1> QED
  BY <1>4, <1>5, <1>6, <1>7 DEF Push

\* The two modes never meet.
LEMMA StepMode ==
    ~Mixed /\ TypeOK /\ OneMode /\ [Next]_vars => OneMode'
<1> SUFFICES ASSUME ~Mixed, TypeOK, OneMode, [Next]_vars  PROVE OneMode'
  OBVIOUS
<1> USE DEF TypeOK, OneMode, Fetching, Goto, Exit, NextRound, At, proverVars, Labels
<1>1. ASSUME NEW p \in Provers, StartProver(p)  PROVE OneMode'
  BY <1>1 DEF StartProver, Up
<1>2. ASSUME NEW p \in Provers, StartRerun(p)  PROVE OneMode'
  BY <1>2 DEF StartRerun
<1>3. ASSUME NEW p \in Provers, Fetch(p)  PROVE OneMode'
  BY <1>3 DEF Fetch, PopTask, QuitNoTask, SelectPublished, QuitNoPublished, UpdateReceived,
     RerunNoReceived, QuitNoReceived, RerunReceived, RerunPublished
<1>4. ASSUME NEW p \in Provers, Work(p)  PROVE OneMode'
  BY <1>4 DEF Work, Prove, CheckProof, CreateProof, CreateDuplicate, MarkFinished
<1>5. ASSUME NEW p \in Provers, Fail(p)  PROVE OneMode'
  BY <1>5 DEF Fail, PopFails, FetchFails, UpdateUnacknowledged, CheckFails,
     CreateUnacknowledged, MarkFails, Crash
<1>6. CASE UNCHANGED proverVars
  BY <1>6
<1> QED
  BY <1>1, <1>2, <1>3, <1>4, <1>5, <1>6
     DEF Next, Push, CreateBatchWitness, StartPush, QueryPage, EndPush, PushCrash, LPush, vars

\* What a prover has found out about its row stays true.
LEMMA TakenUndisturbed ==
    ASSUME TakenOnce, UNCHANGED status,
           \A p \in Provers : pc'[p] = "update" => pc[p] = "update" /\ task'[p] = task[p],
           \A p \in Provers : Proving(p)' /\ mode'[p] = "normal"
                                 => Proving(p) /\ mode[p] = "normal" /\ task'[p] = task[p]
    PROVE  TakenOnce'
  BY DEF TakenOnce

\* A row is marked received or finished by a prover that alone has it.
LEMMA MarkKeepsTaken ==
    ASSUME TypeOK, TaskOK, TaskOnce, OneMode, TakenOnce, NEW p \in Provers, NEW s \in {"received", "finished"},
           pc[p] \in {"update", "finish"}, status' = [status EXCEPT ![task[p]] = s],
           pc'[p] # "update", Proving(p)' => task'[p] = task[p],
           \A q \in Provers : q # p => pc'[q] = pc[q] /\ task'[q] = task[q] /\ mode'[q] = mode[q]
    PROVE  TakenOnce'
<1>1. task[p] \in Heights /\ status'[task[p]] = s /\ \A h \in Heights : h # task[p] => status'[h] = status[h]
  BY DEF TypeOK, TaskOK, Busy
<1>2. ASSUME NEW q \in Provers, q # p, pc[q] = "update"  PROVE status'[task[q]] = "published"
  <2>1. status[task[q]] = "published" /\ task[q] \in Heights
    BY <1>2 DEF TakenOnce, TaskOK, Busy
  <2>2. task[q] # task[p]
    <3>1. CASE pc[p] = "update"
      BY <1>2, <3>1 DEF TaskOnce, Fetching
    <3>2. CASE pc[p] = "finish"
      <4>1. mode[p] \in {"normal", "rerun"} /\ Proving(p)
        BY <3>2 DEF TypeOK, Proving
      <4>2. mode[p] # "rerun"
        BY <1>2 DEF OneMode
      <4> QED
        BY <2>1, <4>1, <4>2 DEF TakenOnce
    <3> QED
      BY <3>1, <3>2
  <2> QED
    BY <1>1, <2>1, <2>2
<1>3. ASSUME NEW q \in Provers, q # p, Proving(q), mode[q] = "normal"
      PROVE  status'[task[q]] \notin {"absent", "published"}
  <2>1. status[task[q]] \notin {"absent", "published"} /\ task[q] \in Heights
    BY <1>3 DEF TakenOnce, TaskOK, Busy, Proving
  <2> QED
    BY <1>1, <2>1
<1>4. Proving(p)' => status'[task'[p]] \notin {"absent", "published"}
  BY <1>1
<1> QED
  BY <1>2, <1>3, <1>4 DEF TakenOnce, Proving

\* The documented procedure keeps its order.
LEMMA StepOnce ==
    ASSUME ~EarlyPush, ~Mixed, MaxPush \in {0, 1}, ByHeight \/ N <= PageLimit,
           TypeOK, TaskOK, OnceInv, [Next]_vars
    PROVE  OnceInv'
<1> USE DEF vars, tables, proverVars, Goto, Exit, NextRound, At
<1>1. OneMode'
  BY StepMode DEF OnceInv
<1>2. TypeOK /\ TaskOnce /\ PushOnce /\ OneMode /\ TakenOnce
  BY DEF OnceInv
<1>3. ASSUME NEW k \in 1 .. InsertRows, CreateBatchWitness(k)  PROVE OnceInv'
  <2>1. WithStatus("absent") # {} /\ UNCHANGED <<queue, pushVars, proverVars>>
    BY <1>3 DEF CreateBatchWitness
  <2>2. pushes = 0 /\ pushPc = "idle"
    BY <1>2, <2>1 DEF PushOnce, TypeOK
  <2>3. \A h : Pushed(h)' = Pushed(h) /\ OnPage(h)' = OnPage(h)
    BY <2>1 DEF Pushed, InQueue, Fetching, OnPage, pushVars
  <2>4. TaskOnce'
    BY <1>2, <2>1, <2>3 DEF TaskOnce, InQueue, Fetching
  <2>5. PushOnce'
    BY <1>2, <2>1, <2>2, <2>3 DEF PushOnce, pushVars
  <2>6. \A h \in Heights : status'[h] = IF h \in NextRows(k) THEN "published" ELSE status[h]
    BY <1>3 DEF CreateBatchWitness
  <2>7. \A h \in NextRows(k) : status[h] = "absent"
    BY DEF NextRows, WithStatus
  <2>8. TakenOnce'
    BY <1>2, <2>1, <2>6, <2>7 DEF TakenOnce, Proving, TaskOK, Busy
  <2> QED
    BY <1>1, <2>4, <2>5, <2>8 DEF OnceInv
<1>4. CASE Push
  <2>1. UNCHANGED <<status, proverVars>>
    BY <1>4 DEF Push, StartPush, QueryPage, EndPush, PushCrash, LPush
  <2>2. TakenOnce'
    BY <1>2, <2>1, TakenUndisturbed DEF Proving
  <2> QED
    BY <1>1, <1>2, <1>4, <2>2, PushKeepsOnce DEF OnceInv
<1>5. ASSUME NEW p \in Provers, StartProver(p) \/ StartRerun(p)  PROVE OnceInv'
  <2>1. TaskOnce' /\ PushOnce'
    BY <1>2, <1>5, PlacesUndisturbed DEF StartProver, StartRerun, Fetching, TypeOK
  <2>2. TakenOnce'
    BY <1>2, <1>5, TakenUndisturbed DEF StartProver, StartRerun, Proving, TypeOK
  <2> QED
    BY <1>1, <2>1, <2>2 DEF OnceInv
<1>6. ASSUME NEW p \in Provers, PopTask(p) \/ PopFails(p)  PROVE OnceInv'
  <2>1. TaskOnce' /\ PushOnce'
    BY <1>2, <1>6, PopOnce
  <2>2. TakenOnce'
    BY <1>2, <1>6, TakenUndisturbed DEF PopTask, PopFails, Proving, TypeOK
  <2> QED
    BY <1>1, <2>1, <2>2 DEF OnceInv
<1>7. ASSUME NEW p \in Provers,
             UpdateReceived(p) \/ UpdateUnacknowledged(p) \/ MarkFinished(p)
      PROVE  OnceInv'
  <2>1. TaskOnce' /\ PushOnce'
    <3>1. UNCHANGED <<queue, pushVars>>
      BY <1>7 DEF UpdateReceived, UpdateUnacknowledged, MarkFinished
    <3>2. /\ \A h \in Heights : status'[h] = "published" => status[h] = "published"
          /\ \A h \in Heights : status'[h] = "absent" => status[h] = "absent"
      BY <1>2, <1>7 DEF UpdateReceived, UpdateUnacknowledged, MarkFinished, TypeOK
    <3>3. \A q \in Provers : Fetching(q)' => Fetching(q) /\ task'[q] = task[q]
      BY <1>2, <1>7 DEF UpdateReceived, UpdateUnacknowledged, MarkFinished, TypeOK, Fetching
    <3> QED
      BY <1>2, <3>1, <3>2, <3>3, PlacesUndisturbed
  <2>2. PICK s \in {"received", "finished"} : status' = [status EXCEPT ![task[p]] = s]
    BY <1>7 DEF UpdateReceived, UpdateUnacknowledged, MarkFinished
  <2>3. pc[p] \in {"update", "finish"} /\ pc'[p] # "update" /\ (Proving(p)' => task'[p] = task[p])
    BY <1>2, <1>7 DEF UpdateReceived, UpdateUnacknowledged, MarkFinished, TypeOK, Proving
  <2>4. \A q \in Provers : q # p => pc'[q] = pc[q] /\ task'[q] = task[q] /\ mode'[q] = mode[q]
    BY <1>2, <1>7 DEF UpdateReceived, UpdateUnacknowledged, MarkFinished, TypeOK
  <2>5. TakenOnce'
    BY <1>2, <2>2, <2>3, <2>4, MarkKeepsTaken
  <2> QED
    BY <1>1, <2>1, <2>5 DEF OnceInv
<1>8. ASSUME NEW p \in Provers, SelectPublished(p)  PROVE OnceInv'
  <2>1. TaskOnce' /\ PushOnce'
    BY <1>2, <1>8, PlacesUndisturbed DEF SelectPublished, Fetching, TypeOK
  <2>2. TakenOnce'
    BY <1>2, <1>8 DEF SelectPublished, TakenOnce, Proving, TypeOK
  <2> QED
    BY <1>1, <2>1, <2>2 DEF OnceInv
<1>9. ASSUME NEW p \in Provers, Fetch(p), ~PopTask(p), ~UpdateReceived(p), ~SelectPublished(p)
      PROVE  OnceInv'
  <2>1. TaskOnce' /\ PushOnce'
    BY <1>2, <1>9, PlacesUndisturbed DEF Fetch, QuitNoTask, QuitNoPublished, RerunNoReceived,
       QuitNoReceived, RerunReceived, RerunPublished, Fetching, TypeOK
  <2>2. TakenOnce'
    <3>1. UNCHANGED status /\ \A q \in Provers : pc'[q] = "update" => pc[q] = "update" /\ task'[q] = task[q]
      BY <1>2, <1>9 DEF Fetch, QuitNoTask, QuitNoPublished, RerunNoReceived,
         QuitNoReceived, RerunReceived, RerunPublished, TypeOK
    <3>2. \A q \in Provers : Proving(q)' /\ mode'[q] = "normal"
                                 => Proving(q) /\ mode[q] = "normal" /\ task'[q] = task[q]
      BY <1>2, <1>9 DEF Fetch, QuitNoTask, QuitNoPublished, RerunNoReceived,
         QuitNoReceived, RerunReceived, RerunPublished, TypeOK, Proving, OneMode
    <3> QED
      BY <1>2, <3>1, <3>2, TakenUndisturbed
  <2> QED
    BY <1>1, <2>1, <2>2 DEF OnceInv
<1>10. ASSUME NEW p \in Provers, Work(p), ~MarkFinished(p)  PROVE OnceInv'
  <2>1. TaskOnce' /\ PushOnce'
    BY <1>2, <1>10, PlacesUndisturbed
       DEF Work, Prove, CheckProof, CreateProof, CreateDuplicate, Fetching, TypeOK
  <2>2. TakenOnce'
    BY <1>2, <1>10, TakenUndisturbed
       DEF Work, Prove, CheckProof, CreateProof, CreateDuplicate, Proving, TypeOK
  <2> QED
    BY <1>1, <2>1, <2>2 DEF OnceInv
<1>11. ASSUME NEW p \in Provers, Fail(p), ~PopFails(p), ~UpdateUnacknowledged(p)  PROVE OnceInv'
  <2>1. TaskOnce' /\ PushOnce'
    BY <1>2, <1>11, PlacesUndisturbed DEF Fail, FetchFails, CheckFails,
       CreateUnacknowledged, MarkFails, Crash, Fetching, TypeOK
  <2>2. TakenOnce'
    BY <1>2, <1>11, TakenUndisturbed DEF Fail, FetchFails, CheckFails,
       CreateUnacknowledged, MarkFails, Crash, Proving, TypeOK
  <2> QED
    BY <1>1, <2>1, <2>2 DEF OnceInv
<1>12. CASE UNCHANGED vars
  <2>1. TaskOnce' /\ PushOnce'
    BY <1>2, <1>12, PlacesUndisturbed DEF Fetching
  <2>2. TakenOnce'
    BY <1>2, <1>12, TakenUndisturbed DEF Proving
  <2> QED
    BY <1>1, <2>1, <2>2 DEF OnceInv
<1> QED
  BY <1>3, <1>4, <1>5, <1>6, <1>7, <1>8, <1>9, <1>10, <1>11, <1>12 DEF Next, Fetch, Work, Fail

\* Nothing is running and nothing pushed.
LEMMA InitOnce == Init => OnceInv
<1> SUFFICES ASSUME Init  PROVE OnceInv
  OBVIOUS
<1>1. \A h : ~Pushed(h) /\ ~OnPage(h)
  BY DEF Init, Pushed, InQueue, Fetching, OnPage
<1>2. TaskOnce
  BY <1>1 DEF Init, TaskOnce, Fetching
<1>3. PushOnce
  BY <1>1 DEF Init, PushOnce
<1>4. OneMode /\ TakenOnce
  BY DEF Init, OneMode, TakenOnce, Fetching, Proving
<1> QED
  BY <1>2, <1>3, <1>4 DEF OnceInv

\* Then a row only goes forward.
LEMMA StepForward ==
    TypeOK /\ TaskOK /\ OnceInv /\ [Next]_vars =>
        \A h \in Heights :
            /\ status[h] = "finished" => status'[h] = "finished"
            /\ status[h] = "received" => status'[h] \in {"received", "finished"}
<1> SUFFICES ASSUME TypeOK, TaskOK, OnceInv, [Next]_vars, NEW h \in Heights
             PROVE  /\ status[h] = "finished" => status'[h] = "finished"
                    /\ status[h] = "received" => status'[h] \in {"received", "finished"}
  OBVIOUS
<1>1. ASSUME NEW k \in 1 .. InsertRows, CreateBatchWitness(k)
      PROVE  status[h] \in {"received", "finished"} => status'[h] = status[h]
  BY <1>1 DEF CreateBatchWitness, NextRows, WithStatus
<1>2. ASSUME NEW p \in Provers, UpdateReceived(p) \/ UpdateUnacknowledged(p)
      PROVE  status[h] \in {"received", "finished"} => status'[h] = status[h]
  <2>1. status[task[p]] = "published" /\ status' = [status EXCEPT ![task[p]] = "received"]
    BY <1>2 DEF UpdateReceived, UpdateUnacknowledged, At, OnceInv, TakenOnce
  <2> QED
    BY <2>1 DEF TypeOK
<1>3. ASSUME NEW p \in Provers, MarkFinished(p)  PROVE status'[h] \in {status[h], "finished"}
  BY <1>3 DEF MarkFinished, TypeOK
<1>4. ASSUME ~ \E k \in 1 .. InsertRows : CreateBatchWitness(k),
             ~ \E p \in Provers : \/ MarkFinished(p) \/ UpdateReceived(p)
                                  \/ UpdateUnacknowledged(p)
      PROVE  status' = status
  BY <1>4 DEF Next, Push, StartPush, QueryPage, EndPush, PushCrash,
     LPush, StartProver, StartRerun, Fetch, PopTask, QuitNoTask, SelectPublished,
     QuitNoPublished, RerunNoReceived, QuitNoReceived, RerunReceived,
     RerunPublished, Work, Prove, CheckProof, CreateProof, CreateDuplicate, Fail,
     PopFails, FetchFails, CheckFails, CreateUnacknowledged, MarkFails, Crash, vars, tables
<1> QED
  BY <1>1, <1>2, <1>3, <1>4

\* When tasks are pushed once, after every witness is in the table, and
\* -rerun never runs beside other provers, no row ever goes back, whatever
\* crashes, is lost or unacknowledged.  The pages may be small only if the
\* database returns their rows by height.
THEOREM RowsGoForward ==
    ASSUME ~EarlyPush, ~Mixed, MaxPush \in {0, 1}, ByHeight \/ N <= PageLimit
    PROVE  Spec => StatusMonotone
<1>1. TypeOK /\ TaskOK /\ OnceInv /\ [Next]_vars => OnceInv'
  BY StepOnce
<1>2. TypeOK /\ TaskOK /\ OnceInv /\ [Next]_vars =>
          [\A h \in Heights :
              /\ status[h] = "finished" => status'[h] = "finished"
              /\ status[h] = "received" => status'[h] \in {"received", "finished"}]_vars
  BY StepForward
<1> QED
  BY <1>1, <1>2, InitTyped, StepTyped, InitOnce, PTL DEF Spec, StatusMonotone

=============================================================================
