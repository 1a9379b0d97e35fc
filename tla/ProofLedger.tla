---------------------------- MODULE ProofLedger ----------------------------
(***************************************************************************)
(* What proof generation promises to those who read the tables: a batch    *)
(* gets at most one proof, once its witness is there; a recorded proof is  *)
(* never replaced or removed; a batch is marked finished only when its     *)
(* proof is recorded.  A mark may be taken back, a proof may not.          *)
(***************************************************************************)
CONSTANTS
    Batches, \* all batches
    Rows,    \* the proofs a batch can get
    NoRow    \* no proof yet, not in Rows

VARIABLES
    known,  \* the batches whose witness is in the table
    ledger, \* the proof recorded for each batch
    marked  \* the batches marked finished

ledgerVars == <<known, ledger, marked>>

LedgerInit ==
    /\ known = {}
    /\ ledger = [b \in Batches |-> NoRow]
    /\ marked = {}

Publish(bs) ==
    /\ known' = known \cup bs
    /\ UNCHANGED <<ledger, marked>>

Record(b, row) ==
    /\ b \in known /\ ledger[b] = NoRow
    /\ ledger' = [ledger EXCEPT ![b] = row]
    /\ UNCHANGED <<known, marked>>

Mark(b) ==
    /\ ledger[b] # NoRow
    /\ marked' = marked \cup {b}
    /\ UNCHANGED <<known, ledger>>

Unmark(b) ==
    /\ marked' = marked \ {b}
    /\ UNCHANGED <<known, ledger>>

LedgerNext ==
    \/ \E bs \in SUBSET (Batches \ known) : Publish(bs)
    \/ \E b \in Batches : Mark(b) \/ Unmark(b) \/ \E row \in Rows : Record(b, row)

LedgerSpec == LedgerInit /\ [][LedgerNext]_ledgerVars

=============================================================================
