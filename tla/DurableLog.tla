----------------------------- MODULE DurableLog -----------------------------
(***************************************************************************)
(* What a resumable writer promises: its table always holds the first      *)
(* entries of the one result it is to produce, in order and each once,     *)
(* however often the process that writes it is killed and started again.   *)
(***************************************************************************)
EXTENDS Naturals, Sequences

CONSTANT Entries \* the complete result, a sequence

VARIABLE log     \* what the table holds

LogInit == log = <<>>

Extend(n) == log' = SubSeq(Entries, 1, n)

LogNext == \E n \in Len(log) + 1 .. Len(Entries) : Extend(n)

LogSpec == LogInit /\ [][LogNext]_log

=============================================================================
