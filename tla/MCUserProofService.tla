------------------------- MODULE MCUserProofService -------------------------
(* Instances of UserProofService for TLC. *)
EXTENDS UserProofService

\* Three tiers, one of them empty; a segment ends inside a tier and at its end.
MCAccounts == <<4, 0, 5>>

\* Two rows fill an insert, but for one account whose row is too big for any.
MCRowBytes == [i \in 0 .. 8 |-> IF i = 4 THEN 9 ELSE 2]

=============================================================================
