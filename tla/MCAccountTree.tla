--------------------------- MODULE MCAccountTree ---------------------------
(* Instances of AccountTree for TLC. *)
EXTENDS AccountTree

\* Eleven leaves of sixteen, in three words.  The writers of the first tier share
\* two words, the second tier is empty, and the third one starts inside a word.
MCAccounts == <<7, 0, 4>>

=============================================================================
