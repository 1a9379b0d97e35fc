------------------------- MODULE MCWitnessPipeline -------------------------
(* Instances of WitnessPipeline for TLC. *)
EXTENDS WitnessPipeline

CONSTANTS w1, w2

\* Two tiers: batches 0 and 1 of two users each, the second one padded, and
\* batches 2, 3 and 4 of one user each.
MCUsers == <<3, 3>>
MCOps == <<2, 1>>

=============================================================================
