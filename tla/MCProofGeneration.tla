------------------------- MODULE MCProofGeneration -------------------------
(* Instances of ProofGeneration for TLC. *)
EXTENDS ProofGeneration, TLC

CONSTANTS p1, p2, large, small

\* Batches come in the order of the tiers: the first ones of the small tier.
MCTierOf == [h \in 0 .. N-1 |-> IF h = 0 THEN small ELSE large]

ProverSymmetry == Permutations(Provers)

=============================================================================
