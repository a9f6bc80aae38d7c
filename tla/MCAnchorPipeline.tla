-------------------------- MODULE MCAnchorPipeline --------------------------
(* AnchorPipeline for TLC. *)
EXTENDS AnchorInvariant, TLC

Symmetry == Permutations(EmbeddedTxs)
=============================================================================
