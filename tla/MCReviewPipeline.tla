-------------------------- MODULE MCReviewPipeline --------------------------
(* Instances of ReviewPipeline for TLC. *)
EXTENDS ReviewPipeline, TLC

\* Jobs and workers are interchangeable in the safety runs.
Symmetry == Permutations(Jobs) \cup Permutations(Workers)
=============================================================================
