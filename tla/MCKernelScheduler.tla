------------------------- MODULE MCKernelScheduler -------------------------
(* Instances of KernelScheduler for TLC. *)
EXTENDS KernelScheduler, TLC

\* Agents are interchangeable.
Symmetry == Permutations(Agents)
=============================================================================
