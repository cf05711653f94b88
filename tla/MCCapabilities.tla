----------------------------- MODULE MCCapabilities -----------------------------
(***************************************************************************)
(* A small instance of Capabilities.  Calls are alike, and so are          *)
(* submissions; every property checked on it is an invariant.              *)
(***************************************************************************)
EXTENDS Capabilities, TLC

Symmetry == Permutations(Calls) \cup Permutations(Submissions)

=================================================================================
