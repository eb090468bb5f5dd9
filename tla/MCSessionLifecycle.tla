------------------------- MODULE MCSessionLifecycle -------------------------
(* Small instances of SessionLifecycle for TLC. *)
EXTENDS SessionRefinement, TLC

\* Every id is only ever compared, so permuting them changes nothing.
Symmetry == Permutations(Sessions) \cup Permutations(Containers) \cup Permutations(Requests)
=============================================================================
