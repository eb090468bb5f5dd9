----------------------------- MODULE MCWarmPool -----------------------------
(* Small instances of WarmPool for TLC. *)
EXTENDS WarmRefinement, TLC

CONSTANTS generic   \* a profile without vault and agent

OneProfile == [w \in WarmIds |-> generic]
OneEach    == [p \in Profiles |-> 1]

\* Sound with one profile: every id is only ever compared.
Symmetry == Permutations(Sessions) \cup Permutations(Requests) \cup Permutations(WarmIds)
=============================================================================
