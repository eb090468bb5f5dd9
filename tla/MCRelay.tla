------------------------------- MODULE MCRelay -------------------------------
(* Small instances of Relay for TLC. *)
EXTENDS Relay

\* The messages are only ever compared.
Symmetry == Permutations(Messages)
=============================================================================
