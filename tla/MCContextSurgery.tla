-------------------------- MODULE MCContextSurgery --------------------------
(* Small instances of ContextSurgery for TLC. *)
EXTENDS ContextSurgery

FewUuids == 1 .. 4
=============================================================================
