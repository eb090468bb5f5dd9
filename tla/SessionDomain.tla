--------------------------- MODULE SessionDomain ---------------------------
(***************************************************************************)
(* The sets every orchestrator module speaks about, and what is assumed of *)
(* them.  A session is the UUID a POST /sessions or a fork generates; a    *)
(* container is one docker container of the runner image; a token is an    *)
(* index into the list of OAuth tokens the TokenPool was constructed with. *)
(***************************************************************************)
EXTENDS Integers

CONSTANTS
  Sessions,     \* session ids (randomUUID() in routes/sessions.ts)
  Containers,   \* container ids the docker engine can still hand out
  NumTokens,    \* number of OAuth tokens configured
  None          \* "undefined": no container, no token, no connection

Tokens == 0 .. (NumTokens - 1)

\* TokenPool's constructor throws when the token list is empty.
ASSUME NumTokensAssumption == NumTokens \in Nat \ {0}

\* "undefined" is none of the values it stands beside.
ASSUME NoneAssumption == /\ None \notin Sessions
                         /\ None \notin Containers
                         /\ None \notin Tokens
=============================================================================
