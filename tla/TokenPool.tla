----------------------------- MODULE TokenPool -----------------------------
(***************************************************************************)
(* orchestrator/src/token-pool.ts: round-robin assignment of OAuth tokens  *)
(* to sessions.  The pool is only memory; what survives a restart is the   *)
(* oauth_token_index column of the sessions table (SessionStore).          *)
(***************************************************************************)
EXTENDS SessionDomain

VARIABLES
  sessionTokens,   \* session -> index of its token, None when it holds none
  nextIndex        \* the index the next assignment takes

poolVars == <<sessionTokens, nextIndex>>

PoolTypeOK ==
  /\ sessionTokens \in [Sessions -> Tokens \cup {None}]
  /\ nextIndex \in Tokens

PoolInit ==
  /\ sessionTokens = [s \in Sessions |-> None]
  /\ nextIndex = 0

\* Mutant of Assign: the index does not wrap around.
AssignWithoutWrap(s) ==
  /\ sessionTokens' = [sessionTokens EXCEPT ![s] = nextIndex]
  /\ nextIndex' = nextIndex + 1

\* assign(): the session takes the next index even when it holds one already.
Assign(s) ==
  /\ sessionTokens' = [sessionTokens EXCEPT ![s] = nextIndex]
  /\ nextIndex' = (nextIndex + 1) % NumTokens

\* release(): a no-op for a session that holds no token.
Release(s) ==
  /\ sessionTokens' = [sessionTokens EXCEPT ![s] = None]
  /\ UNCHANGED nextIndex

\* restore() on the pool of a new process: the persisted index of every
\* active session, and a rotation that goes on after the greatest persisted
\* index (saved maps each session with a row to its index, the others to None).
Restore(active, saved) ==
  LET kept == {s \in Sessions : saved[s] # None}
  IN  /\ sessionTokens' = [s \in Sessions |-> IF s \in active THEN saved[s] ELSE None]
      /\ \/ /\ kept = {}
            /\ nextIndex' = 0
         \/ \E s \in kept :
               /\ \A o \in kept : saved[o] <= saved[s]
               /\ nextIndex' = (saved[s] + 1) % NumTokens
=============================================================================
