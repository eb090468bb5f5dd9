--------------------------- MODULE WarmRefinement ---------------------------
(***************************************************************************)
(* With a warm pool the orchestrator still implements the SessionService:  *)
(* to its client an adopted runner is one that was started.  Snapshots are *)
(* not in WarmPool, and a stop, which is one step there, is seen as the    *)
(* end of a session whose runner is lost.  A query is no session's.        *)
(***************************************************************************)
EXTENDS WarmPool

\* The request a handler suspended at a step works for.
OpAt(step) ==
  CASE step \in {"free", "querying", "unheard"} -> "none"
    [] step \in {"adopting", "spawning", "waiting"} -> "create"
    [] step \in {"respawning", "rewaiting"} -> "resume"

\* What a client is shown of a status.
ViewOf(st) ==
  CASE st = "ready" -> "live"
    [] st \in {"stopped", "error"} -> "ended"
    [] OTHER -> st

View  == [s \in Sessions |-> ViewOf(row[s])]
Asked == [r \in Requests |-> [op |-> OpAt(req[r].pc), sid |-> req[r].sid]]

SV == INSTANCE SessionService WITH view <- View, pending <- Asked, kept <- {}

\* Warm runners, their adoption and loss, late answers of the cluster, queries
\* and crashes are invisible to the clients of the sessions API: a create that
\* adopts a runner succeeds only when the runner has spoken for its session and
\* leaves nothing when it fails, no query and no refill touches a session, and
\* no session is shown as starting or live but by the request that is to start
\* it or by its runner.
WarmImplementsService == SV!Spec
=============================================================================
