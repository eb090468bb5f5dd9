------------------------- MODULE SessionRefinement -------------------------
(* The orchestrator's session handling implements the SessionService.      *)
EXTENDS SessionLifecycle

\* The request a handler suspended at a step works for.
OpAt(step) ==
  CASE step = "free" -> "none"
    [] step \in {"evicting", "admitted", "spawning", "waiting", "undoing"} -> "create"
    [] step \in {"killing", "respawning", "rewaiting", "failing"} -> "resume"
    [] step = "stopping" -> "stop"
    [] step = "deleting" -> "delete"

\* What a client is shown of a status.
ViewOf(st) ==
  CASE st = "absent" -> "absent"
    [] st = "starting" -> "starting"
    [] st \in {"ready", "busy", "idle"} -> "live"
    [] st \in Terminal -> "ended"

View    == [s \in Sessions |-> ViewOf(status[s])]
Asked   == [r \in Requests |-> [op  |-> OpAt(req[r].pc),
                                sid |-> IF At(r, "free") THEN None ELSE req[r].sid]]

SV == INSTANCE SessionService WITH view <- View, pending <- Asked, kept <- snapshotted

\* The orchestrator implements the service: whatever requests overlap, sockets
\* break and crashes hit, a client sees only what the service allows. A failed
\* create or a delete leaves nothing, a create or resume succeeds only when a
\* runner spoke, no request touches a session it does not name except an
\* eviction, and a restart neither makes nor loses a session.
ImplementsService == SV!Spec
=============================================================================
