--------------------------- MODULE SessionService ---------------------------
(***************************************************************************)
(* What the sessions API promises its clients, without containers, tokens  *)
(* and sockets: a session is absent, starting, live or ended; a request    *)
(* takes effect between its arrival and its answer, on the session it      *)
(* names (a create may also end the sessions it evicts); apart from        *)
(* requests, a session changes only because its runner spoke, its          *)
(* connection was lost or the orchestrator restarted.                      *)
(***************************************************************************)
CONSTANTS Sessions, Requests, None

VARIABLES
  view,      \* session -> what GET /sessions/:id shows of it
  pending,   \* request -> what it asks for, Idle when it is answered
  kept       \* the sessions snapshots refer to, whose rows cannot be removed

serviceVars == <<view, pending, kept>>

Idle == [op |-> "none", sid |-> None]

Pending(r, op) == pending[r].op = op

Init == /\ view = [s \in Sessions |-> "absent"]
        /\ pending = [r \in Requests |-> Idle]
        /\ kept = {}

\* A session that is absent stays so: an UPDATE finds no row.
Show(s, v) ==
  view' = [t \in Sessions |-> IF t = s /\ view[t] # "absent" THEN v ELSE view[t]]

Drop(s) == view' = [t \in Sessions |-> IF t = s THEN "absent" ELSE view[t]]

\* The requests in W are answered.
Answer(W) == pending' = [r \in Requests |-> IF r \in W THEN Idle ELSE pending[r]]
-----------------------------------------------------------------------------
MayAsk(op, s) ==
  \/ /\ op = "create" /\ view[s] = "absent"
     /\ \A q \in Requests : pending[q].sid # s
  \/ op = "resume" /\ view[s] = "ended"
  \/ op = "stop" /\ view[s] \in {"starting", "live"}
  \/ op = "delete" /\ view[s] # "absent"

Ask(r, op, s) ==
  /\ pending[r] = Idle /\ MayAsk(op, s)
  /\ pending' = [q \in Requests |-> IF q = r THEN [op |-> op, sid |-> s] ELSE pending[q]]
  /\ UNCHANGED <<view, kept>>

\* A create that has made nothing yet ends another session to make room, and
\* may be refused after that.
Evict(r, v) ==
  /\ Pending(r, "create") /\ view[pending[r].sid] = "absent"
  /\ Show(v, "ended")
  /\ \E W \in SUBSET {r} : Answer(W)
  /\ UNCHANGED kept

\* The session of a create appears, that of a resume is starting again.
Launch(r) ==
  /\ \/ /\ Pending(r, "create") /\ view[pending[r].sid] = "absent"
        /\ view' = [t \in Sessions |-> IF t = pending[r].sid THEN "starting" ELSE view[t]]
     \/ Pending(r, "resume") /\ Show(pending[r].sid, "starting")
  /\ UNCHANGED <<pending, kept>>

\* The runner of s speaks. A create or a resume succeeds at such a moment only.
Serve(s) ==
  /\ Show(s, "live")
  /\ \E W \in SUBSET {r \in Requests : /\ pending[r].op \in {"create", "resume"}
                                       /\ pending[r].sid = s} : Answer(W)
  /\ UNCHANGED kept

\* A create fails: nothing of it is left.
UndoCreate(r) ==
  /\ Pending(r, "create") /\ Answer({r})
  /\ IF pending[r].sid \in kept THEN UNCHANGED view ELSE Drop(pending[r].sid)
  /\ UNCHANGED kept

\* A resume fails, or a stop is done: the session has ended.
End(r) ==
  /\ Pending(r, "resume") \/ Pending(r, "stop")
  /\ Show(pending[r].sid, "ended") /\ Answer({r})
  /\ UNCHANGED kept

\* A delete is done.
Delete(r) ==
  /\ Pending(r, "delete") /\ Answer({r})
  /\ IF pending[r].sid \in kept THEN Show(pending[r].sid, "ended") ELSE Drop(pending[r].sid)
  /\ UNCHANGED kept

\* The connection of s is lost, or its runner reports an error.
Break(s) == Show(s, "ended") /\ UNCHANGED <<pending, kept>>

\* A snapshot of s is stored.
Keep(s) ==
  /\ view[s] # "absent"
  /\ kept' = kept \cup {s}
  /\ UNCHANGED <<view, pending>>

\* The orchestrator restarts: no request survives, no session appears or
\* disappears, and what was starting is live only once its runner has spoken.
Restart ==
  /\ Answer(Requests)
  /\ view' \in [Sessions -> {"absent", "starting", "live", "ended"}]
  /\ \A s \in Sessions :
       /\ view'[s] = "absent" <=> view[s] = "absent"
       /\ view'[s] = "starting" => view[s] = "starting"
       /\ view'[s] = "live" => view[s] # "starting"
  /\ UNCHANGED kept

Next ==
  \/ \E s \in Sessions : Break(s) \/ Serve(s) \/ Keep(s)
  \/ \E r \in Requests : Launch(r) \/ UndoCreate(r) \/ End(r) \/ Delete(r)
  \/ \E r \in Requests, v \in Sessions : Evict(r, v)
  \/ \E r \in Requests, s \in Sessions :
       \E op \in {"create", "resume", "stop", "delete"} : Ask(r, op, s)
  \/ Restart

Spec == Init /\ [][Next]_serviceVars
=============================================================================
