---------------------------- MODULE SessionStore ----------------------------
(***************************************************************************)
(* orchestrator/src/sessions.ts: the rows of the SQLite sessions table.    *)
(* Every operation is synchronous, so it is one piece of one action; an    *)
(* UPDATE or a DELETE of an id without a row does nothing.  The row is     *)
(* kept column by column: status "absent" means there is no row.  Columns  *)
(* that no control decision reads (name, model, usage, timestamps) are     *)
(* left out; the order of last_activity is left to the choice the          *)
(* eviction loop makes.                                                    *)
(***************************************************************************)
EXTENDS SessionDomain, FiniteSets

VARIABLES
  status,         \* session -> status column, "absent" without a row
  rowToken,       \* session -> oauth_token_index, None without a row
  rowContainer,   \* session -> container_id, None without a row
  pinned,         \* the sessions whose pinned column is 1
  resumable,      \* the sessions whose sdk_session_id column is set
  snapshotted     \* the sessions some row of context_snapshots references

storeVars == <<status, rowToken, rowContainer, pinned, resumable, snapshotted>>

Terminal   == {"stopped", "error"}
NonTerminal == {"starting", "ready", "busy", "idle"}

StoreTypeOK ==
  /\ status \in [Sessions -> Terminal \cup NonTerminal \cup {"absent"}]
  /\ rowToken \in [Sessions -> Tokens \cup {None}]
  /\ rowContainer \in [Sessions -> Containers \cup {None}]
  /\ pinned \in SUBSET Sessions
  /\ resumable \in SUBSET Sessions
  /\ snapshotted \in SUBSET Sessions

StoreInit ==
  /\ status = [s \in Sessions |-> "absent"]
  /\ rowToken = [s \in Sessions |-> None]
  /\ rowContainer = [s \in Sessions |-> None]
  /\ pinned = {}
  /\ resumable = {}
  /\ snapshotted = {}

HasRow(s) == status[s] # "absent"

\* activeCount() and activeTokenIndices() select on this.
Active == {s \in Sessions : status[s] \in NonTerminal}

ActiveCount == Cardinality(Active)

\* evictableByLru(): "Only ready/idle and not pinned sessions are candidates."
Evictable == {s \in Sessions : status[s] \in {"ready", "idle"} /\ s \notin pinned}

CreateRow(s, c, t, pin) ==
  /\ status' = [status EXCEPT ![s] = "starting"]
  /\ rowToken' = [rowToken EXCEPT ![s] = t]
  /\ rowContainer' = [rowContainer EXCEPT ![s] = c]
  /\ pinned' = IF pin THEN pinned \cup {s} ELSE pinned
  /\ UNCHANGED <<resumable, snapshotted>>

\* The status column after updateStatus(s, st).
WithStatus(s, st) == IF HasRow(s) THEN [status EXCEPT ![s] = st] ELSE status

\* updateStatus(), and setError() with st = "error".
UpdateStatus(s, st) ==
  /\ status' = WithStatus(s, st)
  /\ UNCHANGED <<rowToken, rowContainer, pinned, resumable, snapshotted>>

\* Mutant of Reactivate: the container_id column is forgotten.
ReactivateKeepsContainer(s, c, t) ==
  /\ status' = WithStatus(s, "starting")
  /\ rowToken' = IF HasRow(s) THEN [rowToken EXCEPT ![s] = t] ELSE rowToken
  /\ UNCHANGED <<rowContainer, pinned, resumable, snapshotted>>

\* Mutant of Reactivate: the oauth_token_index column is forgotten.
ReactivateKeepsToken(s, c, t) ==
  /\ status' = WithStatus(s, "starting")
  /\ rowContainer' = IF HasRow(s) THEN [rowContainer EXCEPT ![s] = c] ELSE rowContainer
  /\ UNCHANGED <<rowToken, pinned, resumable, snapshotted>>

\* reactivate().
Reactivate(s, c, t) ==
  /\ status' = WithStatus(s, "starting")
  /\ rowToken' = IF HasRow(s) THEN [rowToken EXCEPT ![s] = t] ELSE rowToken
  /\ rowContainer' = IF HasRow(s) THEN [rowContainer EXCEPT ![s] = c] ELSE rowContainer
  /\ UNCHANGED <<pinned, resumable, snapshotted>>

RemoveRow(s) ==
  /\ status' = [status EXCEPT ![s] = "absent"]
  /\ rowToken' = [rowToken EXCEPT ![s] = None]
  /\ rowContainer' = [rowContainer EXCEPT ![s] = None]
  /\ pinned' = pinned \ {s}
  /\ resumable' = resumable \ {s}
  /\ UNCHANGED snapshotted

SetPinned(s, pin) ==
  /\ pinned' = IF pin THEN pinned \cup {s} ELSE pinned \ {s}
  /\ UNCHANGED <<status, rowToken, rowContainer, resumable, snapshotted>>

\* setSdkSessionId(): only a session with a sdk_session_id can be resumed.
SetSdkSessionId(s) ==
  /\ resumable' = IF HasRow(s) THEN resumable \cup {s} ELSE resumable
  /\ UNCHANGED <<status, rowToken, rowContainer, pinned, snapshotted>>

\* insertSnapshot(): its foreign key refuses an id without a row.
InsertSnapshot(s) ==
  /\ snapshotted' = IF HasRow(s) THEN snapshotted \cup {s} ELSE snapshotted
  /\ UNCHANGED <<status, rowToken, rowContainer, pinned, resumable>>
=============================================================================
