-------------------------- MODULE SessionLifecycle --------------------------
(***************************************************************************)
(* The life of sessions in the orchestrator: the HTTP requests that create *)
(* (or fork), resume, stop, delete and evict them, the containers and the  *)
(* sockets of their runners, and a crash and restart of the orchestrator.  *)
(*                                                                         *)
(* The orchestrator is one Node process: between two awaits a handler runs *)
(* alone.  So a request is a process whose actions are the stretches of    *)
(* its handler between awaits, pc naming the await it is suspended at, and *)
(* a message or a close event from the bridge is one action.               *)
(***************************************************************************)
EXTENDS TokenPool, SessionStore, ContainerManager, WsBridge

CONSTANTS
  Requests,      \* HTTP requests that may be in flight at the same time
  MaxActive,     \* MAX_ACTIVE_SESSIONS; 0 when it is not configured
  Ops,           \* what clients ask for: a subset of AllOps
  Faults,        \* what may go wrong around the orchestrator: see AllFaults
  MaxRestarts,   \* bound on crashes of the orchestrator
  Overlap        \* may a request begin on a session another one works on?

\* restop is a stop of a session that is stopped or failed already; snapshot is
\* not a client's wish: it lets the runners send context_snapshot messages.
AllOps == {"create", "resume", "stop", "restop", "delete", "pin", "snapshot"}

\* killFails:  the engine does not stop a container (kill() swallows the error)
\* spawnFails: the engine does not start one (spawn() throws)
\* rowFails:   the store refuses the row of a new session
\* disconnect: a socket breaks while its runner lives; the runner reconnects
\* reconnect:  the new socket registers before the old one is seen to close
\* late:       a status sent before the runner died is read after its death
\* error:      a runner reports an error
\* timeout:    waitForReady gives up after its 120 seconds
AllFaults == {"killFails", "spawnFails", "rowFails", "disconnect", "reconnect", "late",
              "error", "timeout"}

ASSUME ConfigAssumption ==
  /\ MaxActive \in Nat
  /\ MaxRestarts \in Nat
  /\ Ops \subseteq AllOps
  /\ Faults \subseteq AllFaults
  /\ Overlap \in BOOLEAN
  /\ None \notin Requests

VARIABLES
  req,        \* request -> where its handler is suspended, and its locals
  restarts    \* number of restarts so far

lifeVars == <<poolVars, storeVars, dockerVars, bridgeVars>>
vars     == <<lifeVars, req, restarts>>

Waiting   == {"waiting", "rewaiting"}
UndoSteps == {"undoing", "failing"}
Steps     == Waiting \cup UndoSteps \cup
             {"free", "evicting", "admitted", "spawning", "killing", "respawning",
              "stopping", "deleting"}

Free == [pc |-> "free", sid |-> None, victim |-> None, held |-> None,
         token |-> None, cands |-> {}]

At(r, step) == req[r].pc = step

\* The handler of r continues (or begins) at another await.
Goto(r, step, s, held, token) ==
  req' = [req EXCEPT ![r] = [Free EXCEPT !.pc = step, !.sid = s, !.held = held, !.token = token]]

Finish(r) == req' = [req EXCEPT ![r] = Free]

\* The kill() of session s the handler of r awaits is over.
KillEnds(r, s) ==
  \/ FinishKill(s, req[r].held, TRUE)
  \/ "killFails" \in Faults /\ FinishKill(s, req[r].held, FALSE)

\* No request is working on s.
Quiet(s) == \A r \in Requests : req[r].sid # s /\ req[r].victim # s

MayBegin(r, s) == At(r, "free") /\ (Overlap \/ Quiet(s))

\* A new UUID: nothing was ever started or stored under it.
Fresh(s) == ~HasRow(s) /\ Quiet(s) /\ \A c \in Containers : owner[c] # s

ReqTypeOK ==
  req \in [Requests -> [pc : Steps, sid : Sessions \cup {None}, victim : Sessions \cup {None},
                        held : Containers \cup {None}, token : Tokens \cup {None},
                        cands : SUBSET Sessions]]

\* The type invariant: the parts of the orchestrator, and its requests.
TypeOK == /\ PoolTypeOK /\ StoreTypeOK /\ DockerTypeOK /\ BridgeTypeOK
          /\ ReqTypeOK /\ restarts \in Nat

Init == /\ PoolInit /\ StoreInit /\ DockerInit /\ BridgeInit
        /\ req = [r \in Requests |-> Free]
        /\ restarts = 0
-----------------------------------------------------------------------------
\* Mutant of CapacityDecision: the limit is off by one.
CapacityOffByOne(r, s, cands, count) ==
  \/ /\ MaxActive = 0 \/ count <= MaxActive
     /\ Goto(r, "admitted", s, None, None)
  \/ /\ MaxActive # 0 /\ count > MaxActive /\ cands = {}
     /\ Finish(r)
  \/ /\ MaxActive # 0 /\ count > MaxActive
     /\ \E v \in cands :
          req' = [req EXCEPT ![r] = [Free EXCEPT !.pc = "evicting", !.sid = s, !.victim = v,
                                       !.held = containers[v], !.cands = cands \ {v}]]

(***************************************************************************)
(* ensureCapacity(): the candidates are read once, then evicted one after  *)
(* the other until the count read after each eviction is below the limit.  *)
(***************************************************************************)
CapacityDecision(r, s, cands, count) ==
  \/ /\ MaxActive = 0 \/ count < MaxActive
     /\ Goto(r, "admitted", s, None, None)
  \/ /\ MaxActive # 0 /\ count >= MaxActive /\ cands = {}
     /\ Finish(r)                                  \* ApiError 429
  \/ /\ MaxActive # 0 /\ count >= MaxActive
     /\ \E v \in cands :
          req' = [req EXCEPT ![r] = [Free EXCEPT !.pc = "evicting", !.sid = s, !.victim = v,
                                       !.held = containers[v], !.cands = cands \ {v}]]

\* POST /sessions, POST /sessions/:id/fork: up to the first await.
CreateBegin(r, s) ==
  /\ "create" \in Ops /\ At(r, "free") /\ Fresh(s)
  /\ CapacityDecision(r, s, Evictable, ActiveCount)
  /\ UNCHANGED <<lifeVars, restarts>>

\* stopSessionRuntime() of the victim from the kill on, and the next decision.
EvictEnd(r) ==
  /\ At(r, "evicting")
  /\ KillEnds(r, req[r].victim)
  /\ UpdateStatus(req[r].victim, "stopped")
  /\ Release(req[r].victim)
  /\ CapacityDecision(r, req[r].sid, req[r].cands, ActiveCount')
  /\ UNCHANGED <<bridgeVars, restarts>>

\* tokenPool.assign() and the call of spawn(), after the vault's MCP servers
\* came back (they and the credentials leave no trace, and never throw).
AssignToken(r) ==
  /\ At(r, "admitted")
  /\ Assign(req[r].sid)
  /\ Goto(r, "spawning", req[r].sid, None, nextIndex)
  /\ UNCHANGED <<storeVars, dockerVars, bridgeVars, restarts>>

\* The engine starts a container for a suspended spawn(). The sockets of the
\* session's dead containers are closed by then: the kernel closes them when
\* the process dies, long before another container has booted.
ContainerStarts(r, c) ==
  /\ req[r].pc \in {"spawning", "respawning"} /\ req[r].held = None
  /\ \A d \in Containers : owner[d] = req[r].sid /\ life[d] = "dead" => d \notin sockets
  /\ EngineStarts(req[r].sid, c)
  /\ req' = [req EXCEPT ![r].held = c]
  /\ UNCHANGED <<poolVars, storeVars, bridgeVars, restarts>>

\* spawn() returned: the row is created and waitForReady() begins.
SpawnReturns(r) ==
  /\ At(r, "spawning") /\ req[r].held # None
  /\ Track(req[r].sid, req[r].held)
  /\ \E pin \in BOOLEAN :
       /\ pin => "pin" \in Ops
       /\ CreateRow(req[r].sid, req[r].held, req[r].token, pin)
  /\ Goto(r, "waiting", req[r].sid, None, None)
  /\ UNCHANGED <<poolVars, bridgeVars, restarts>>

\* spawn() returned but the INSERT is refused (the tenant_id names a tenant that
\* was removed meanwhile): the tracked container is killed.
RowRefused(r) ==
  /\ "rowFails" \in Faults /\ At(r, "spawning") /\ req[r].held # None
  /\ Track(req[r].sid, req[r].held)
  /\ Goto(r, "undoing", req[r].sid, req[r].held, None)
  /\ UNCHANGED <<poolVars, storeVars, bridgeVars, restarts>>

\* spawn() threw: spawnSession() releases the token (a fork does not), and
\* rollbackSession() begins, which kills nothing: no container is tracked.
SpawnThrows(r) ==
  /\ "spawnFails" \in Faults /\ At(r, "spawning") /\ req[r].held = None
  /\ Release(req[r].sid) \/ UNCHANGED poolVars
  /\ Goto(r, "undoing", req[r].sid, containers[req[r].sid], None)
  /\ UNCHANGED <<storeVars, dockerVars, bridgeVars, restarts>>

\* Mutant of UndoEnd: the rollback forgets the token.
UndoEndKeepsToken(r) ==
  /\ At(r, "undoing")
  /\ KillEnds(r, req[r].sid)
  /\ req[r].sid \notin snapshotted /\ RemoveRow(req[r].sid)
  /\ Finish(r)
  /\ UNCHANGED <<poolVars, bridgeVars, restarts>>

\* Mutant of UndoEnd: the rollback forgets the row.
UndoEndKeepsRow(r) ==
  /\ At(r, "undoing")
  /\ KillEnds(r, req[r].sid)
  /\ Release(req[r].sid)
  /\ Finish(r)
  /\ UNCHANGED <<storeVars, bridgeVars, restarts>>

\* rollbackSession() from the kill on.  With snapshots of the session in the
\* database the DELETE throws and the token is not released.
UndoEnd(r) ==
  LET s == req[r].sid
  IN  /\ At(r, "undoing")
      /\ KillEnds(r, s)
      /\ \/ /\ s \notin snapshotted
            /\ RemoveRow(s)
            /\ Release(s)
         \/ /\ s \in snapshotted
            /\ UNCHANGED <<storeVars, poolVars>>
      /\ Finish(r)
      /\ UNCHANGED <<bridgeVars, restarts>>
-----------------------------------------------------------------------------
\* Mutant of ResumeBegin: the container of the session is not killed first.
ResumeBeginNoKill(r, s) ==
  /\ "resume" \in Ops /\ MayBegin(r, s)
  /\ status[s] \in Terminal /\ s \in resumable
  /\ Release(s)
  /\ Goto(r, "killing", s, None, None)
  /\ UNCHANGED <<storeVars, dockerVars, bridgeVars, restarts>>

\* POST /sessions/:id/resume of a stopped or failed session, to its first kill.
ResumeBegin(r, s) ==
  /\ "resume" \in Ops /\ MayBegin(r, s)
  /\ status[s] \in Terminal /\ s \in resumable
  /\ Release(s)
  /\ Goto(r, "killing", s, containers[s], None)
  /\ UNCHANGED <<storeVars, dockerVars, bridgeVars, restarts>>

\* The old container is gone: a new token, and spawn() is called.
ResumeAssigns(r) ==
  /\ At(r, "killing")
  /\ KillEnds(r, req[r].sid)
  /\ Assign(req[r].sid)
  /\ Goto(r, "respawning", req[r].sid, None, nextIndex)
  /\ UNCHANGED <<storeVars, bridgeVars, restarts>>

ResumeSpawned(r) ==
  /\ At(r, "respawning") /\ req[r].held # None
  /\ Track(req[r].sid, req[r].held)
  /\ Reactivate(req[r].sid, req[r].held, req[r].token)
  /\ Goto(r, "rewaiting", req[r].sid, None, None)
  /\ UNCHANGED <<poolVars, bridgeVars, restarts>>

\* spawn() threw: the catch block up to its kill.
ResumeThrows(r) ==
  /\ "spawnFails" \in Faults /\ At(r, "respawning") /\ req[r].held = None
  /\ Goto(r, "failing", req[r].sid, containers[req[r].sid], None)
  /\ UNCHANGED <<lifeVars, restarts>>

\* Mutant of ResumeFails: the catch block does not record the error.
ResumeFailsKeepsStatus(r) ==
  /\ At(r, "failing")
  /\ KillEnds(r, req[r].sid)
  /\ Release(req[r].sid)
  /\ Finish(r)
  /\ UNCHANGED <<storeVars, bridgeVars, restarts>>

\* The catch block of resume from its kill on.
ResumeFails(r) ==
  /\ At(r, "failing")
  /\ KillEnds(r, req[r].sid)
  /\ Release(req[r].sid)
  /\ UpdateStatus(req[r].sid, "error")
  /\ Finish(r)
  /\ UNCHANGED <<bridgeVars, restarts>>
-----------------------------------------------------------------------------
\* What the requests waiting for s in waitForReady() do when it rejects: a
\* create rolls back, a resume enters its catch block; both begin a kill.
WaitersOf(s) == {r \in Requests : req[r].sid = s /\ req[r].pc \in Waiting}

Rejected(r) ==
  [req[r] EXCEPT !.pc = IF @ = "waiting" THEN "undoing" ELSE "failing",
                 !.held = containers[req[r].sid]]

RejectWaiters(s) ==
  req' = [r \in Requests |-> IF r \in WaitersOf(s) THEN Rejected(r) ELSE req[r]]

ResolveWaiters(s) ==
  req' = [r \in Requests |-> IF r \in WaitersOf(s) THEN Free ELSE req[r]]

\* Mutant of WaitTimesOut: only the wait of a resume has a timer.
WaitTimesOutOfResume(r) ==
  /\ "timeout" \in Faults /\ At(r, "rewaiting")
  /\ req' = [req EXCEPT ![r] = Rejected(r)]
  /\ UNCHANGED <<lifeVars, restarts>>

\* The 120 s timer of waitForReady().
WaitTimesOut(r) ==
  /\ "timeout" \in Faults /\ req[r].pc \in Waiting
  /\ req' = [req EXCEPT ![r] = Rejected(r)]
  /\ UNCHANGED <<lifeVars, restarts>>
-----------------------------------------------------------------------------
\* POST /sessions/:id/stop.
StopBegin(r, s) ==
  /\ "stop" \in Ops /\ MayBegin(r, s) /\ s \in Active
  /\ Goto(r, "stopping", s, containers[s], None)
  /\ UNCHANGED <<lifeVars, restarts>>

StopEnd(r) ==
  /\ At(r, "stopping")
  /\ KillEnds(r, req[r].sid)
  /\ UpdateStatus(req[r].sid, "stopped")
  /\ Release(req[r].sid)
  /\ Finish(r)
  /\ UNCHANGED <<bridgeVars, restarts>>

\* ... of a session that is stopped already: it answers at once.
StopAgain(r, s) ==
  /\ "restop" \in Ops /\ MayBegin(r, s) /\ status[s] \in Terminal
  /\ Release(s)
  /\ UNCHANGED <<storeVars, dockerVars, bridgeVars, req, restarts>>

\* DELETE /sessions/:id.
DeleteBegin(r, s) ==
  /\ "delete" \in Ops /\ MayBegin(r, s) /\ HasRow(s)
  /\ Goto(r, "deleting", s, containers[s], None)
  /\ UNCHANGED <<lifeVars, restarts>>

\* stopSessionRuntime() from the kill on, then remove(): the DELETE throws
\* when context_snapshots still references the session.
DeleteEnd(r) ==
  LET s == req[r].sid
  IN  /\ At(r, "deleting")
      /\ KillEnds(r, s)
      /\ Release(s)
      /\ \/ s \in snapshotted /\ UpdateStatus(s, "stopped")
         \/ s \notin snapshotted /\ RemoveRow(s)
      /\ Finish(r)
      /\ UNCHANGED <<bridgeVars, restarts>>

\* PATCH /sessions/:id with a pinned field.
Pin(s) ==
  /\ "pin" \in Ops /\ HasRow(s)
  /\ \E pin \in BOOLEAN : SetPinned(s, pin)
  /\ UNCHANGED <<poolVars, dockerVars, bridgeVars, req, restarts>>
-----------------------------------------------------------------------------
(***************************************************************************)
(* What the bridge hears from the runner in container c.                   *)
(***************************************************************************)
Heard(c) == life[c] = "live" \/ ("late" \in Faults /\ life[c] = "dead" /\ c \in sockets)

\* The first message on a (new) socket of c.
FirstMessage(c) ==
  /\ life[c] = "live"
  /\ c \notin sockets \/ ("reconnect" \in Faults /\ c \notin superseded)
  /\ Register(owner[c], c)

\* status: ready. It is the first message a runner sends when it connects
\* and, once connected, the one that ends a turn.
ReportsReady(c) ==
  /\ FirstMessage(c) \/ (Heard(c) /\ Registered(c))
  /\ UpdateStatus(owner[c], "ready")
  /\ ResolveWaiters(owner[c])
  /\ UNCHANGED <<poolVars, dockerVars, restarts>>

\* status: busy, at the beginning of a turn.
ReportsBusy(c) ==
  /\ Heard(c) /\ Registered(c)
  /\ UpdateStatus(owner[c], "busy")
  /\ UNCHANGED <<poolVars, dockerVars, req, restarts>>

\* error: the set-up failed (a first message) or a turn did.
ReportsError(c) ==
  /\ "error" \in Faults
  /\ FirstMessage(c) \/ (Heard(c) /\ Registered(c))
  /\ UpdateStatus(owner[c], "error")
  /\ RejectWaiters(owner[c])
  /\ UNCHANGED <<poolVars, dockerVars, restarts>>

\* session_init: the SDK named its session, which makes ours resumable. (Left
\* out of instances without resume, where nothing reads it.)
ReportsSessionInit(c) ==
  /\ "resume" \in Ops
  /\ Heard(c) /\ Registered(c)
  /\ SetSdkSessionId(owner[c])
  /\ UNCHANGED <<poolVars, dockerVars, req, restarts>>

\* context_snapshot.
ReportsSnapshot(c) ==
  /\ "snapshot" \in Ops
  /\ Heard(c) /\ Registered(c)
  /\ InsertSnapshot(owner[c])
  /\ UNCHANGED <<poolVars, dockerVars, req, restarts>>

\* The close handler. A session whose connection is lost is stopped, unless
\* it has ended or the socket is not the one the session uses.
SocketCloses(c) ==
  LET s == owner[c]
  IN  /\ c \in sockets
      /\ life[c] = "dead" \/ "disconnect" \in Faults
      /\ CloseSocket(s, c)
      /\ \/ /\ IsActiveConnection(s, c) /\ s \in Active
            /\ UpdateStatus(s, "stopped")
         \/ /\ ~(IsActiveConnection(s, c) /\ s \in Active)
            /\ UNCHANGED storeVars
      /\ UNCHANGED <<poolVars, dockerVars, req, restarts>>

\* The close of a socket its own runner has replaced.
SupersededCloses(c) ==
  /\ c \in superseded
  /\ superseded' = superseded \ {c}
  /\ UNCHANGED <<connections, sockets, poolVars, storeVars, dockerVars, req, restarts>>

\* The runner process ends: told to by sendShutdown() or an engine's stop, or
\* by itself.
RunnerExits(c) ==
  /\ life[c] = "live"
  /\ life' = [life EXCEPT ![c] = "dead"]
  /\ UNCHANGED <<containers, owner, poolVars, storeVars, bridgeVars, req, restarts>>
-----------------------------------------------------------------------------
\* The reconciliation in index.ts: a row without a running container is
\* stopped, a terminal row with one is idle again.
Reconciled(s) ==
  IF containers'[s] # None
    THEN IF status[s] \in Terminal THEN "idle" ELSE status[s]
    ELSE IF s \in Active THEN "stopped" ELSE status[s]

\* The orchestrator dies with every request and socket, and starts again on
\* the same database and the same engine.
Restart ==
  /\ restarts < MaxRestarts
  /\ restarts' = restarts + 1
  /\ Recover(rowContainer)
  /\ status' = [s \in Sessions |-> Reconciled(s)]
  /\ Restore(Active', rowToken)
  /\ req' = [r \in Requests |-> Free]
  /\ connections' = [s \in Sessions |-> None]
  /\ sockets' = {}
  /\ superseded' = {}
  /\ UNCHANGED <<rowToken, rowContainer, pinned, resumable, snapshotted>>
-----------------------------------------------------------------------------
\* A handler goes on because what it awaits has come.
Continues(r) ==
  \/ EvictEnd(r) \/ AssignToken(r) \/ SpawnReturns(r) \/ SpawnThrows(r)
  \/ RowRefused(r) \/ UndoEnd(r)
  \/ ResumeAssigns(r) \/ ResumeSpawned(r) \/ ResumeThrows(r) \/ ResumeFails(r)
  \/ StopEnd(r) \/ DeleteEnd(r) \/ WaitTimesOut(r)
  \/ \E c \in Containers : ContainerStarts(r, c)

Arrives(r, s) ==
  \/ CreateBegin(r, s) \/ ResumeBegin(r, s) \/ StopBegin(r, s) \/ StopAgain(r, s)
  \/ DeleteBegin(r, s)

RunnerActs(c) ==
  \/ ReportsReady(c) \/ ReportsBusy(c) \/ ReportsError(c) \/ ReportsSessionInit(c)
  \/ ReportsSnapshot(c) \/ SocketCloses(c) \/ SupersededCloses(c) \/ RunnerExits(c)

Next ==
  \/ \E r \in Requests : Continues(r)
  \/ \E r \in Requests, s \in Sessions : Arrives(r, s)
  \/ \E s \in Sessions : Pin(s)
  \/ \E c \in Containers : RunnerActs(c)
  \/ Restart

Spec == Init /\ [][Next]_vars

\* The engine answers and timers fire: a suspended handler does go on. Nothing
\* is assumed of clients, of runners or of the network.
Fairness == \A r \in Requests : WF_vars(Continues(r))

FairSpec == Spec /\ Fairness
-----------------------------------------------------------------------------
\* A container of s that the manager does not track can still be heard.
Untracked(s) ==
  \E c \in Containers : /\ owner[c] = s /\ containers[s] # c
                        /\ life[c] = "live" \/ c \in sockets

\* An active session that no request works on holds the token of its row and
\* is tracked by the container manager under the container of its row, so that
\* stop, delete and eviction reach its runner. The only way out is a runner the
\* manager lost track of that still speaks for the session.
ActiveIsBacked ==
  \A s \in Active : Quiet(s) =>
    \/ /\ sessionTokens[s] = rowToken[s]
       /\ containers[s] # None /\ containers[s] = rowContainer[s]
    \/ Untracked(s)

\* When the last request on a session is over and it has no row (its creation
\* was rolled back, or it was deleted), nothing of it is left in the token pool
\* or in the container manager: rollbackSession() and DELETE undo everything.
GoneIsReleased ==
  \A s \in Sessions : ~HasRow(s) /\ Quiet(s) =>
    sessionTokens[s] = None /\ containers[s] = None

\* Between requests the pool and the row never disagree on the token, although
\* resume gives the session another one and writes it several awaits later.
TokenMatchesRow ==
  \A s \in Sessions : Quiet(s) /\ sessionTokens[s] # None => sessionTokens[s] = rowToken[s]

\* Some request is in waitForReady() for s, or undoes what it did after it.
Awaited(s) == \E r \in Requests : req[r].sid = s /\ req[r].pc \in Waiting \cup UndoSteps

\* A session shown as starting is waited for by a request that will report it
\* or undo it, or a restart has found its container running. The exception is
\* a row whose rollback the snapshots of the session refuse.
StartingIsAwaited ==
  \A s \in Sessions : status[s] = "starting" =>
    \/ Awaited(s)
    \/ restarts > 0 /\ containers[s] # None
    \/ s \in snapshotted

\* No runner is lost: one that runs is tracked, or a spawn or a kill has it.
NoLostRunner ==
  \A c \in Containers : life[c] = "live" =>
    \/ containers[owner[c]] = c
    \/ \E r \in Requests : req[r].held = c

\* Two runners never work for one session (they would resume the same SDK
\* session and append to the same transcript).
SingleRunner ==
  \A c, d \in Containers :
    life[c] = "live" /\ life[d] = "live" /\ owner[c] = owner[d] => c = d

\* A session is stopped behind the back of the requests only when the socket
\* its commands go to is lost: neither the late close of the socket of an
\* earlier container nor that of a replaced socket stops a connected session.
OnlyLostConnectionStops ==
  [][\A s \in Active : status'[s] = "stopped" /\ Quiet(s) /\ restarts' = restarts
       => connections[s] \notin sockets']_vars

\* After a restart the active sessions are those whose recorded container runs,
\* tracked under it, and they alone hold a token, the one of their row: the
\* store, the engine and the pool agree again wherever the crash hit.
RestartReconciles ==
  [][restarts' # restarts =>
       \A s \in Sessions :
         IF s \in Active'
           THEN /\ containers'[s] = rowContainer[s] /\ life[rowContainer[s]] = "live"
                /\ sessionTokens'[s] = rowToken[s]
           ELSE containers'[s] = None /\ sessionTokens'[s] = None]_vars

\* Requests that overlap exceed MAX_ACTIVE_SESSIONS by what the other requests
\* may have been admitted to meanwhile, and by no more. (Resume is not counted:
\* it does not ask for capacity.)
OvershootBounded ==
  LET admitted == {req[r].sid : r \in {q \in Requests : req[q].pc \in {"admitted", "spawning"}}}
  IN  MaxActive # 0 => Cardinality(Active \cup admitted) < MaxActive + Cardinality(Requests)

\* Every request is answered, whatever runners and other requests do.
RequestsFinish == \A r \in Requests : ~At(r, "free") ~> At(r, "free")

\* No session is left starting: it gets ready, or it is undone or failed.
StartingSettles == \A s \in Sessions : status[s] = "starting" ~> status[s] # "starting"
=============================================================================
