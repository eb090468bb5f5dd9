------------------------------ MODULE WarmPool ------------------------------
(***************************************************************************)
(* orchestrator/src/warm-pool.ts on the k8s backend, and what uses it: a   *)
(* POST /sessions with a message adopts a warm runner instead of spawning  *)
(* one, a utility query (title, folder) takes one for a single question.   *)
(* The pool is memory: it starts empty with every process.                 *)
(*                                                                         *)
(* An action is a stretch of a handler between two awaits, as in           *)
(* SessionLifecycle; here the requests on one session follow each other,   *)
(* and which token an id holds (TokenPool) is left out: only whether.      *)
(***************************************************************************)
EXTENDS K8sManager

CONSTANTS
  Profiles,      \* the pool's profiles (vault and agent)
  Generic,       \* the profile without vault and agent; None if not configured
  ProfileOf,     \* warm id -> the profile it would be spawned for
  Target,        \* profile -> targetSize
  Requests,      \* requests that may be in flight at the same time
  Faults,        \* what may go wrong: a subset of AllFaults
  MaxRestarts    \* bound on crashes of the orchestrator

\* spawnFails: the API refuses a pod         killFails:  it does not delete one
\* listFails:  it does not list the pods     patchFails: it does not patch a label
\* slowCreate: a runner is up before the call that created its pod returns
\* disconnect: a socket breaks, its runner reconnects
\* error:      a runner reports that its set-up or the adoption failed
AllFaults == {"spawnFails", "killFails", "listFails", "patchFails", "slowCreate",
              "disconnect", "error"}

ASSUME PoolAssumption ==
  /\ Generic \in Profiles \cup {None}
  /\ ProfileOf \in [WarmIds -> Profiles]
  /\ Target \in [Profiles -> Nat]
  /\ Faults \subseteq AllFaults
  /\ MaxRestarts \in Nat

VARIABLES
  pool,        \* warm id -> status of its entry, "out" without one
  refilling,   \* the flag refill() holds until every spawn it began is settled
  holders,     \* the ids that hold a token
  row,         \* session -> status column, "absent" without a row
  serves,      \* name -> the SESSION_ID the runner in the pod speaks for
  inbox,       \* name -> the session of an adopt command under way to the runner
  sock,        \* name -> the id its open socket is registered under, or None
  connections, \* id -> name of the pod at the socket commands go to, or None
  req,         \* request -> where its handler is suspended
  restarts

poolVars   == <<pool, refilling>>
socketVars == <<serves, inbox, sock, connections>>
vars == <<k8sVars, poolVars, socketVars, holders, row, req, restarts>>

Waiting == {"waiting", "rewaiting"}
Steps   == Waiting \cup {"free", "adopting", "spawning", "respawning", "querying", "unheard"}

Free == [pc |-> "free", sid |-> None, warm |-> None]

Goto(r, step, s, w) == req' = [req EXCEPT ![r] = [pc |-> step, sid |-> s, warm |-> w]]

Finish(r) == req' = [req EXCEPT ![r] = Free]

\* The type invariant.
TypeOK ==
  /\ K8sTypeOK
  /\ pool \in [WarmIds -> {"out", "spawning", "ready"}]
  /\ refilling \in BOOLEAN
  /\ holders \subseteq Ids
  /\ row \in [Sessions -> {"absent", "starting", "ready", "stopped", "error"}]
  /\ serves \in [Ids -> Ids] /\ inbox \in [Ids -> Sessions \cup {None}]
  /\ sock \in [Ids -> Ids \cup {None}]
  /\ connections \in [Ids -> Ids \cup {None}]
  /\ req \in [Requests -> [pc : Steps, sid : Sessions \cup {None}, warm : WarmIds \cup {None}]]
  /\ restarts \in 0 .. MaxRestarts

Quiet(s) == \A r \in Requests : req[r].sid # s

InUse(w) == \E r \in Requests : req[r].warm = w

InPool == {w \in WarmIds : pool[w] # "out"}

Active == {s \in Sessions : row[s] \in {"starting", "ready"}}
-----------------------------------------------------------------------------
(***************************************************************************)
(* The pool.                                                               *)
(***************************************************************************)

\* The warm ids nothing refers to: any of them stands for a new UUID.
Unused == {w \in WarmIds : /\ pool[w] = "out" /\ ~InUse(w) /\ w \notin holders
                           /\ phase[w] = "absent" /\ spawning[w] = "no"
                           /\ sock[w] = None /\ patching[w] = None
                           /\ \A i \in Ids : pods[i] # w /\ connections[i] # w}

OfProfile(p, ws) == {w \in ws : ProfileOf[w] = p}

Least(a, b) == IF a < b THEN a ELSE b

\* The new entries refill() makes: for each profile what its entries, whatever
\* their status, are short of the target (bound: what WarmIds still has).
Fills(entries) ==
  {new \in SUBSET Unused : \A p \in Profiles :
    LET current == Cardinality(OfProfile(p, entries))
    IN  Cardinality(OfProfile(p, new)) =
          IF Target[p] <= current THEN 0
          ELSE Least(Target[p] - current, Cardinality(OfProfile(p, Unused)))}

\* A pool of these entries, joined by new ones.
PoolOf(entries, new) ==
  [w \in WarmIds |-> IF w \in new THEN "spawning"
                     ELSE IF w \in entries THEN pool[w] ELSE "out"]

\* refill() on a pool of these entries, up to its await, when held are the
\* other holders of a token. It does nothing while another refill waits for its
\* spawns, and is over at once when there is nothing to spawn.
Refill(entries, held) ==
  \E new \in IF refilling THEN {{}} ELSE Fills(entries) :
    /\ pool' = PoolOf(entries, new)
    /\ refilling' = (refilling \/ new # {})
    /\ spawning' = [i \in Ids |-> IF i \in new THEN "called" ELSE spawning[i]]
    /\ holders' = held \cup new

IsConnected(i) == connections[i] # None

\* findReady().
FindReady(p) == {w \in OfProfile(p, WarmIds) : pool[w] = "ready" /\ IsConnected(w)}

\* The promises refill() waits for after the one of w is settled.
SpawnSettled(w) ==
  refilling' = (refilling /\ \E o \in WarmIds \ {w} : spawning[o] # "no")

\* spawnWarmContainer() after its await.
WarmSpawned(w) ==
  /\ SpawnReturns(w)
  /\ SpawnSettled(w)
  /\ UNCHANGED <<pool, socketVars, holders, row, req, restarts>>

\* Mutant of WarmSpawnFails: the flag is only lowered by a spawn that succeeds.
WarmSpawnFailsUnsettled(w) ==
  /\ SpawnThrows(w, "spawnFails" \in Faults)
  /\ pool' = [pool EXCEPT ![w] = "out"]
  /\ holders' = holders \ {w}
  /\ UNCHANGED <<refilling, socketVars, row, req, restarts>>

\* ... and its catch block, which finds the entry unless it was adopted.
WarmSpawnFails(w) ==
  /\ SpawnThrows(w, "spawnFails" \in Faults)
  /\ SpawnSettled(w)
  /\ pool' = [pool EXCEPT ![w] = "out"]
  /\ holders' = holders \ {w}
  /\ UNCHANGED <<socketVars, row, req, restarts>>
-----------------------------------------------------------------------------
(***************************************************************************)
(* The requests.                                                           *)
(***************************************************************************)

\* Mutant of AdoptEntry: the entry is not spliced out of the pool.
AdoptEntryCopies(r, s, w) ==
  /\ Refill(InPool, (holders \ {w}) \cup {s})
  /\ Goto(r, "adopting", s, w)
  /\ UNCHANGED <<pods, phase, label, patching>>

\* adopt() and the swap of the tokens, up to the await of the credentials.
AdoptEntry(r, s, w) ==
  /\ Refill(InPool \ {w}, (holders \ {w}) \cup {s})
  /\ Goto(r, "adopting", s, w)
  /\ UNCHANGED <<pods, phase, label, patching>>

\* A new UUID: nothing was ever started or stored under it.
Fresh(s) == /\ row[s] = "absent" /\ Quiet(s) /\ s \notin holders
            /\ phase[s] = "absent" /\ pods[s] = None /\ connections[s] = None
            /\ \A n \in Ids : sock[n] # s /\ patching[n] # s
                              /\ (phase[n] # "absent" => s \notin {serves[n], inbox[n], label[n]})

\* POST /sessions with a message: spawnSession() adopts a warm runner of the
\* profile, or takes a token and spawns.
CreateBegin(r, s, p) ==
  /\ req[r] = Free /\ Fresh(s)
  /\ \/ \E w \in FindReady(p) : AdoptEntry(r, s, w)
     \/ /\ FindReady(p) = {}
        /\ spawning' = [spawning EXCEPT ![s] = "called"]
        /\ holders' = holders \cup {s}
        /\ Goto(r, "spawning", s, None)
        /\ UNCHANGED <<pods, phase, label, patching, poolVars>>
  /\ UNCHANGED <<socketVars, row, restarts>>

\* Mutant of HandOver: the socket keeps the warm id it registered under.
HandOverForgetsSocket(w, s) ==
  LET n == connections[w]
  IN  IF n = None THEN UNCHANGED <<inbox, sock, connections>>
      ELSE /\ inbox' = [inbox EXCEPT ![n] = s]
           /\ connections' = [connections EXCEPT ![w] = None, ![s] = n]
           /\ UNCHANGED sock

\* sendAdopt() and rekeyConnection(): both do nothing without a connection.
HandOver(w, s) ==
  LET n == connections[w]
  IN  IF n = None THEN UNCHANGED <<inbox, sock, connections>>
      ELSE /\ inbox' = [inbox EXCEPT ![n] = s]
           /\ connections' = [connections EXCEPT ![w] = None, ![s] = n]
           /\ sock' = [sock EXCEPT ![n] = s]

\* The credentials came back: the runner is told, connection and pod change
\* hands, the row is created (whatever the other three returned) and the route
\* waits for the runner to be ready.
AdoptEnds(r) ==
  LET s == req[r].sid
      w == req[r].warm
  IN  /\ req[r].pc = "adopting"
      /\ HandOver(w, s)
      /\ Rekey(w, s)
      /\ row' = [row EXCEPT ![s] = "starting"]
      /\ Goto(r, "waiting", s, None)
      /\ UNCHANGED <<poolVars, serves, holders, restarts>>

\* spawn() of a create or a resume returned: the row is created or reactivated.
Spawned(r) ==
  LET s == req[r].sid
  IN  /\ req[r].pc \in {"spawning", "respawning"}
      /\ SpawnReturns(s)
      /\ row' = [row EXCEPT ![s] = "starting"]
      /\ Goto(r, IF req[r].pc = "spawning" THEN "waiting" ELSE "rewaiting", s, None)
      /\ UNCHANGED <<poolVars, socketVars, holders, restarts>>

\* ... or threw: nothing is tracked yet, so nothing is killed.
SpawnFailed(r) ==
  LET s == req[r].sid
  IN  /\ req[r].pc \in {"spawning", "respawning"}
      /\ SpawnThrows(s, "spawnFails" \in Faults)
      /\ holders' = holders \ {s}
      /\ row' = [row EXCEPT ![s] = IF req[r].pc = "respawning" THEN "error" ELSE "absent"]
      /\ Finish(r)
      /\ UNCHANGED <<poolVars, socketVars, restarts>>

\* Mutant of GiveUp: the row is left as it is.
GiveUpKeepsRow(r) ==
  LET s == req[r].sid
  IN  /\ req[r].pc \in Waiting
      /\ Kill(s, "killFails" \in Faults)
      /\ holders' = holders \ {s}
      /\ Finish(r)
      /\ UNCHANGED <<spawning, row>>

\* Mutant of GiveUp: a resume is rolled back like a create.
GiveUpUndoes(r) ==
  LET s == req[r].sid
  IN  /\ req[r].pc \in Waiting
      /\ Kill(s, "killFails" \in Faults)
      /\ holders' = holders \ {s}
      /\ row' = [row EXCEPT ![s] = "absent"]
      /\ Finish(r)
      /\ UNCHANGED spawning

\* waitForReady() rejects: a create is rolled back, a resume is failed.
GiveUp(r) ==
  LET s == req[r].sid
  IN  /\ req[r].pc \in Waiting
      /\ Kill(s, "killFails" \in Faults)
      /\ holders' = holders \ {s}
      /\ row' = [row EXCEPT ![s] = IF req[r].pc = "rewaiting" THEN "error" ELSE "absent"]
      /\ Finish(r)
      /\ UNCHANGED spawning

\* ... because of its 120 s timer.
ReadyTimesOut(r) ==
  /\ GiveUp(r)
  /\ UNCHANGED <<poolVars, socketVars, restarts>>

\* POST /sessions/:id/stop.
Stop(s) ==
  /\ s \in Active /\ Quiet(s)
  /\ Kill(s, "killFails" \in Faults)
  /\ row' = [row EXCEPT ![s] = "stopped"]
  /\ holders' = holders \ {s}
  /\ UNCHANGED <<spawning, poolVars, socketVars, req, restarts>>

\* POST /sessions/:id/resume, from its kill to the call of spawn().
ResumeBegin(r, s) ==
  /\ req[r] = Free /\ Quiet(s)
  /\ row[s] \in {"stopped", "error"}
  /\ Kill(s, "killFails" \in Faults)
  /\ holders' = holders \cup {s}
  /\ spawning' = [spawning EXCEPT ![s] = "called"]
  /\ Goto(r, "respawning", s, None)
  /\ UNCHANGED <<poolVars, socketVars, row, restarts>>

\* POST /sessions/:id/generate-title and suggest-folder with a warm runner. (A
\* query to the session's own runner changes nothing that is modelled here, and
\* a runner that take() found connected can always be sent to.)
QueryBegin(r) ==
  /\ req[r] = Free /\ Generic # None
  /\ \E s \in Sessions : row[s] # "absent"
  /\ \E w \in FindReady(Generic) :
       /\ Refill(InPool \ {w}, holders)
       /\ Goto(r, "querying", None, w)
  /\ UNCHANGED <<pods, phase, label, patching, socketVars, row, restarts>>

\* Mutant of QueryAnswered: the token of the runner is not released.
QueryAnsweredKeepsToken(r) ==
  /\ req[r].pc = "querying"
  /\ Kill(req[r].warm, "killFails" \in Faults)
  /\ Finish(r)
  /\ UNCHANGED <<spawning, poolVars, socketVars, holders, row, restarts>>

\* The answer, or the error that the runner reports instead.
QueryAnswered(r) ==
  /\ req[r].pc = "querying"
  /\ Kill(req[r].warm, "killFails" \in Faults)
  /\ holders' = holders \ {req[r].warm}
  /\ Finish(r)
  /\ UNCHANGED <<spawning, poolVars, socketVars, row, restarts>>

\* The 30 s timer of waitForUtilityQueryResult(): the rejection skips both the
\* release and the kill.
QueryTimesOut(r) ==
  /\ req[r].pc \in {"querying", "unheard"}
  /\ Finish(r)
  /\ UNCHANGED <<k8sVars, poolVars, socketVars, holders, row, restarts>>
-----------------------------------------------------------------------------
(***************************************************************************)
(* The pods, their runners and the sockets of the runners.                 *)
(***************************************************************************)

PodCreated(i) ==
  /\ PodIsCreated(i)
  /\ serves' = [serves EXCEPT ![i] = i]
  /\ inbox' = [inbox EXCEPT ![i] = None]
  /\ UNCHANGED <<sock, connections, poolVars, holders, row, req, restarts>>

PodStarts(n) ==
  /\ phase[n] = "pending"
  /\ spawning[n] = "no" \/ "slowCreate" \in Faults
  /\ phase' = [phase EXCEPT ![n] = "running"]
  /\ UNCHANGED <<pods, label, patching, spawning, poolVars, socketVars, holders, row, req, restarts>>

\* The runner exits, and the pod stays (restartPolicy Never).
RunnerExits(n) ==
  /\ phase[n] = "running"
  /\ phase' = [phase EXCEPT ![n] = "ended"]
  /\ UNCHANGED <<pods, label, patching, spawning, poolVars, socketVars, holders, row, req, restarts>>

\* The grace period of a deleted pod is over.
PodGone(n) ==
  /\ phase[n] = "terminating"
  /\ phase' = [phase EXCEPT ![n] = "absent"]
  /\ UNCHANGED <<pods, label, patching, spawning, poolVars, socketVars, holders, row, req, restarts>>

PatchSettles(n) ==
  /\ PatchEnds(n, "patchFails" \in Faults)
  /\ UNCHANGED <<poolVars, socketVars, holders, row, req, restarts>>

Alive(n) == phase[n] \in {"running", "terminating"}

\* The bridge hears "status: ready" for id i: a row of i is updated and its
\* waiters are answered; an entry of the pool is marked.
HearsReady(i) ==
  /\ row' = IF i \in Sessions /\ row[i] # "absent" THEN [row EXCEPT ![i] = "ready"] ELSE row
  /\ pool' = IF i \in InPool THEN [pool EXCEPT ![i] = "ready"] ELSE pool
  /\ req' = [r \in Requests |->
               IF req[r].pc \in Waiting /\ req[r].sid = i THEN Free ELSE req[r]]
  /\ UNCHANGED <<k8sVars, holders, refilling>>

\* ... or an error: setError(), and the waiters give up.
HearsError(i) ==
  \/ /\ \A r \in Requests : ~(req[r].pc \in Waiting /\ req[r].sid = i)
     /\ row' = IF i \in Sessions /\ row[i] # "absent" THEN [row EXCEPT ![i] = "error"] ELSE row
     /\ UNCHANGED <<k8sVars, holders, poolVars, req>>
  \/ \E r \in Requests :
       /\ req[r].sid = i
       /\ GiveUp(r)
       /\ UNCHANGED poolVars

\* The first message on a socket registers it under the runner's SESSION_ID.
RunnerConnects(n) ==
  /\ Alive(n) /\ sock[n] = None
  /\ sock' = [sock EXCEPT ![n] = serves[n]]
  /\ connections' = [connections EXCEPT ![serves[n]] = n]
  /\ HearsReady(serves[n]) \/ ("error" \in Faults /\ HearsError(serves[n]))
  /\ UNCHANGED <<serves, inbox, restarts>>

\* Mutant of RunnerAdopts: the runner goes on under its warm id.
RunnerAdoptsAsWarm(n) ==
  /\ Alive(n) /\ sock[n] # None /\ inbox[n] # None
  /\ inbox' = [inbox EXCEPT ![n] = None]
  /\ HearsReady(serves[n]) \/ ("error" \in Faults /\ HearsError(serves[n]))
  /\ UNCHANGED <<serves, sock, connections, restarts>>

\* The adopt command: the runner speaks for the session from now on, prepares
\* its workspace and reports ready (the second attempt included) or an error.
RunnerAdopts(n) ==
  /\ Alive(n) /\ sock[n] # None /\ inbox[n] # None
  /\ serves' = [serves EXCEPT ![n] = inbox[n]]
  /\ inbox' = [inbox EXCEPT ![n] = None]
  /\ HearsReady(inbox[n]) \/ ("error" \in Faults /\ HearsError(inbox[n]))
  /\ UNCHANGED <<sock, connections, restarts>>

\* The close handler of the socket of n. An adopt command under way is lost, or
\* the runner has begun to carry it out but could not report.
SocketCloses(n) ==
  LET i == sock[n]
      current == i # None /\ connections[i] = n
  IN  /\ i # None
      /\ ~Alive(n) \/ "disconnect" \in Faults
      /\ sock' = [sock EXCEPT ![n] = None]
      /\ connections' = IF current THEN [connections EXCEPT ![i] = None] ELSE connections
      /\ row' = IF current /\ i \in Active THEN [row EXCEPT ![i] = "stopped"] ELSE row
      /\ inbox' = [inbox EXCEPT ![n] = None]
      /\ \/ UNCHANGED serves
         \/ inbox[n] # None /\ serves' = [serves EXCEPT ![n] = inbox[n]]
      /\ req' = [r \in Requests |->
                   IF req[r].pc = "querying" /\ req[r].warm = i
                     THEN [req[r] EXCEPT !.pc = "unheard"] ELSE req[r]]
      /\ UNCHANGED <<k8sVars, poolVars, holders, restarts>>
-----------------------------------------------------------------------------
\* Mutant of Reconciled: the status is one no row can have.
ReconciledRunning(s) ==
  IF pods'[s] # None THEN "running" ELSE IF s \in Active THEN "stopped" ELSE row[s]

\* The reconciliation in index.ts (row "ready" stands for idle and busy too).
Reconciled(s) ==
  IF pods'[s] # None
    THEN IF row[s] \in {"stopped", "error"} THEN "ready" ELSE row[s]
    ELSE IF s \in Active THEN "stopped" ELSE row[s]

\* The orchestrator dies, with the memory of the pool and every socket, and
\* starts again: sessions are reconciled with the pods found, tokens restored
\* for the active ones, and the empty pool is filled.
Restart ==
  /\ restarts < MaxRestarts
  /\ restarts' = restarts + 1
  /\ Recover({s \in Sessions : row[s] # "absent"}, "listFails" \in Faults)
  /\ row' = [s \in Sessions |-> Reconciled(s)]
  /\ \E new \in Fills({}) :
       /\ pool' = PoolOf({}, new)
       /\ refilling' = (new # {})
       /\ spawning' = [i \in Ids |-> IF i \in new THEN "called" ELSE "no"]
       /\ holders' = new \cup {s \in Sessions : row'[s] \in {"starting", "ready"}}
  /\ sock' = [n \in Ids |-> None]
  /\ connections' = [i \in Ids |-> None]
  /\ inbox' = [n \in Ids |-> None]
  /\ serves' \in {serves, [n \in Ids |-> IF inbox[n] = None THEN serves[n] ELSE inbox[n]]}
  /\ req' = [r \in Requests |-> Free]

\* A new deployment, whose pool has just been filled for the first time.
Init ==
  /\ K8sInit
  /\ row = [s \in Sessions |-> "absent"]
  /\ serves = [n \in Ids |-> n]
  /\ inbox = [n \in Ids |-> None]
  /\ sock = [n \in Ids |-> None]
  /\ connections = [i \in Ids |-> None]
  /\ req = [r \in Requests |-> Free]
  /\ restarts = 0
  /\ holders \in SUBSET WarmIds
  /\ \A p \in Profiles : Cardinality(OfProfile(p, holders)) =
                           Least(Target[p], Cardinality(OfProfile(p, WarmIds)))
  /\ pool = [w \in WarmIds |-> IF w \in holders THEN "spawning" ELSE "out"]
  /\ spawning = [i \in Ids |-> IF i \in holders THEN "called" ELSE "no"]
  /\ refilling = (holders # {})
-----------------------------------------------------------------------------
\* A spawn that the API answers, one way or the other.
SpawnGoesOn(i) ==
  \/ PodCreated(i)
  \/ i \in WarmIds /\ (WarmSpawned(i) \/ WarmSpawnFails(i))

\* A handler goes on because what it awaits has come.
Continues(r) ==
  \/ AdoptEnds(r) \/ Spawned(r) \/ SpawnFailed(r) \/ ReadyTimesOut(r)
  \/ QueryAnswered(r) \/ QueryTimesOut(r)

Arrives(r, s) ==
  \/ ResumeBegin(r, s)
  \/ \E p \in Profiles : CreateBegin(r, s, p)

PodActs(n) ==
  \/ PodStarts(n) \/ RunnerExits(n) \/ PodGone(n) \/ PatchSettles(n)
  \/ RunnerConnects(n) \/ RunnerAdopts(n) \/ SocketCloses(n)

Next ==
  \/ \E i \in Ids : SpawnGoesOn(i)
  \/ \E r \in Requests : Continues(r) \/ QueryBegin(r)
  \/ \E r \in Requests, s \in Sessions : Arrives(r, s)
  \/ \E s \in Sessions : Stop(s)
  \/ \E n \in Ids : PodActs(n)
  \/ Restart

Spec == Init /\ [][Next]_vars
-----------------------------------------------------------------------------
\* A warm runner is used once: no pod is tracked under two ids, none is handed
\* to two requests, and what is still in the pool is neither tracked for nor
\* connected to a session, whatever adoptions, refills, crashes and label
\* patches come between.
OneUse ==
  /\ \A i, j \in Ids : pods[i] # None /\ pods[i] = pods[j] => i = j
  /\ \A q, r \in Requests : req[q].warm # None /\ req[q].warm = req[r].warm => q = r
  /\ \A w \in InPool : ~InUse(w) /\ \A s \in Sessions : w \notin {pods[s], connections[s]}

\* The commands of a session go to a runner that speaks for it, or to one the
\* adopt command is under way to: never to a warm runner nobody told.
CommandsReachOwnRunner ==
  \A s \in Sessions : connections[s] # None => s \in {serves[connections[s]], inbox[connections[s]]}

\* A session shown as ready can be sent to: losing its runner is noticed also
\* when the runner had connected as a warm one. (After a restart a runner that
\* was found running may not have reconnected yet.)
ReadyIsConnected ==
  \A s \in Sessions : row[s] = "ready" =>
    \/ connections[s] # None /\ sock[connections[s]] # None
    \/ restarts > 0 /\ pods[s] # None

\* Every entry of the pool holds a token, and outside the pool a warm id holds
\* one only while a request uses its runner or the runner was left running by
\* a query that was not answered: a token never leaks without its container.
WarmTokens ==
  /\ InPool \subseteq holders
  /\ \A w \in holders \cap WarmIds : w \in InPool \/ InUse(w) \/ pods[w] # None \/ spawning[w] # "no"

\* The refilling flag is up only while a spawn of the refill is pending: no
\* way a spawn can end leaves it up, which would stop all later refills.
RefillIsPending == refilling => \E w \in WarmIds : spawning[w] # "no"

\* A session shown as starting is waited for by the request that will report
\* it, undo it or fail it, also when its warm runner was lost while the
\* credentials were fetched and will never hear of the adoption.
StartingIsAwaited ==
  \A s \in Sessions : row[s] = "starting" =>
    restarts > 0 \/ \E r \in Requests : req[r].sid = s /\ req[r].pc \in Waiting
-----------------------------------------------------------------------------
\* What the documentation and comments say and the code does not do.

\* warm-pool.ts, take(): "Caller kills it when done." A warm runner no request
\* uses any more and that is not in the pool is not tracked either.
TakenIsKilled ==
  \A w \in WarmIds : w \notin InPool /\ ~InUse(w) => pods[w] = None
=============================================================================
