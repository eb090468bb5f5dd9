--------------------------- MODULE WarmAdoptionProofs ---------------------------
(***************************************************************************)
(* Theorems about WarmPool: where a warm runner is, from its spawn to the  *)
(* session or the query that takes it. Everything they need is one         *)
(* inductive invariant, WarmInv, proved action by action.                  *)
(***************************************************************************)
EXTENDS WarmRefinement, WarmPoolProofs

\* Ids and pods share names: under the id i only its own pod is tracked or
\* connected, or a warm one if i is a session.
MayHave(i, n) == n \in {None, i} \/ (i \in Sessions /\ n \in WarmIds)

\* Only a warm pod gets another label, a command to adopt, or another id.
NamesInv ==
  /\ \A i \in Ids : MayHave(i, pods[i]) /\ MayHave(i, connections[i])
  /\ \A n \in Ids : MayHave(serves[n], n) /\ MayHave(label[n], n)
  /\ \A n \in Ids : patching[n] # None \/ inbox[n] # None => n \in WarmIds

\* A connection leads to the socket that was registered under its id.
SocketsInv == \A i \in Ids : connections[i] # None => sock[connections[i]] = i

\* A pod is tracked under one id, and not at all before its spawn has returned.
TrackedOnce ==
  /\ \A i, j \in Ids : pods[i] # None /\ pods[i] = pods[j] => i = j
  /\ \A i, n \in Ids : spawning[n] # "no" => pods[i] # n

\* No two requests work on one session or with one warm runner, and a session
\* whose pod is being spawned is that of a request.
RequestsInv ==
  /\ \A q, r \in Requests : req[q].sid # None /\ req[q].sid = req[r].sid => q = r
  /\ \A q, r \in Requests : req[q].warm # None /\ req[q].warm = req[r].warm => q = r
  /\ \A s \in Sessions : spawning[s] # "no" =>
       \E r \in Requests : req[r].pc \in {"spawning", "respawning"} /\ req[r].sid = s

\* Until the API has accepted it, a warm pod is nothing but its name.
UnbornInv ==
  \A w \in WarmIds : spawning[w] = "called" => phase[w] = "absent" /\ sock[w] = None /\ ~InUse(w)

\* No runner but that of the pod m (None: no runner) speaks for s, or soon will.
NobodyElse(s, m) ==
  spawning[s] = "no" /\ \A n \in Ids : n # m /\ phase[n] # "absent" => serves[n] # s

\* While a request adopts a runner for its new session, nobody speaks for the
\* session and the runner has no token.
AdoptingInv ==
  \A r \in Requests : req[r].pc = "adopting" =>
    NobodyElse(req[r].sid, None) /\ connections[req[r].sid] = None /\ req[r].warm \notin holders

\* Until the runner has heard that it is adopted, nobody else speaks for the
\* session, and the request that adopted it waits, or gave up and left no row.
ToldInv ==
  \A n \in Ids : inbox[n] # None =>
    /\ NobodyElse(inbox[n], n) /\ connections[inbox[n]] = n
    /\ \A r \in Requests : req[r].sid = inbox[n] => req[r].pc = "waiting"
    /\ \/ row[inbox[n]] = "absent"
       \/ row[inbox[n]] = "starting" /\ \E r \in Requests : req[r].sid = inbox[n]

AdoptionsInv == AdoptingInv /\ ToldInv

\* A runner of the pool is nobody else's, and there is a pod behind its entry,
\* as there is behind a query.
PoolInv ==
  /\ \A w \in InPool : /\ ~InUse(w)
                       /\ \A s \in Sessions : w \notin {pods[s], connections[s]}
                       /\ phase[w] # "absent" => serves[w] = w
                       /\ pods[w] # None \/ spawning[w] # "no"
  /\ \A r \in Requests : req[r].pc \in {"querying", "unheard"} =>
       pods[req[r].warm] # None \/ spawning[req[r].warm] # "no"

WarmInv == /\ NamesInv /\ SocketsInv /\ TrackedOnce /\ RequestsInv /\ UnbornInv
           /\ AdoptionsInv /\ PoolInv
-----------------------------------------------------------------------------
(***************************************************************************)
(* The initial states, and the pods.                                       *)
(***************************************************************************)
LEMMA WarmInit == Init => WarmInv
<1> SUFFICES ASSUME Init PROVE WarmInv
  OBVIOUS
<1>1. NamesInv /\ SocketsInv /\ TrackedOnce
  BY IdSets DEF Init, K8sInit, NamesInv, MayHave, SocketsInv, TrackedOnce
<1>2. \A s \in Sessions : spawning[s] = "no"
  BY IdSets DEF Init
<1>3. RequestsInv /\ UnbornInv /\ AdoptionsInv
  BY <1>2, IdSets DEF Init, K8sInit, RequestsInv, UnbornInv, InUse, AdoptionsInv, AdoptingInv, ToldInv, Free
<1>4. PoolInv
  BY IdSets DEF Init, K8sInit, PoolInv, InPool, InUse, Free
<1> QED
  BY <1>1, <1>3, <1>4 DEF WarmInv

\* A delete is asked for, or was not carried out: no pod appears.
LEMMA KillGives ==
  ASSUME TypeInv, NEW i \in Ids, NEW mayFail, Kill(i, mayFail)
  PROVE  /\ pods' = [pods EXCEPT ![i] = None]
         /\ \A n \in Ids : phase'[n] # "absent" => phase[n] # "absent"
         /\ label' = label /\ patching' = patching
BY DEF Kill, Deleted, TypeInv, TypeOK, K8sTypeOK

\* A runner that is still to hear of its adoption stays the only one for its
\* session, and the request that adopted it waits on, unless a step starts
\* something for that session.
LEMMA StillTold ==
  ASSUME TypeInv, WarmInv,
         \A n \in Ids : inbox'[n] # None =>
           /\ inbox'[n] = inbox[n] /\ spawning'[inbox[n]] = "no"
           /\ \A k \in Ids : k # n /\ phase'[k] # "absent" /\ serves'[k] = inbox[n]
                            => phase[k] # "absent" /\ serves[k] = inbox[n]
           /\ connections'[inbox[n]] = connections[inbox[n]] /\ row'[inbox[n]] = row[inbox[n]]
           /\ \A r \in Requests : req'[r].sid = inbox[n] <=> req[r].sid = inbox[n]
           /\ \A r \in Requests : req[r].sid = inbox[n] => req'[r].pc = req[r].pc
  PROVE  ToldInv'
BY DEF WarmInv, AdoptionsInv, ToldInv, NobodyElse

\* Steps that only move pods on, and end none of the waits.
LEMMA WarmPhases ==
  ASSUME TypeInv, WarmInv, NEW n \in Ids, PodStarts(n) \/ RunnerExits(n) \/ PodGone(n)
  PROVE  WarmInv'
<1>1. /\ UNCHANGED <<pods, label, patching, spawning, poolVars, socketVars, holders, row, req>>
      /\ \A m \in Ids : phase'[m] # "absent" => phase[m] # "absent"
  BY DEF PodStarts, RunnerExits, PodGone, TypeInv, TypeOK, K8sTypeOK
<1>2. NamesInv' /\ SocketsInv' /\ TrackedOnce' /\ RequestsInv'
  BY <1>1 DEF WarmInv, NamesInv, MayHave, SocketsInv, TrackedOnce, RequestsInv, socketVars
<1>3. UnbornInv'
  BY <1>1, IdSets DEF WarmInv, UnbornInv, InUse, socketVars, TypeInv, TypeOK, K8sTypeOK
<1>4. AdoptionsInv'
  BY <1>1 DEF WarmInv, AdoptionsInv, AdoptingInv, ToldInv, NobodyElse, socketVars
<1>5. PoolInv'
  BY <1>1, IdSets DEF WarmInv, PoolInv, InPool, InUse, socketVars, poolVars
<1> QED
  BY <1>2, <1>3, <1>4, <1>5 DEF WarmInv

\* Only a warm pod is patched, and with the id of a session.
LEMMA WarmPatch ==
  ASSUME TypeInv, WarmInv, NEW n \in Ids, PatchSettles(n)
  PROVE  WarmInv'
<1>1. UNCHANGED <<pods, phase, spawning, poolVars, socketVars, holders, row, req>>
  BY DEF PatchSettles, PatchEnds
<1>2. n \in WarmIds /\ patching[n] \in Sessions
  BY DEF PatchSettles, PatchEnds, WarmInv, NamesInv, TypeInv, TypeOK, K8sTypeOK
<1>3. /\ \A m \in Ids : MayHave(label'[m], m)
      /\ \A m \in Ids : patching'[m] # None => m \in WarmIds
  BY <1>2 DEF PatchSettles, PatchEnds, WarmInv, NamesInv, MayHave, TypeInv, TypeOK, K8sTypeOK
<1>4. NamesInv'
  BY <1>1, <1>3 DEF WarmInv, NamesInv, MayHave, socketVars
<1>5. SocketsInv' /\ TrackedOnce' /\ RequestsInv' /\ UnbornInv' /\ AdoptionsInv' /\ PoolInv'
  BY <1>1 DEF WarmInv, SocketsInv, TrackedOnce, RequestsInv, UnbornInv, InUse, AdoptionsInv, AdoptingInv, ToldInv, NobodyElse,
              PoolInv, InPool, socketVars, poolVars
<1> QED
  BY <1>4, <1>5 DEF WarmInv

\* The pod of a spawn is created: a new runner that speaks for its own id.
LEMMA WarmCreated ==
  ASSUME TypeInv, WarmInv, NEW i \in Ids, PodCreated(i)
  PROVE  WarmInv'
<1>1. /\ UNCHANGED <<pods, patching, sock, connections, poolVars, holders, row, req>>
      /\ spawning[i] = "called" /\ spawning' = [spawning EXCEPT ![i] = "created"]
      /\ phase' = [phase EXCEPT ![i] = "pending"]
      /\ label' = [label EXCEPT ![i] = i]
      /\ serves' = [serves EXCEPT ![i] = i]
      /\ inbox' = [inbox EXCEPT ![i] = None]
  BY DEF PodCreated, PodIsCreated
<1> USE DEF TypeInv, TypeOK, K8sTypeOK
<1>2. NamesInv'
  BY <1>1 DEF WarmInv, NamesInv, MayHave
<1>3. SocketsInv' /\ TrackedOnce'
  BY <1>1 DEF WarmInv, SocketsInv, TrackedOnce
<1>4. RequestsInv'
  BY <1>1, IdSets DEF WarmInv, RequestsInv
<1>5. UnbornInv'
  BY <1>1, IdSets DEF WarmInv, UnbornInv, InUse
<1>6. \A s \in Sessions, m \in Ids \cup {None} : NobodyElse(s, m) => NobodyElse(s, m)'
  BY <1>1, IdSets DEF NobodyElse
<1>7. AdoptionsInv'
  BY <1>1, <1>6 DEF WarmInv, AdoptionsInv, AdoptingInv, ToldInv, NobodyElse, ReqShape
<1>8. PoolInv'
  BY <1>1, IdSets DEF WarmInv, PoolInv, InPool, InUse, poolVars
<1> QED
  BY <1>2, <1>3, <1>4, <1>5, <1>7, <1>8 DEF WarmInv
-----------------------------------------------------------------------------
(***************************************************************************)
(* Spawns.                                                                 *)
(***************************************************************************)
\* A spawn that returns tracks the pod of its own name, which nobody tracked.
LEMMA TrackedNow ==
  ASSUME TypeInv, WarmInv, NEW i \in Ids, SpawnReturns(i)
  PROVE  /\ spawning' = [spawning EXCEPT ![i] = "no"] /\ pods' = [pods EXCEPT ![i] = i]
         /\ spawning[i] = "created" /\ phase' = phase /\ label' = label /\ patching' = patching
         /\ TrackedOnce'
<1> USE DEF TypeInv, TypeOK, K8sTypeOK
<1>1. /\ spawning' = [spawning EXCEPT ![i] = "no"] /\ pods' = [pods EXCEPT ![i] = i]
      /\ spawning[i] = "created" /\ phase' = phase /\ label' = label /\ patching' = patching
  BY DEF SpawnReturns
<1>2. \A j \in Ids : pods[j] # i
  BY <1>1 DEF WarmInv, TrackedOnce
<1>3. TrackedOnce'
  BY <1>1, <1>2 DEF WarmInv, TrackedOnce
<1> QED
  BY <1>1, <1>3

LEMMA WarmWarmSpawned ==
  ASSUME TypeInv, WarmInv, NEW w \in WarmIds, WarmSpawned(w)
  PROVE  WarmInv'
<1> USE DEF TypeInv, TypeOK, K8sTypeOK
<1>1. /\ spawning' = [spawning EXCEPT ![w] = "no"] /\ pods' = [pods EXCEPT ![w] = w]
      /\ UNCHANGED <<phase, label, patching, pool, socketVars, holders, row, req>>
      /\ TrackedOnce'
  BY TrackedNow, IdSets DEF WarmSpawned
<1>2. NamesInv' /\ SocketsInv'
  BY <1>1, IdSets DEF WarmInv, NamesInv, MayHave, SocketsInv, socketVars
<1>3. RequestsInv' /\ UnbornInv'
  BY <1>1, IdSets DEF WarmInv, RequestsInv, UnbornInv, InUse, socketVars
<1>4. AdoptionsInv'
  BY <1>1, IdSets DEF WarmInv, AdoptionsInv, AdoptingInv, ToldInv, NobodyElse, ReqShape, socketVars
<1>5. PoolInv'
  BY <1>1, IdSets DEF WarmInv, PoolInv, InPool, InUse, ReqShape, socketVars
<1> QED
  BY <1>1, <1>2, <1>3, <1>4, <1>5 DEF WarmInv

LEMMA WarmWarmSpawnFails ==
  ASSUME TypeInv, WarmInv, NEW w \in WarmIds, WarmSpawnFails(w)
  PROVE  WarmInv'
<1> USE DEF TypeInv, TypeOK, K8sTypeOK
<1>1. /\ spawning[w] = "called" /\ spawning' = [spawning EXCEPT ![w] = "no"]
      /\ pool' = [pool EXCEPT ![w] = "out"] /\ holders' = holders \ {w}
      /\ UNCHANGED <<pods, phase, label, patching, socketVars, row, req>>
  BY DEF WarmSpawnFails, SpawnThrows
<1>2. NamesInv' /\ SocketsInv' /\ TrackedOnce'
  BY <1>1, IdSets DEF WarmInv, NamesInv, MayHave, SocketsInv, TrackedOnce, socketVars
<1>3. RequestsInv' /\ UnbornInv'
  BY <1>1, IdSets DEF WarmInv, RequestsInv, UnbornInv, InUse, socketVars
<1>4. AdoptionsInv'
  BY <1>1, IdSets DEF WarmInv, AdoptionsInv, AdoptingInv, ToldInv, NobodyElse, ReqShape, socketVars
<1>5. \A r \in Requests : req[r].warm # w
  BY <1>1 DEF WarmInv, UnbornInv, InUse
<1>6. PoolInv'
  BY <1>1, <1>5, IdSets DEF WarmInv, PoolInv, InPool, InUse, ReqShape, socketVars
<1> QED
  BY <1>2, <1>3, <1>4, <1>6 DEF WarmInv

\* The request on a session that is being spawned is the only one on it.
LEMMA WarmSessionSpawned ==
  ASSUME TypeInv, WarmInv, NEW r \in Requests, Spawned(r)
  PROVE  WarmInv'
<1> USE DEF TypeInv, TypeOK, K8sTypeOK
<1> DEFINE s == req[r].sid
<1>1. s \in Sessions /\ s \in Ids /\ s \notin WarmIds
  BY IdSets DEF Spawned, ReqShape
<1>2. /\ spawning' = [spawning EXCEPT ![s] = "no"] /\ pods' = [pods EXCEPT ![s] = s]
      /\ spawning[s] = "created" /\ row' = [row EXCEPT ![s] = "starting"]
      /\ UNCHANGED <<phase, label, patching, pool, socketVars, holders>>
      /\ TrackedOnce'
  BY <1>1, TrackedNow DEF Spawned, poolVars
<1>3. \E step \in Waiting : req' = [req EXCEPT ![r] = [pc |-> step, sid |-> s, warm |-> None]]
  BY DEF Spawned, Goto, Waiting
<1>4. /\ \A q \in Requests : req'[q].sid = req[q].sid
      /\ \A q \in Requests : req'[q].warm # None => req'[q] = req[q]
      /\ \A q \in Requests : q # r => req'[q] = req[q]
      /\ req'[r].pc \in Waiting
  BY <1>3
<1>5. \A q \in Requests : q # r => req[q].sid # s
  BY <1>1, IdSets DEF WarmInv, RequestsInv
<1>6. \A n \in Ids : inbox[n] # s
  BY <1>1, <1>2, IdSets DEF WarmInv, AdoptionsInv, AdoptingInv, ToldInv, NobodyElse
<1>7. NamesInv' /\ SocketsInv'
  BY <1>1, <1>2 DEF WarmInv, NamesInv, MayHave, SocketsInv, socketVars
<1>8. RequestsInv'
  <2>1. ASSUME NEW o \in Sessions, spawning'[o] # "no"
        PROVE  \E q \in Requests : req'[q].pc \in {"spawning", "respawning"} /\ req'[q].sid = o
    <3>1. o # s /\ spawning[o] # "no"
      BY <1>1, <1>2, <2>1, IdSets
    <3>2. PICK q \in Requests : req[q].pc \in {"spawning", "respawning"} /\ req[q].sid = o
      BY <3>1 DEF WarmInv, RequestsInv
    <3> QED
      BY <1>4, <3>1, <3>2
  <2> QED
    BY <1>4, <2>1 DEF WarmInv, RequestsInv
<1>9. UnbornInv'
  BY <1>1, <1>2, <1>4, IdSets DEF WarmInv, UnbornInv, InUse, socketVars
<1>10. AdoptionsInv'
  <2>1. ASSUME NEW q \in Requests, req'[q].pc = "adopting"
        PROVE  q # r /\ req'[q] = req[q] /\ req[q].sid \in Sessions /\ req[q].sid \in Ids
    BY <1>4, <2>1, IdSets DEF Waiting, ReqShape
  <2>2. \A o \in Sessions, m \in Ids \cup {None} : NobodyElse(o, m) => NobodyElse(o, m)'
    BY <1>1, <1>2, IdSets DEF NobodyElse, socketVars
  <2>3. AdoptingInv'
    BY <1>2, <2>1, <2>2 DEF WarmInv, AdoptionsInv, AdoptingInv, NobodyElse, socketVars
  <2>4. ToldInv'
    <3>1. \A n \in Ids : inbox[n] # None => spawning[inbox[n]] = "no" /\ inbox[n] \in Sessions
      BY DEF WarmInv, AdoptionsInv, ToldInv, NobodyElse
    <3>2. \A q \in Requests : req[q].sid # s => req'[q] = req[q]
      BY <1>4
    <3> QED
      BY <1>1, <1>2, <1>4, <1>6, <3>1, <3>2, StillTold DEF socketVars
  <2> QED
    BY <2>3, <2>4 DEF AdoptionsInv
<1>11. PoolInv'
  BY <1>1, <1>2, <1>4, IdSets DEF WarmInv, PoolInv, InPool, InUse, ReqShape, Waiting, socketVars
<1> QED
  BY <1>2, <1>7, <1>8, <1>9, <1>10, <1>11 DEF WarmInv

LEMMA WarmSpawnFailed ==
  ASSUME TypeInv, WarmInv, NEW r \in Requests, SpawnFailed(r)
  PROVE  WarmInv'
<1> USE DEF TypeInv, TypeOK, K8sTypeOK
<1> DEFINE s == req[r].sid
<1>1. s \in Sessions /\ s \in Ids /\ s \notin WarmIds /\ req[r].warm = None
  BY IdSets DEF SpawnFailed, ReqShape
<1>2. /\ spawning' = [spawning EXCEPT ![s] = "no"] /\ spawning[s] = "called"
      /\ \A o \in Sessions \ {s} : row'[o] = row[o]
      /\ holders' = holders \ {s}
      /\ UNCHANGED <<pods, phase, label, patching, pool, socketVars>>
  BY DEF SpawnFailed, SpawnThrows, poolVars
<1>3. req' = [req EXCEPT ![r] = Free]
  BY DEF SpawnFailed, Finish
<1>4. \A q \in Requests : q # r => req[q].sid # s
  BY <1>1, IdSets DEF WarmInv, RequestsInv
<1>5. \A n \in Ids : inbox[n] # s
  BY <1>1, <1>2, IdSets DEF WarmInv, AdoptionsInv, ToldInv, NobodyElse
<1>6. NamesInv' /\ SocketsInv' /\ TrackedOnce'
  BY <1>1, <1>2 DEF WarmInv, NamesInv, MayHave, SocketsInv, TrackedOnce, socketVars
<1>7. RequestsInv'
  <2>1. ASSUME NEW o \in Sessions, spawning'[o] # "no"
        PROVE  \E q \in Requests : req'[q].pc \in {"spawning", "respawning"} /\ req'[q].sid = o
    <3>1. o # s /\ spawning[o] # "no"
      BY <1>1, <1>2, <2>1, IdSets
    <3>2. PICK q \in Requests : req[q].pc \in {"spawning", "respawning"} /\ req[q].sid = o
      BY <3>1 DEF WarmInv, RequestsInv
    <3> QED
      BY <1>3, <3>1, <3>2
  <2> QED
    BY <1>3, <2>1 DEF WarmInv, RequestsInv, Free
<1>8. UnbornInv'
  BY <1>1, <1>2, <1>3, IdSets DEF WarmInv, UnbornInv, InUse, Free, socketVars
<1>9. AdoptionsInv'
  <2>1. ASSUME NEW q \in Requests, req'[q].pc = "adopting"
        PROVE  q # r /\ req'[q] = req[q] /\ req[q].sid \in Sessions /\ req[q].sid \in Ids
    BY <1>3, <2>1, IdSets DEF Free, ReqShape
  <2>2. \A o \in Sessions, m \in Ids \cup {None} : NobodyElse(o, m) => NobodyElse(o, m)'
    BY <1>1, <1>2, IdSets DEF NobodyElse, socketVars
  <2>3. AdoptingInv'
    BY <1>2, <2>1, <2>2 DEF WarmInv, AdoptionsInv, AdoptingInv, NobodyElse, socketVars
  <2>4. ToldInv'
    BY <1>1, <1>2, <1>3, <1>4, <1>5, <2>2, IdSets DEF WarmInv, AdoptionsInv, ToldInv, NobodyElse, Free, socketVars
  <2> QED
    BY <2>3, <2>4 DEF AdoptionsInv
<1>10. PoolInv'
  BY <1>1, <1>2, <1>3, IdSets DEF WarmInv, PoolInv, InPool, InUse, ReqShape, Free, socketVars
<1> QED
  BY <1>6, <1>7, <1>8, <1>9, <1>10 DEF WarmInv
-----------------------------------------------------------------------------
(***************************************************************************)
(* What is heard of a runner, and who stops waiting for it.                *)
(***************************************************************************)
\* Whatever the bridge hears of id i, and when nothing is heard in time: only
\* what is kept of i changes, and only a request that waits for it is over.
HeardOf(i) ==
  /\ \/ pods' = pods
     \/ i \in Sessions /\ pods' = [pods EXCEPT ![i] = None]
  /\ \A n \in Ids : phase'[n] # "absent" => phase[n] # "absent"
  /\ UNCHANGED <<label, patching, spawning>> /\ InPool' = InPool
  /\ holders' \subseteq holders /\ holders \subseteq holders' \cup (Sessions \cap {i})
  /\ \A s \in Sessions : s # i => row'[s] = row[s]
  /\ \A r \in Requests : \/ req'[r] = req[r]
                         \/ req[r].sid = i /\ req[r].pc \in Waiting /\ req'[r] = Free

LEMMA GaveUp ==
  ASSUME TypeInv, NEW r \in Requests, GiveUp(r), UNCHANGED poolVars
  PROVE  HeardOf(req[r].sid)
<1> USE DEF TypeInv, TypeOK, K8sTypeOK
<1>1. req[r].sid \in Sessions /\ req[r].sid \in Ids
  BY IdSets DEF GiveUp, ReqShape
<1>2. /\ pods' = [pods EXCEPT ![req[r].sid] = None]
      /\ \A n \in Ids : phase'[n] # "absent" => phase[n] # "absent"
      /\ label' = label /\ patching' = patching
  BY <1>1, KillGives DEF GiveUp
<1> QED
  BY <1>1, <1>2 DEF GiveUp, HeardOf, InPool, Finish, poolVars

LEMMA Heard ==
  ASSUME TypeInv, NEW i \in Ids, HearsReady(i) \/ HearsError(i)
  PROVE  HeardOf(i)
<1> USE DEF TypeInv, TypeOK, K8sTypeOK
<1>1. CASE HearsReady(i)
  BY <1>1 DEF HearsReady, HeardOf, InPool, k8sVars
<1>2. CASE /\ row' = IF i \in Sessions /\ row[i] # "absent" THEN [row EXCEPT ![i] = "error"] ELSE row
           /\ UNCHANGED <<k8sVars, holders, poolVars, req>>
  BY <1>2 DEF HeardOf, InPool, k8sVars, poolVars
<1>3. CASE \E r \in Requests : req[r].sid = i /\ GiveUp(r) /\ UNCHANGED poolVars
  BY <1>3, GaveUp
<1> QED
  BY <1>1, <1>2, <1>3 DEF HearsError

\* The parts of WarmInv that do not look at the sockets.
LEMMA HeardKeeps ==
  ASSUME TypeInv, WarmInv, NEW i \in Ids, HeardOf(i)
  PROVE  /\ \A j \in Ids : pods'[j] \in {None, pods[j]}
         /\ \A w \in WarmIds : pods'[w] = pods[w] /\ (InUse(w)' <=> InUse(w))
         /\ TrackedOnce' /\ RequestsInv'
         /\ \A r \in Requests : req'[r].pc \in {"adopting", "querying", "unheard"} => req'[r] = req[r]
<1> USE DEF TypeInv, TypeOK, K8sTypeOK
<1>1. /\ \A j \in Ids : pods'[j] \in {None, pods[j]}
      /\ \A w \in WarmIds : pods'[w] = pods[w]
  BY IdSets DEF HeardOf
<1>2. TrackedOnce'
  BY <1>1, IdSets DEF HeardOf, WarmInv, TrackedOnce
<1>3. \A r \in Requests : req'[r].warm = req[r].warm
  BY DEF HeardOf, ReqShape, Free
<1>4. RequestsInv'
  <2>1. \A r \in Requests : req'[r].sid \in {None, req[r].sid}
    BY DEF HeardOf, Free
  <2>2. \A r \in Requests : req[r].pc \in {"spawning", "respawning"} => req'[r] = req[r]
    BY DEF HeardOf, Waiting
  <2> QED
    BY <1>3, <2>1, <2>2 DEF HeardOf, WarmInv, RequestsInv
<1>5. \A r \in Requests : req'[r].pc \in {"adopting", "querying", "unheard"} => req'[r] = req[r]
  BY DEF HeardOf, Free
<1> QED
  BY <1>1, <1>2, <1>3, <1>4, <1>5 DEF InUse

LEMMA WarmReadyTimesOut ==
  ASSUME TypeInv, WarmInv, NEW r \in Requests, ReadyTimesOut(r)
  PROVE  WarmInv'
<1> USE DEF TypeInv, TypeOK, K8sTypeOK
<1> DEFINE s == req[r].sid
<1>1. s \in Sessions /\ s \in Ids /\ s \notin WarmIds
  BY IdSets DEF ReadyTimesOut, GiveUp, ReqShape
<1>2. HeardOf(s) /\ UNCHANGED socketVars
  BY GaveUp DEF ReadyTimesOut
<1>3. /\ \A j \in Ids : pods'[j] \in {None, pods[j]}
      /\ \A w \in WarmIds : pods'[w] = pods[w] /\ (InUse(w)' <=> InUse(w))
      /\ TrackedOnce' /\ RequestsInv'
      /\ \A q \in Requests : req'[q].pc \in {"adopting", "querying", "unheard"} => req'[q] = req[q]
  BY <1>1, <1>2, HeardKeeps
<1>4. NamesInv' /\ SocketsInv'
  BY <1>2, <1>3 DEF HeardOf, WarmInv, NamesInv, MayHave, SocketsInv, socketVars
<1>5. UnbornInv'
  BY <1>2, <1>3, IdSets DEF HeardOf, WarmInv, UnbornInv, socketVars
<1>6. AdoptingInv'
  BY <1>2, <1>3 DEF HeardOf, WarmInv, AdoptionsInv, AdoptingInv, NobodyElse, ReqShape, socketVars
<1>7. ToldInv'
  <2>1. req' = [req EXCEPT ![r] = Free] /\ row' = [row EXCEPT ![s] = IF req[r].pc = "rewaiting" THEN "error" ELSE "absent"]
    BY DEF ReadyTimesOut, GiveUp, Finish
  <2>2. \A q \in Requests : q # r => req[q].sid # s
    BY <1>1, IdSets DEF WarmInv, RequestsInv
  <2>3. ASSUME NEW n \in Ids, inbox[n] = s PROVE req[r].pc = "waiting"
    BY <1>1, <2>3, IdSets DEF WarmInv, AdoptionsInv, ToldInv
  <2> QED
    BY <1>1, <1>2, <2>1, <2>2, <2>3, IdSets DEF HeardOf, WarmInv, AdoptionsInv, ToldInv, NobodyElse, Free, socketVars
<1>8. PoolInv'
  BY <1>2, <1>3, IdSets DEF HeardOf, WarmInv, PoolInv, InPool, ReqShape, socketVars
<1> QED
  BY <1>3, <1>4, <1>5, <1>6, <1>7, <1>8 DEF WarmInv, AdoptionsInv

\* A runner connects under the id it speaks for, which nobody is adopted for.
LEMMA WarmConnects ==
  ASSUME TypeInv, WarmInv, NEW n \in Ids, RunnerConnects(n)
  PROVE  WarmInv'
<1> USE DEF TypeInv, TypeOK, K8sTypeOK
<1> DEFINE i == serves[n]
<1>1. /\ i \in Ids /\ phase[n] # "absent" /\ sock[n] = None
      /\ sock' = [sock EXCEPT ![n] = i] /\ connections' = [connections EXCEPT ![i] = n]
      /\ UNCHANGED <<serves, inbox>>
  BY DEF RunnerConnects, Alive
<1>2. HeardOf(i)
  BY <1>1, Heard DEF RunnerConnects
<1>3. /\ \A j \in Ids : pods'[j] \in {None, pods[j]}
      /\ \A w \in WarmIds : pods'[w] = pods[w] /\ (InUse(w)' <=> InUse(w))
      /\ TrackedOnce' /\ RequestsInv'
      /\ \A q \in Requests : req'[q].pc \in {"adopting", "querying", "unheard"} => req'[q] = req[q]
  BY <1>1, <1>2, HeardKeeps
<1>4. NamesInv'
  BY <1>1, <1>2, <1>3 DEF HeardOf, WarmInv, NamesInv, MayHave
<1>5. SocketsInv'
  BY <1>1, IdSets DEF WarmInv, SocketsInv
<1>6. UnbornInv'
  BY <1>1, <1>2, <1>3, IdSets DEF HeardOf, WarmInv, UnbornInv
<1>7. \A m \in Ids : inbox[m] # i
  <2> SUFFICES ASSUME NEW m \in Ids, inbox[m] = i PROVE FALSE
    OBVIOUS
  <2>1. m = n /\ connections[i] = m
    BY <1>1, IdSets DEF WarmInv, AdoptionsInv, ToldInv, NobodyElse
  <2> QED
    BY <1>1, <2>1, IdSets DEF WarmInv, SocketsInv
<1>8. AdoptingInv'
  BY <1>1, <1>2, <1>3, IdSets DEF HeardOf, WarmInv, AdoptionsInv, AdoptingInv, NobodyElse, ReqShape
<1>9. ToldInv'
  <2>1. \A m \in Ids : inbox[m] # None => inbox[m] \in Sessions /\ inbox[m] \in Ids /\ spawning[inbox[m]] = "no"
    BY IdSets DEF WarmInv, AdoptionsInv, ToldInv, NobodyElse
  <2>2. \A q \in Requests : req'[q] = req[q] \/ (req[q].sid = i /\ req'[q] = Free)
    BY <1>2 DEF HeardOf
  <2> QED
    BY <1>1, <1>2, <1>7, <2>1, <2>2, StillTold DEF HeardOf, Free
<1>10. PoolInv'
  <2>1. \A w \in InPool, s \in Sessions : connections'[s] # w
    BY <1>1, IdSets DEF WarmInv, PoolInv, InPool
  <2> QED
    BY <1>1, <1>2, <1>3, <2>1, IdSets DEF HeardOf, WarmInv, PoolInv, InPool, ReqShape
<1> QED
  BY <1>3, <1>4, <1>5, <1>6, <1>8, <1>9, <1>10 DEF WarmInv, AdoptionsInv

\* An adopt command belongs to the session its runner is connected for, and no
\* runner of the pool gets one.
LEMMA OneToldEach ==
  ASSUME TypeInv, WarmInv, NEW n \in Ids, inbox[n] # None
  PROVE  /\ inbox[n] \in Sessions /\ inbox[n] \in Ids /\ sock[n] = inbox[n]
         /\ \A m \in Ids : inbox[m] = inbox[n] => m = n
         /\ \A r \in Requests : req[r].pc = "adopting" => req[r].sid # inbox[n]
         /\ n \in WarmIds /\ n \notin InPool
<1> USE DEF TypeInv, TypeOK, K8sTypeOK
<1>1. inbox[n] \in Sessions /\ inbox[n] \in Ids /\ n \in WarmIds
  BY IdSets DEF WarmInv, NamesInv
<1>2. connections[inbox[n]] = n /\ \A m \in Ids : inbox[m] = inbox[n] => connections[inbox[n]] = m
  BY <1>1 DEF WarmInv, AdoptionsInv, ToldInv
<1>3. sock[n] = inbox[n]
  BY <1>1, <1>2, IdSets DEF WarmInv, SocketsInv
<1>4. n \notin InPool
  BY <1>1, <1>2 DEF WarmInv, PoolInv
<1>5. \A r \in Requests : req[r].pc = "adopting" => req[r].sid # inbox[n]
  BY <1>2, IdSets DEF WarmInv, AdoptionsInv, AdoptingInv
<1> QED
  BY <1>1, <1>2, <1>3, <1>4, <1>5

\* From then on the runner speaks for the session.
LEMMA WarmAdopts ==
  ASSUME TypeInv, WarmInv, NEW n \in Ids, RunnerAdopts(n)
  PROVE  WarmInv'
<1> USE DEF TypeInv, TypeOK, K8sTypeOK
<1> DEFINE i == inbox[n]
<1>1. /\ i # None
      /\ serves' = [serves EXCEPT ![n] = i] /\ inbox' = [inbox EXCEPT ![n] = None]
      /\ UNCHANGED <<sock, connections>>
  BY DEF RunnerAdopts
<1>2. /\ i \in Sessions /\ i \in Ids /\ \A m \in Ids : inbox[m] = i => m = n
      /\ \A r \in Requests : req[r].pc = "adopting" => req[r].sid # i
      /\ n \in WarmIds /\ n \notin InPool
  BY <1>1, OneToldEach
<1>3. HeardOf(i)
  BY <1>2, Heard DEF RunnerAdopts
<1>4. /\ \A j \in Ids : pods'[j] \in {None, pods[j]}
      /\ \A w \in WarmIds : pods'[w] = pods[w] /\ (InUse(w)' <=> InUse(w))
      /\ TrackedOnce' /\ RequestsInv'
      /\ \A q \in Requests : req'[q].pc \in {"adopting", "querying", "unheard"} => req'[q] = req[q]
  BY <1>2, <1>3, HeardKeeps
<1>5. NamesInv' /\ SocketsInv'
  BY <1>1, <1>2, <1>3, <1>4 DEF HeardOf, WarmInv, NamesInv, MayHave, SocketsInv
<1>6. UnbornInv'
  BY <1>1, <1>3, <1>4, IdSets DEF HeardOf, WarmInv, UnbornInv
<1>7. \A o \in Sessions, m \in Ids \cup {None} : o # i /\ NobodyElse(o, m) => NobodyElse(o, m)'
  BY <1>1, <1>3 DEF HeardOf, NobodyElse
<1>8. AdoptingInv'
  BY <1>1, <1>2, <1>3, <1>4, <1>7 DEF HeardOf, WarmInv, AdoptionsInv, AdoptingInv, NobodyElse, ReqShape
<1>9. ToldInv'
  <2>1. \A q \in Requests : req'[q] = req[q] \/ (req[q].sid = i /\ req'[q] = Free)
    BY <1>3 DEF HeardOf
  <2>2. \A m \in Ids : inbox[m] # None => inbox[m] \in Sessions /\ inbox[m] \in Ids /\ spawning[inbox[m]] = "no"
    BY IdSets DEF WarmInv, AdoptionsInv, ToldInv, NobodyElse
  <2> QED
    BY <1>1, <1>2, <1>3, <2>1, <2>2, StillTold DEF HeardOf, Free
<1>10. PoolInv'
  BY <1>1, <1>2, <1>3, <1>4, IdSets DEF HeardOf, WarmInv, PoolInv, InPool, ReqShape
<1> QED
  BY <1>4, <1>5, <1>6, <1>8, <1>9, <1>10 DEF WarmInv, AdoptionsInv

\* A socket that closes takes its connection, unless a newer one has its place,
\* and the adopt command with it.
LEMMA WarmCloses ==
  ASSUME TypeInv, WarmInv, NEW n \in Ids, SocketCloses(n)
  PROVE  WarmInv'
<1> USE DEF TypeInv, TypeOK, K8sTypeOK
<1> DEFINE i == sock[n]
           current == connections[i] = n
<1>1. /\ i \in Ids
      /\ sock' = [sock EXCEPT ![n] = None]
      /\ connections' = IF current THEN [connections EXCEPT ![i] = None] ELSE connections
      /\ \A s \in Sessions : (s = i => ~current) => row'[s] = row[s]
      /\ inbox' = [inbox EXCEPT ![n] = None]
      /\ UNCHANGED <<pods, phase, label, patching, spawning, pool, holders>>
  BY DEF SocketCloses, k8sVars, poolVars
<1>2. serves' = serves \/ (inbox[n] # None /\ serves' = [serves EXCEPT ![n] = inbox[n]])
  BY DEF SocketCloses
<1>3. \A r \in Requests : /\ req'[r].sid = req[r].sid /\ req'[r].warm = req[r].warm
                          /\ req'[r].pc # req[r].pc => req[r].pc = "querying" /\ req'[r].pc = "unheard"
  BY DEF SocketCloses
<1>4. \A j \in Ids : connections[j] = n => j = i /\ current
  BY IdSets DEF WarmInv, SocketsInv
<1>5. NamesInv' /\ SocketsInv' /\ TrackedOnce'
  <2>1. \A m \in Ids : MayHave(serves'[m], m)
    BY <1>1, <1>2 DEF WarmInv, NamesInv, MayHave
  <2>2. SocketsInv'
    BY <1>1, <1>4, IdSets DEF WarmInv, SocketsInv
  <2> QED
    BY <1>1, <2>1, <2>2 DEF WarmInv, NamesInv, MayHave, TrackedOnce
<1>6. RequestsInv'
  <2>1. \A r \in Requests : req[r].pc \in {"spawning", "respawning"} => req'[r].pc = req[r].pc
    BY <1>3
  <2> QED
    BY <1>1, <1>3, <2>1 DEF WarmInv, RequestsInv
<1>7. UnbornInv'
  BY <1>1, <1>3, IdSets DEF WarmInv, UnbornInv, InUse
<1>8. ASSUME NEW r \in Requests, req'[r].pc = "adopting"
      PROVE  /\ req[r].pc = "adopting" /\ req[r].sid \in Sessions
             /\ \A k \in Ids : phase[k] # "absent" => serves'[k] # req[r].sid
  <2>1. req[r].pc = "adopting" /\ req[r].sid \in Sessions
    BY <1>3, <1>8 DEF ReqShape
  <2>2. \A k \in Ids : phase[k] # "absent" => serves[k] # req[r].sid
    BY <2>1, IdSets DEF WarmInv, AdoptionsInv, AdoptingInv, NobodyElse
  <2>3. inbox[n] # None => inbox[n] # req[r].sid
    BY <2>1, OneToldEach
  <2> QED
    BY <1>2, <2>1, <2>2, <2>3
<1>9. AdoptingInv'
  BY <1>1, <1>3, <1>8, IdSets DEF WarmInv, AdoptionsInv, AdoptingInv, NobodyElse
<1>10. ToldInv'
  <2>1. \A m \in Ids : inbox[m] # None => /\ inbox[m] \in Sessions /\ inbox[m] \in Ids
                                         /\ spawning[inbox[m]] = "no" /\ connections[inbox[m]] = m
    BY IdSets DEF WarmInv, AdoptionsInv, ToldInv, NobodyElse
  <2>2. \A m \in Ids \ {n} : inbox[m] # None => inbox[m] # inbox[n]
    BY OneToldEach
  <2>3. \A m \in Ids \ {n} : inbox[m] # None => \A r \in Requests : req[r].sid = inbox[m] => req[r].pc = "waiting"
    BY DEF WarmInv, AdoptionsInv, ToldInv
  <2> QED
    BY <1>1, <1>2, <1>3, <2>1, <2>2, <2>3, StillTold
<1>11. PoolInv'
  <2>1. \A w \in InPool : serves'[w] = serves[w]
    BY <1>2, OneToldEach, IdSets DEF InPool
  <2>2. \A j \in Ids : connections'[j] \in {None, connections[j]}
    BY <1>1
  <2> QED
    BY <1>1, <1>3, <2>1, <2>2, IdSets DEF WarmInv, PoolInv, InPool, InUse
<1> QED
  BY <1>5, <1>6, <1>7, <1>9, <1>10, <1>11 DEF WarmInv, AdoptionsInv
-----------------------------------------------------------------------------
(***************************************************************************)
(* Stops, resumes and the ends of queries.                                 *)
(***************************************************************************)
\* Nobody is adopted for a session no request is on, but by a request that gave up.
LEMMA QuietNotTold ==
  ASSUME TypeInv, WarmInv, NEW s \in Sessions, Quiet(s), row[s] # "absent"
  PROVE  /\ \A n \in Ids : inbox[n] # s
         /\ \A r \in Requests : req[r].pc = "adopting" => req[r].sid # s
         /\ spawning[s] = "no"
BY IdSets DEF WarmInv, AdoptionsInv, ToldInv, RequestsInv, Quiet

LEMMA WarmStop ==
  ASSUME TypeInv, WarmInv, NEW s \in Sessions, Stop(s)
  PROVE  WarmInv'
<1> USE DEF TypeInv, TypeOK, K8sTypeOK
<1>1. s \in Ids /\ s \notin WarmIds
  BY IdSets
<1>2. /\ pods' = [pods EXCEPT ![s] = None]
      /\ \A n \in Ids : phase'[n] # "absent" => phase[n] # "absent"
      /\ row' = [row EXCEPT ![s] = "stopped"] /\ holders' = holders \ {s}
      /\ UNCHANGED <<label, patching, spawning, pool, socketVars, req>>
  BY <1>1, KillGives DEF Stop, poolVars
<1>3. /\ \A n \in Ids : inbox[n] # s
      /\ \A r \in Requests : req[r].pc = "adopting" => req[r].sid # s
  BY QuietNotTold DEF Stop, Active
<1>4. NamesInv' /\ SocketsInv' /\ TrackedOnce'
  BY <1>1, <1>2, IdSets DEF WarmInv, NamesInv, MayHave, SocketsInv, TrackedOnce, socketVars
<1>5. RequestsInv' /\ UnbornInv'
  BY <1>2, IdSets DEF WarmInv, RequestsInv, UnbornInv, InUse, socketVars
<1>6. AdoptingInv'
  BY <1>1, <1>2 DEF WarmInv, AdoptionsInv, AdoptingInv, NobodyElse, ReqShape, socketVars
<1>7. ToldInv'
  <2>1. \A m \in Ids : inbox[m] # None => inbox[m] \in Sessions /\ spawning[inbox[m]] = "no"
    BY DEF WarmInv, AdoptionsInv, ToldInv, NobodyElse
  <2> QED
    BY <1>2, <1>3, <2>1, StillTold DEF socketVars
<1>8. PoolInv'
  BY <1>1, <1>2, IdSets DEF WarmInv, PoolInv, InPool, InUse, ReqShape, socketVars
<1> QED
  BY <1>4, <1>5, <1>6, <1>7, <1>8 DEF WarmInv, AdoptionsInv

LEMMA WarmResume ==
  ASSUME TypeInv, WarmInv, NEW r \in Requests, NEW s \in Sessions, ResumeBegin(r, s)
  PROVE  WarmInv'
<1> USE DEF TypeInv, TypeOK, K8sTypeOK
<1>1. s \in Ids /\ s \notin WarmIds /\ s # None
  BY IdSets
<1>2. /\ pods' = [pods EXCEPT ![s] = None]
      /\ \A n \in Ids : phase'[n] # "absent" => phase[n] # "absent"
      /\ holders' = holders \cup {s} /\ spawning' = [spawning EXCEPT ![s] = "called"]
      /\ UNCHANGED <<label, patching, pool, socketVars, row>>
  BY <1>1, KillGives DEF ResumeBegin, poolVars
<1>3. /\ \A n \in Ids : inbox[n] # s
      /\ \A q \in Requests : req[q].pc = "adopting" => req[q].sid # s
      /\ \A q \in Requests : req[q].sid # s
  BY QuietNotTold DEF ResumeBegin, Quiet
<1>4. /\ req[r] = Free
      /\ req' = [req EXCEPT ![r] = [pc |-> "respawning", sid |-> s, warm |-> None]]
  BY DEF ResumeBegin, Goto
<1>5. NamesInv' /\ SocketsInv'
  BY <1>1, <1>2, IdSets DEF WarmInv, NamesInv, MayHave, SocketsInv, socketVars
<1>6. TrackedOnce'
  <2>1. \A j \in Ids : j # s => pods[j] # s
    BY <1>1 DEF WarmInv, NamesInv, MayHave
  <2> QED
    BY <1>1, <1>2, <2>1, IdSets DEF WarmInv, TrackedOnce
<1>7. RequestsInv'
  <2>1. ASSUME NEW o \in Sessions, spawning'[o] # "no"
        PROVE  \E q \in Requests : req'[q].pc \in {"spawning", "respawning"} /\ req'[q].sid = o
    <3>1. CASE o = s
      BY <1>4, <3>1
    <3>2. CASE o # s
      BY <1>2, <1>4, <2>1, <3>2, IdSets DEF WarmInv, RequestsInv, Free
    <3> QED
      BY <3>1, <3>2
  <2> QED
    BY <1>3, <1>4, <2>1 DEF WarmInv, RequestsInv, Free
<1>8. UnbornInv'
  BY <1>1, <1>2, <1>4, IdSets DEF WarmInv, UnbornInv, InUse, Free, socketVars
<1>9. AdoptingInv'
  BY <1>1, <1>2, <1>3, <1>4, IdSets DEF WarmInv, AdoptionsInv, AdoptingInv, NobodyElse, ReqShape, socketVars
<1>10. ToldInv'
  <2>1. \A m \in Ids : inbox[m] # None => inbox[m] \in Sessions /\ inbox[m] \in Ids /\ spawning[inbox[m]] = "no"
    BY IdSets DEF WarmInv, AdoptionsInv, ToldInv, NobodyElse
  <2> QED
    BY <1>1, <1>2, <1>3, <1>4, <2>1, StillTold, IdSets DEF Free, socketVars
<1>11. PoolInv'
  BY <1>1, <1>2, <1>4, IdSets DEF WarmInv, PoolInv, InPool, InUse, ReqShape, Free, socketVars
<1> QED
  BY <1>5, <1>6, <1>7, <1>8, <1>9, <1>10, <1>11 DEF WarmInv, AdoptionsInv

\* A query is over, answered and cleaned up after or not.
LEMMA WarmQueryEnds ==
  ASSUME TypeInv, WarmInv, NEW r \in Requests, QueryAnswered(r) \/ QueryTimesOut(r)
  PROVE  WarmInv'
<1> USE DEF TypeInv, TypeOK, K8sTypeOK
<1> DEFINE w == req[r].warm
<1>1. w \in WarmIds /\ w \in Ids /\ req[r].sid = None
  BY IdSets DEF QueryAnswered, QueryTimesOut, ReqShape
<1>2. /\ pods' \in {pods, [pods EXCEPT ![w] = None]}
      /\ \A n \in Ids : phase'[n] # "absent" => phase[n] # "absent"
      /\ holders' \subseteq holders
      /\ UNCHANGED <<label, patching, spawning, pool, socketVars, row>>
  <2>1. CASE QueryAnswered(r)
    BY <1>1, <2>1, KillGives DEF QueryAnswered, poolVars
  <2>2. CASE QueryTimesOut(r)
    BY <2>2 DEF QueryTimesOut, k8sVars, poolVars
  <2> QED
    BY <2>1, <2>2
<1>3. req' = [req EXCEPT ![r] = Free]
  BY DEF QueryAnswered, QueryTimesOut, Finish
<1>4. \A q \in Requests : q # r => req[q].warm # w
  BY <1>1, IdSets DEF WarmInv, RequestsInv
<1>5. w \notin InPool
  BY DEF WarmInv, PoolInv, InUse
<1>6. \A j \in Ids : pods'[j] \in {None, pods[j]}
  BY <1>1, <1>2
<1>7. NamesInv' /\ SocketsInv' /\ TrackedOnce'
  BY <1>2, <1>6, IdSets DEF WarmInv, NamesInv, MayHave, SocketsInv, TrackedOnce, socketVars
<1>8. RequestsInv'
  <2>1. \A q \in Requests : req'[q].pc \in {"spawning", "respawning"} \/ req[q].pc \in {"spawning", "respawning"} => req'[q] = req[q]
    BY <1>3 DEF Free, QueryAnswered, QueryTimesOut
  <2> QED
    BY <1>2, <1>3, <2>1 DEF WarmInv, RequestsInv, Free
<1>9. UnbornInv'
  BY <1>1, <1>2, <1>3, IdSets DEF WarmInv, UnbornInv, InUse, Free, socketVars
<1>10. AdoptingInv'
  BY <1>2, <1>3 DEF WarmInv, AdoptionsInv, AdoptingInv, NobodyElse, ReqShape, Free, socketVars
<1>11. ToldInv'
  <2>1. \A m \in Ids : inbox[m] # None => inbox[m] \in Sessions /\ spawning[inbox[m]] = "no"
    BY DEF WarmInv, AdoptionsInv, ToldInv, NobodyElse
  <2> QED
    BY <1>1, <1>2, <1>3, <2>1, StillTold, IdSets DEF Free, socketVars
<1>12. PoolInv'
  <2>1. \A v \in WarmIds : v # w => pods'[v] = pods[v]
    BY <1>1, <1>2, IdSets
  <2> QED
    BY <1>1, <1>2, <1>3, <1>4, <1>5, <1>6, <2>1, IdSets DEF WarmInv, PoolInv, InPool, InUse, ReqShape, Free, socketVars
<1> QED
  BY <1>7, <1>8, <1>9, <1>10, <1>11, <1>12 DEF WarmInv, AdoptionsInv
-----------------------------------------------------------------------------
(***************************************************************************)
(* Taking a runner from the pool.                                          *)
(***************************************************************************)
\* The runner to be adopted is still, if at all, connected and tracked under its
\* warm id: from there it goes to the session, and nothing else does.
LEMMA WarmAdoptEnds ==
  ASSUME TypeInv, WarmInv, NEW r \in Requests, AdoptEnds(r)
  PROVE  WarmInv'
<1> USE DEF TypeInv, TypeOK, K8sTypeOK
<1> DEFINE s == req[r].sid
           w == req[r].warm
<1>1. s \in Sessions /\ s \in Ids /\ s \notin WarmIds /\ w \in WarmIds /\ w \in Ids /\ s # None /\ w # None
  BY IdSets DEF AdoptEnds, ReqShape
<1>2. connections[w] \in {None, w} /\ pods[w] \in {None, w}
  BY <1>1, IdSets DEF WarmInv, NamesInv, MayHave
<1>3. /\ \/ UNCHANGED <<inbox, sock, connections>>
         \/ /\ inbox' = [inbox EXCEPT ![w] = s] /\ sock' = [sock EXCEPT ![w] = s]
            /\ connections' = [connections EXCEPT ![w] = None, ![s] = w] /\ connections[w] = w
      /\ \/ UNCHANGED <<pods, patching>>
         \/ /\ pods' = [pods EXCEPT ![w] = None, ![s] = w] /\ pods[w] = w
            /\ patching' = [patching EXCEPT ![w] = s]
      /\ row' = [row EXCEPT ![s] = "starting"]
      /\ req' = [req EXCEPT ![r] = [pc |-> "waiting", sid |-> s, warm |-> None]]
      /\ UNCHANGED <<phase, label, spawning, pool, serves, holders>>
  BY <1>1, <1>2 DEF AdoptEnds, HandOver, Rekey, Goto, poolVars
<1>4. /\ connections[s] = None /\ \A n \in Ids : inbox[n] # s
      /\ \A n \in Ids : phase[n] # "absent" => serves[n] # s
      /\ spawning[s] = "no"
  <2>1. \A n \in Ids : inbox[n] # s
    BY <1>1, OneToldEach DEF AdoptEnds
  <2> QED
    BY <1>1, <2>1, IdSets DEF AdoptEnds, WarmInv, AdoptionsInv, AdoptingInv, NobodyElse
<1>5. \A q \in Requests : q # r => req[q].sid # s /\ req[q].warm # w
  BY <1>1 DEF WarmInv, RequestsInv
<1>6. /\ \/ pods' = pods
         \/ /\ pods[w] = w /\ pods'[w] = None /\ pods'[s] = w
            /\ \A j \in Ids \ {s, w} : pods'[j] = pods[j]
      /\ \/ connections' = connections
         \/ /\ connections[w] = w /\ connections'[w] = None /\ connections'[s] = w
            /\ \A j \in Ids \ {s, w} : connections'[j] = connections[j]
  BY <1>1, <1>3
<1>7. connections[w] = w => /\ sock[w] = w /\ \A j \in Ids : connections[j] = w => j = w
  BY <1>1, IdSets DEF WarmInv, SocketsInv
<1>8. NamesInv'
  BY SMTT(30), <1>1, <1>3 DEF WarmInv, NamesInv, MayHave
<1>9. SocketsInv'
  <2>1. CASE UNCHANGED <<sock, connections>>
    BY <2>1 DEF WarmInv, SocketsInv
  <2>2. CASE /\ sock' = [sock EXCEPT ![w] = s] /\ connections[w] = w
             /\ connections' = [connections EXCEPT ![w] = None, ![s] = w]
    <3> HIDE DEF s, w
    <3> SUFFICES ASSUME NEW i \in Ids, connections'[i] # None PROVE sock'[connections'[i]] = i
      BY DEF SocketsInv
    <3>1. connections'[w] = None /\ connections'[s] = w /\ sock'[w] = s
      BY <1>1, <2>2
    <3>2. CASE i = s
      BY <3>1, <3>2
    <3>3. CASE i # s
      <4>1. i # w /\ connections'[i] = connections[i] /\ connections[i] \in Ids
        BY <1>1, <2>2, <3>1, <3>3
      <4>2. connections[i] # w /\ sock[connections[i]] = i
        BY <1>7, <2>2, <4>1, IdSets DEF WarmInv, SocketsInv
      <4>3. sock'[connections[i]] = sock[connections[i]]
        BY <1>1, <2>2, <4>1, <4>2
      <4> QED
        BY <4>1, <4>2, <4>3
    <3> QED
      BY <3>2, <3>3
  <2> QED
    BY <1>3, <2>1, <2>2
<1>10. TrackedOnce'
  <2>1. pods[w] = w => spawning[w] = "no" /\ \A j \in Ids : pods[j] = w => j = w
    BY <1>1 DEF WarmInv, TrackedOnce
  <2>2. CASE pods' = pods
    BY <1>3, <2>2 DEF WarmInv, TrackedOnce
  <2>3. CASE /\ pods[w] = w /\ pods'[w] = None /\ pods'[s] = w
             /\ \A j \in Ids \ {s, w} : pods'[j] = pods[j]
    <3>1. \A j \in Ids \ {s} : pods'[j] # w
      BY <1>1, <2>1, <2>3
    <3>2. ASSUME NEW i \in Ids, NEW j \in Ids, pods'[i] # None, pods'[i] = pods'[j] PROVE i = j
      <4>1. CASE i \in {s, w} \/ j \in {s, w}
        BY <2>3, <3>1, <3>2, <4>1
      <4>2. CASE i \notin {s, w} /\ j \notin {s, w}
        BY <2>3, <3>2, <4>2 DEF WarmInv, TrackedOnce
      <4> QED
        BY <4>1, <4>2
    <3>3. ASSUME NEW i \in Ids, NEW n \in Ids, spawning[n] # "no" PROVE pods'[i] # n
      BY <2>1, <2>3, <3>3, IdSets DEF WarmInv, TrackedOnce
    <3> QED
      BY <1>3, <3>2, <3>3 DEF TrackedOnce
  <2> QED
    BY <1>6, <2>2, <2>3
<1>11. RequestsInv'
  <2>1. \A q \in Requests : req[q].pc \in {"spawning", "respawning"} => req'[q] = req[q]
    BY <1>3 DEF AdoptEnds
  <2> QED
    BY <1>3, <2>1 DEF WarmInv, RequestsInv
<1>12. UnbornInv'
  <2>1. spawning[w] # "called"
    BY <1>1 DEF WarmInv, UnbornInv, InUse
  <2> QED
    BY <1>1, <1>3, <2>1, IdSets DEF WarmInv, UnbornInv, InUse
<1>13. AdoptingInv'
  <2>1. \A q \in Requests : req'[q].pc = "adopting" => req'[q] = req[q] /\ req[q].sid # s /\ req[q].sid \in Sessions
    BY <1>3, <1>5 DEF ReqShape
  <2>2. \A o \in Sessions : o # s /\ connections[o] = None => connections'[o] = None
    BY <1>1, <1>3, IdSets
  <2> QED
    BY <1>3, <2>1, <2>2 DEF WarmInv, AdoptionsInv, AdoptingInv, NobodyElse
<1>14. ToldInv'
  <2>1. \A m \in Ids : inbox[m] # None => /\ inbox[m] \in Sessions /\ inbox[m] \in Ids /\ inbox[m] # w
                                         /\ spawning[inbox[m]] = "no" /\ connections[inbox[m]] = m
    BY <1>1, IdSets DEF WarmInv, AdoptionsInv, ToldInv, NobodyElse
  <2>2. CASE UNCHANGED <<inbox, sock, connections>>
    BY <1>1, <1>3, <1>4, <1>5, <2>1, <2>2, StillTold
  <2>3. CASE /\ inbox' = [inbox EXCEPT ![w] = s] /\ sock' = [sock EXCEPT ![w] = s]
             /\ connections' = [connections EXCEPT ![w] = None, ![s] = w] /\ connections[w] = w
    <3>1. \A m \in Ids \ {w} : inbox'[m] = inbox[m] /\ inbox[m] # s
      BY <1>4, <2>3
    <3>2. ASSUME NEW m \in Ids \ {w}, inbox[m] # None
          PROVE  /\ connections'[inbox[m]] = m /\ row'[inbox[m]] = row[inbox[m]]
                 /\ \A q \in Requests : req'[q].sid = inbox[m] <=> req[q].sid = inbox[m]
                 /\ \A q \in Requests : req[q].sid = inbox[m] => req'[q].pc = req[q].pc
      BY <1>1, <1>3, <2>1, <2>3, <3>1, <3>2
    <3>3. /\ inbox'[w] = s /\ connections'[s] = w /\ row'[s] = "starting" /\ req'[r].sid = s
          /\ \A q \in Requests : req'[q].sid = s => req'[q].pc = "waiting"
      BY <1>1, <1>3, <1>5, <2>3
    <3> QED
      BY <1>3, <1>4, <3>1, <3>2, <3>3 DEF WarmInv, AdoptionsInv, ToldInv, NobodyElse
  <2> QED
    BY <1>3, <2>2, <2>3
<1>15. PoolInv'
  <2>1. w \notin InPool
    BY DEF WarmInv, PoolInv, InUse
  <2>2. \A v \in WarmIds : v # w => pods'[v] = pods[v]
    BY <1>1, <1>3, IdSets
  <2>3. /\ \A v \in InPool, o \in Sessions : v \notin {pods'[o], connections'[o]}
        /\ \A v \in InPool : InUse(v)' => InUse(v)
    BY <1>1, <1>3, <1>6, <2>1, IdSets DEF WarmInv, PoolInv, InPool, InUse
  <2>4. \A q \in Requests : req'[q].pc \in {"querying", "unheard"} => req'[q] = req[q] /\ req[q].warm # w
    BY <1>3, <1>5
  <2> QED
    BY <1>3, <2>1, <2>2, <2>3, <2>4 DEF WarmInv, PoolInv, InPool, ReqShape
<1> QED
  BY <1>8, <1>9, <1>10, <1>11, <1>12, <1>13, <1>14, <1>15 DEF WarmInv, AdoptionsInv

\* What findReady() returns is in the pool, connected, and thus not being spawned.
LEMMA ReadyOnes ==
  ASSUME TypeInv, WarmInv, NEW p, NEW w \in FindReady(p)
  PROVE  /\ w \in WarmIds /\ w \in InPool /\ ~InUse(w) /\ spawning[w] # "called"
         /\ pods[w] # None \/ spawning[w] # "no"
<1>1. w \in WarmIds /\ w \in InPool /\ connections[w] # None
  BY DEF FindReady, OfProfile, InPool, IsConnected
<1>2. connections[w] = w /\ sock[w] = w
  BY <1>1, IdSets DEF WarmInv, NamesInv, MayHave, SocketsInv
<1>3. spawning[w] # "called"
  BY <1>1, <1>2, IdSets DEF WarmInv, UnbornInv
<1> QED
  BY <1>1, <1>3 DEF WarmInv, PoolInv

\* A request takes the runner w out of the pool, which is refilled with new ones.
TakesFrom(r, s, w, step) ==
  /\ req[r] = Free /\ req' = [req EXCEPT ![r] = [pc |-> step, sid |-> s, warm |-> w]]
  /\ UNCHANGED <<pods, phase, label, patching, socketVars, row>>
  /\ \E new \in SUBSET Unused :
       /\ pool' = PoolOf(InPool \ {w}, new)
       /\ spawning' = [i \in Ids |-> IF i \in new THEN "called" ELSE spawning[i]]
       /\ holders' \subseteq (holders \ IF step = "adopting" THEN {w} ELSE {}) \cup new \cup Sessions

LEMMA WarmTakes ==
  ASSUME TypeInv, WarmInv, NEW r \in Requests, NEW s \in Sessions \cup {None}, NEW p, NEW w \in FindReady(p),
         NEW step, TakesFrom(r, s, w, step),
         \/ step = "querying" /\ s = None
         \/ step = "adopting" /\ s \in Sessions /\ Fresh(s)
  PROVE  WarmInv'
<1> USE DEF TypeInv, TypeOK, K8sTypeOK
<1>1. PICK new \in SUBSET Unused :
         /\ pool' = PoolOf(InPool \ {w}, new)
         /\ spawning' = [i \in Ids |-> IF i \in new THEN "called" ELSE spawning[i]]
         /\ holders' \subseteq (holders \ IF step = "adopting" THEN {w} ELSE {}) \cup new \cup Sessions
  BY DEF TakesFrom
<1>2. /\ req[r] = Free /\ req' = [req EXCEPT ![r] = [pc |-> step, sid |-> s, warm |-> w]]
      /\ UNCHANGED <<pods, phase, label, patching, socketVars, row>>
  BY DEF TakesFrom
<1>3. /\ w \in WarmIds /\ w \in Ids /\ w \in InPool /\ ~InUse(w) /\ spawning[w] # "called"
      /\ pods[w] # None \/ spawning[w] # "no"
  BY ReadyOnes, IdSets
<1>4. \A v \in new : /\ v \in WarmIds /\ v \in Ids /\ v # w /\ ~InUse(v) /\ phase[v] = "absent"
                     /\ spawning[v] = "no" /\ sock[v] = None
                     /\ \A i \in Ids : pods[i] # v /\ connections[i] # v
  BY <1>3, IdSets DEF Unused, InPool
<1>5. /\ \A o \in Sessions : spawning'[o] = spawning[o]
      /\ \A i \in Ids : i \notin new => spawning'[i] = spawning[i]
      /\ \A i \in new : spawning'[i] = "called"
  BY <1>1, <1>4, IdSets
<1>6. s \in Sessions => /\ \A q \in Requests : req[q].sid # s
                        /\ connections[s] = None /\ spawning[s] = "no"
                        /\ \A n \in Ids : phase[n] # "absent" => serves[n] # s
                        /\ \A n \in Ids : inbox[n] # s
  <2> SUFFICES ASSUME s \in Sessions
               PROVE  /\ \A q \in Requests : req[q].sid # s
                      /\ connections[s] = None /\ spawning[s] = "no"
                      /\ \A n \in Ids : phase[n] # "absent" => serves[n] # s
                      /\ \A n \in Ids : inbox[n] # s
    OBVIOUS
  <2>1. Fresh(s)
    BY IdSets
  <2>2. \A n \in Ids : inbox[n] = s => connections[s] = n
    BY IdSets DEF WarmInv, AdoptionsInv, ToldInv
  <2> QED
    BY <2>1, <2>2, IdSets DEF Fresh, Quiet, WarmInv, RequestsInv
<1>7. NamesInv' /\ SocketsInv'
  BY <1>2 DEF WarmInv, NamesInv, MayHave, SocketsInv, socketVars
<1>8. TrackedOnce'
  BY <1>2, <1>4, <1>5 DEF WarmInv, TrackedOnce
<1>9. RequestsInv'
  <2>1. \A q \in Requests : req[q].pc \in {"spawning", "respawning"} => req'[q] = req[q]
    BY <1>2 DEF Free
  <2> QED
    BY <1>2, <1>3, <1>5, <1>6, <2>1 DEF WarmInv, RequestsInv, InUse, Free
<1>10. UnbornInv'
  <2>1. \A v \in WarmIds : InUse(v)' <=> InUse(v) \/ v = w
    BY <1>2, <1>3, IdSets DEF InUse, Free
  <2> QED
    BY <1>2, <1>3, <1>4, <1>5, <2>1, IdSets DEF WarmInv, UnbornInv, socketVars
<1>11. AdoptingInv'
  <2>1. ASSUME NEW q \in Requests, q # r, req[q].pc = "adopting"
        PROVE  req[q].sid \in Sessions /\ req[q].warm \in WarmIds /\ req[q].warm \notin holders'
    <3>1. req[q].sid \in Sessions /\ req[q].warm \in WarmIds
      BY <2>1 DEF ReqShape
    <3>2. req[q].warm \notin holders /\ req[q].warm \notin new /\ req[q].warm \notin Sessions
      BY <1>4, <2>1, <3>1, IdSets DEF WarmInv, AdoptionsInv, AdoptingInv, InUse
    <3> QED
      BY <1>1, <3>1, <3>2
  <2>2. step = "adopting" => w \notin holders'
    BY <1>1, <1>3, <1>4, IdSets
  <2> QED
    BY <1>2, <1>5, <1>6, <2>1, <2>2, IdSets DEF WarmInv, AdoptionsInv, AdoptingInv, NobodyElse, socketVars
<1>12. ToldInv'
  <2>1. \A m \in Ids : inbox[m] # None => inbox[m] \in Sessions /\ spawning[inbox[m]] = "no"
    BY DEF WarmInv, AdoptionsInv, ToldInv, NobodyElse
  <2> QED
    BY <1>2, <1>5, <1>6, <2>1, StillTold, IdSets DEF Free, socketVars
<1>13. PoolInv'
  <2>1. InPool' = (InPool \ {w}) \cup new
    BY <1>1, <1>4 DEF InPool, PoolOf
  <2>2. \A v \in WarmIds : InUse(v)' => InUse(v) \/ v = w
    BY <1>2, IdSets DEF InUse, Free
  <2>3. \A v \in InPool' : /\ ~InUse(v)'
                           /\ \A o \in Sessions : v \notin {pods'[o], connections'[o]}
                           /\ phase'[v] # "absent" => serves'[v] = v
                           /\ pods'[v] # None \/ spawning'[v] # "no"
    <3>1. \A v \in new : /\ ~InUse(v)'
                         /\ \A o \in Sessions : v \notin {pods'[o], connections'[o]}
                         /\ phase'[v] = "absent" /\ spawning'[v] = "called"
      BY <1>2, <1>4, <1>5, <2>2, IdSets DEF socketVars
    <3>2. \A v \in InPool \ {w} : /\ ~InUse(v)'
                                  /\ \A o \in Sessions : v \notin {pods'[o], connections'[o]}
                                  /\ phase'[v] # "absent" => serves'[v] = v
                                  /\ pods'[v] # None \/ spawning'[v] # "no"
      BY <1>2, <1>5, <2>2, IdSets DEF WarmInv, PoolInv, InPool, socketVars
    <3> QED
      BY <2>1, <3>1, <3>2
  <2>4. \A v \in WarmIds : spawning[v] # "no" => spawning'[v] # "no"
    BY <1>5, IdSets
  <2>5. \A q \in Requests : req'[q].pc \in {"querying", "unheard"} =>
          req'[q].warm = w \/ req'[q] = req[q]
    BY <1>2
  <2> QED
    BY <1>2, <1>3, <2>3, <2>4, <2>5 DEF WarmInv, PoolInv, ReqShape
<1> QED
  BY <1>7, <1>8, <1>9, <1>10, <1>11, <1>12, <1>13 DEF WarmInv, AdoptionsInv

LEMMA WarmCreate ==
  ASSUME TypeInv, WarmInv, NEW r \in Requests, NEW s \in Sessions, NEW p \in Profiles, CreateBegin(r, s, p)
  PROVE  WarmInv'
<1> USE DEF TypeInv, TypeOK, K8sTypeOK
<1>1. req[r] = Free /\ Fresh(s) /\ UNCHANGED <<socketVars, row>>
  BY DEF CreateBegin
<1>2. ASSUME NEW w \in FindReady(p), AdoptEntry(r, s, w) PROVE WarmInv'
  <2>1. PICK new \in SUBSET Unused :
          /\ pool' = PoolOf(InPool \ {w}, new)
          /\ spawning' = [i \in Ids |-> IF i \in new THEN "called" ELSE spawning[i]]
          /\ holders' = ((holders \ {w}) \cup {s}) \cup new
    BY <1>2, Refilled DEF AdoptEntry
  <2>2. holders' \subseteq (holders \ {w}) \cup new \cup Sessions
    BY <2>1
  <2>3. TakesFrom(r, s, w, "adopting")
    BY <1>1, <1>2, <2>1, <2>2 DEF TakesFrom, AdoptEntry, Goto
  <2> QED
    BY <1>1, <2>3, WarmTakes
<1>3. CASE /\ spawning' = [spawning EXCEPT ![s] = "called"]
           /\ holders' = holders \cup {s}
           /\ Goto(r, "spawning", s, None)
           /\ UNCHANGED <<pods, phase, label, patching, poolVars>>
  <2>1. s \in Ids /\ s \notin WarmIds /\ s # None
    BY IdSets
  <2>2. req' = [req EXCEPT ![r] = [pc |-> "spawning", sid |-> s, warm |-> None]]
    BY <1>3 DEF Goto
  <2>3. /\ \A q \in Requests : req[q].sid # s
        /\ pods[s] = None /\ \A n \in Ids : inbox[n] # s
    <3>1. \A n \in Ids : inbox[n] = s => connections[s] = n
      BY <2>1 DEF WarmInv, AdoptionsInv, ToldInv
    <3> QED
      BY <1>1, <2>1, <3>1, IdSets DEF Fresh, Quiet
  <2>4. NamesInv' /\ SocketsInv'
    BY <1>1, <1>3 DEF WarmInv, NamesInv, MayHave, SocketsInv, socketVars
  <2>5. TrackedOnce'
    <3>1. \A j \in Ids : pods[j] # s
      BY <2>1, <2>3 DEF WarmInv, NamesInv, MayHave
    <3> QED
      BY <1>3, <2>1, <3>1, IdSets DEF WarmInv, TrackedOnce
  <2>6. RequestsInv'
    <3>1. ASSUME NEW o \in Sessions, spawning'[o] # "no"
          PROVE  \E q \in Requests : req'[q].pc \in {"spawning", "respawning"} /\ req'[q].sid = o
      <4>1. CASE o = s
        BY <2>2, <4>1
      <4>2. CASE o # s
        BY <1>1, <1>3, <2>2, <3>1, <4>2, IdSets DEF WarmInv, RequestsInv, Free
      <4> QED
        BY <4>1, <4>2
    <3> QED
      BY <1>1, <2>2, <2>3, <3>1 DEF WarmInv, RequestsInv, Free
  <2>7. UnbornInv'
    BY <1>1, <1>3, <2>1, <2>2, IdSets DEF WarmInv, UnbornInv, InUse, Free, socketVars
  <2>8. AdoptingInv'
    BY <1>1, <1>3, <2>1, <2>2, <2>3, IdSets DEF WarmInv, AdoptionsInv, AdoptingInv, NobodyElse, ReqShape, socketVars
  <2>9. ToldInv'
    <3>1. \A m \in Ids : inbox[m] # None => inbox[m] \in Sessions /\ inbox[m] \in Ids /\ spawning[inbox[m]] = "no"
      BY IdSets DEF WarmInv, AdoptionsInv, ToldInv, NobodyElse
    <3> QED
      BY <1>1, <1>3, <2>1, <2>2, <2>3, <3>1, StillTold, IdSets DEF Free, socketVars
  <2>10. PoolInv'
    BY <1>1, <1>3, <2>1, <2>2, IdSets DEF WarmInv, PoolInv, InPool, InUse, ReqShape, Free, socketVars, poolVars
  <2> QED
    BY <2>4, <2>5, <2>6, <2>7, <2>8, <2>9, <2>10 DEF WarmInv, AdoptionsInv
<1> QED
  BY <1>2, <1>3 DEF CreateBegin

LEMMA WarmQuery ==
  ASSUME TypeInv, WarmInv, NEW r \in Requests, QueryBegin(r)
  PROVE  WarmInv'
<1>1. PICK w \in FindReady(Generic) : Refill(InPool \ {w}, holders) /\ Goto(r, "querying", None, w)
  BY DEF QueryBegin
<1>2. PICK new \in SUBSET Unused :
        /\ pool' = PoolOf(InPool \ {w}, new)
        /\ spawning' = [i \in Ids |-> IF i \in new THEN "called" ELSE spawning[i]]
        /\ holders' = holders \cup new
  BY <1>1, Refilled
<1>3. TakesFrom(r, None, w, "querying")
  BY <1>1, <1>2 DEF QueryBegin, TakesFrom, Goto
<1> QED
  BY <1>3, WarmTakes
-----------------------------------------------------------------------------
(***************************************************************************)
(* The crash, and the invariant.                                           *)
(***************************************************************************)
\* The labels tell the recovery what a pod belongs to, one id for each pod, and
\* the new pool draws only names of which there is no pod.
LEMMA WarmRestart ==
  ASSUME TypeInv, WarmInv, Restart
  PROVE  WarmInv'
<1> USE DEF TypeInv, TypeOK, K8sTypeOK
<1>1. PICK new \in SUBSET Unused :
              /\ pool' = PoolOf({}, new)
              /\ spawning' = [i \in Ids |-> IF i \in new THEN "called" ELSE "no"]
  BY RestartGives
<1>2. \A i \in Ids : pods'[i] # None =>
         i \in Sessions /\ label[pods'[i]] = i /\ phase[pods'[i]] \in {"running", "terminating"} /\ pods'[i] \in Ids
  BY RestartGives
<1>3. /\ UNCHANGED <<phase, label, patching>>
      /\ sock' = [n \in Ids |-> None] /\ connections' = [i \in Ids |-> None] /\ inbox' = [n \in Ids |-> None]
      /\ req' = [r \in Requests |-> Free]
  BY DEF Restart, Recover
<1>4. \A n \in Ids : serves'[n] \in {serves[n], inbox[n]} \ {None}
  BY IdSets DEF Restart
<1>5. \A v \in new : v \in WarmIds /\ v \in Ids /\ v \notin Sessions /\ phase[v] = "absent"
  BY IdSets DEF Unused
<1>6. NamesInv'
  <2>1. \A n \in Ids : MayHave(serves'[n], n)
    BY <1>4, IdSets DEF WarmInv, NamesInv, MayHave
  <2>2. \A i \in Ids : MayHave(i, pods'[i])
    BY <1>2 DEF WarmInv, NamesInv, MayHave
  <2> QED
    BY <1>3, <2>1, <2>2 DEF WarmInv, NamesInv, MayHave
<1>7. SocketsInv'
  BY <1>3 DEF SocketsInv
<1>8. TrackedOnce'
  <2>1. ASSUME NEW i \in Ids, NEW j \in Ids, pods'[i] # None, pods'[i] = pods'[j] PROVE i = j
    BY <1>2, <2>1
  <2>2. ASSUME NEW i \in Ids, NEW n \in Ids, spawning'[n] # "no" PROVE pods'[i] # n
    <3>1. phase[n] = "absent"
      BY <1>1, <1>5, <2>2
    <3> QED
      BY <1>2, <3>1, IdSets
  <2> QED
    BY <2>1, <2>2 DEF TrackedOnce
<1>9. RequestsInv'
  BY <1>1, <1>3, <1>5, IdSets DEF RequestsInv, Free
<1>10. UnbornInv'
  BY <1>1, <1>3, <1>5, IdSets DEF UnbornInv, InUse, Free
<1>11. AdoptingInv' /\ ToldInv'
  BY <1>3 DEF AdoptingInv, ToldInv, Free
<1>12. PoolInv'
  <2>1. InPool' = new
    BY <1>1, <1>5 DEF InPool, PoolOf
  <2>2. \A v \in new : \A o \in Sessions : pods'[o] # v /\ connections'[o] # v
    BY <1>2, <1>3, <1>5, IdSets
  <2> QED
    BY <1>1, <1>3, <1>5, <2>1, <2>2, IdSets DEF PoolInv, InUse, Free
<1> QED
  BY <1>6, <1>7, <1>8, <1>9, <1>10, <1>11, <1>12 DEF WarmInv, AdoptionsInv

LEMMA WarmStep ==
  ASSUME TypeInv, WarmInv, [Next]_vars
  PROVE  WarmInv'
<1>1. CASE UNCHANGED vars
  <2> USE <1>1 DEF vars, k8sVars, poolVars, socketVars
  <2>1. NamesInv' /\ SocketsInv' /\ TrackedOnce' /\ RequestsInv' /\ UnbornInv'
    BY DEF WarmInv, NamesInv, MayHave, SocketsInv, TrackedOnce, RequestsInv, UnbornInv, InUse
  <2>2. AdoptionsInv' /\ PoolInv'
    BY DEF WarmInv, AdoptionsInv, AdoptingInv, ToldInv, NobodyElse, PoolInv, InPool, InUse
  <2> QED
    BY <2>1, <2>2 DEF WarmInv
<1>2. ASSUME NEW i \in Ids, SpawnGoesOn(i) PROVE WarmInv'
  BY <1>2, WarmCreated, WarmWarmSpawned, WarmWarmSpawnFails DEF SpawnGoesOn
<1>3. ASSUME NEW r \in Requests, Continues(r) PROVE WarmInv'
  BY <1>3, WarmAdoptEnds, WarmSessionSpawned, WarmSpawnFailed, WarmReadyTimesOut, WarmQueryEnds DEF Continues
<1>4. ASSUME NEW r \in Requests, NEW s \in Sessions, Arrives(r, s) PROVE WarmInv'
  BY <1>4, WarmResume, WarmCreate DEF Arrives
<1>5. ASSUME NEW n \in Ids, PodActs(n) PROVE WarmInv'
  BY <1>5, WarmPhases, WarmPatch, WarmConnects, WarmAdopts, WarmCloses DEF PodActs
<1> QED
  BY <1>1, <1>2, <1>3, <1>4, <1>5, WarmQuery, WarmStop, WarmRestart DEF Next

LEMMA WarmInvariant == Spec => []WarmInv
<1>1. TypeInv /\ WarmInv /\ [Next]_vars => WarmInv'
  BY WarmStep
<1> QED
  BY <1>1, WarmInit, TypeInvariant, PTL DEF Spec

\* A warm runner is used once, over adoptions, refills, crashes and late patches
\* of labels: OneUse, which is a part of the invariant.
THEOREM WarmRunnersAreUsedOnce == Spec => []OneUse
<1>1. TypeInv /\ WarmInv => OneUse
  BY DEF WarmInv, TrackedOnce, RequestsInv, PoolInv, OneUse
<1> QED
  BY <1>1, TypeInvariant, WarmInvariant, PTL
-----------------------------------------------------------------------------
(***************************************************************************)
(* Where commands go.                                                      *)
(***************************************************************************)
LEMMA SocketSteps ==
  ASSUME TypeInv, [Next]_vars
  PROVE  \/ UNCHANGED socketVars
         \/ Restart
         \/ \E r \in Requests : AdoptEnds(r)
         \/ \E n \in Ids : PodCreated(n) \/ RunnerConnects(n) \/ RunnerAdopts(n) \/ SocketCloses(n)
<1>1. ASSUME NEW i \in Ids, WarmSpawned(i) \/ WarmSpawnFails(i) PROVE UNCHANGED socketVars
  BY <1>1 DEF WarmSpawned, WarmSpawnFails
<1>2. ASSUME NEW r \in Requests,
             Spawned(r) \/ SpawnFailed(r) \/ ReadyTimesOut(r) \/ QueryAnswered(r) \/ QueryTimesOut(r) \/ QueryBegin(r)
      PROVE  UNCHANGED socketVars
  BY <1>2 DEF Spawned, SpawnFailed, ReadyTimesOut, QueryAnswered, QueryTimesOut, QueryBegin
<1>3. ASSUME NEW r \in Requests, NEW s \in Sessions, Arrives(r, s) PROVE UNCHANGED socketVars
  BY <1>3 DEF Arrives, ResumeBegin, CreateBegin
<1>4. ASSUME NEW s \in Sessions, Stop(s) PROVE UNCHANGED socketVars
  BY <1>4 DEF Stop
<1>5. ASSUME NEW n \in Ids, PodStarts(n) \/ RunnerExits(n) \/ PodGone(n) \/ PatchSettles(n) PROVE UNCHANGED socketVars
  BY <1>5 DEF PodStarts, RunnerExits, PodGone, PatchSettles
<1>6. CASE UNCHANGED vars
  BY <1>6 DEF vars
<1> QED
  BY <1>1, <1>2, <1>3, <1>4, <1>5, <1>6 DEF Next, SpawnGoesOn, Continues, PodActs

\* The connection of a runner that is adopted moves to the session, with the
\* command, or there is none to move.
LEMMA HandsOver ==
  ASSUME TypeInv, WarmInv, NEW r \in Requests, AdoptEnds(r)
  PROVE  \/ UNCHANGED socketVars
         \/ \E s \in Sessions, w \in WarmIds :
              /\ s = req[r].sid /\ s \in Ids /\ w \in Ids /\ s # w /\ connections[w] = w /\ sock[w] = w
              /\ inbox' = [inbox EXCEPT ![w] = s] /\ sock' = [sock EXCEPT ![w] = s] /\ serves' = serves
              /\ connections' = [connections EXCEPT ![w] = None, ![s] = w]
              /\ \A j \in Ids : connections[j] = w => j = w
<1> USE DEF TypeInv, TypeOK, K8sTypeOK
<1> DEFINE s == req[r].sid
           w == req[r].warm
<1>1. s \in Sessions /\ w \in WarmIds /\ s \in Ids /\ w \in Ids /\ s # w
  BY IdSets DEF AdoptEnds, ReqShape
<1>2. connections[w] \in {None, w}
  BY <1>1, IdSets DEF WarmInv, NamesInv, MayHave
<1>3. CASE connections[w] = None
  BY <1>3 DEF AdoptEnds, HandOver, socketVars
<1>4. CASE connections[w] = w
  <2>1. sock[w] = w /\ \A j \in Ids : connections[j] = w => j = w
    BY <1>1, <1>4, IdSets DEF WarmInv, SocketsInv
  <2>2. /\ inbox' = [inbox EXCEPT ![w] = s] /\ sock' = [sock EXCEPT ![w] = s] /\ serves' = serves
        /\ connections' = [connections EXCEPT ![w] = None, ![s] = w]
    BY <1>1, <1>4, IdSets DEF AdoptEnds, HandOver
  <2> QED
    BY <1>1, <1>4, <2>1, <2>2
<1> QED
  BY <1>2, <1>3, <1>4

\* What is sent for a session reaches a runner that speaks for it, or one the
\* adopt command is under way to.
THEOREM CommandsReachTheirRunner == Spec => []CommandsReachOwnRunner
<1>1. Init => CommandsReachOwnRunner
  BY IdSets DEF Init, CommandsReachOwnRunner
<1>2. TypeInv /\ WarmInv /\ CommandsReachOwnRunner /\ [Next]_vars => CommandsReachOwnRunner'
  <2> SUFFICES ASSUME TypeInv, WarmInv, CommandsReachOwnRunner, [Next]_vars PROVE CommandsReachOwnRunner'
    OBVIOUS
  <2> USE DEF TypeInv, TypeOK, K8sTypeOK, CommandsReachOwnRunner
  <2>1. CASE UNCHANGED socketVars
    BY <2>1 DEF socketVars
  <2>2. CASE Restart
    BY <2>2, IdSets DEF Restart
  <2>3. ASSUME NEW r \in Requests, AdoptEnds(r) PROVE CommandsReachOwnRunner'
    <3>1. ASSUME NEW s \in Sessions, NEW w \in WarmIds,
                 s \in Ids /\ w \in Ids /\ s # w,
                 inbox' = [inbox EXCEPT ![w] = s] /\ serves' = serves,
                 connections' = [connections EXCEPT ![w] = None, ![s] = w],
                 \A j \in Ids : connections[j] = w => j = w
          PROVE  CommandsReachOwnRunner'
      BY <3>1, IdSets
    <3> QED
      BY <2>1, <2>3, <3>1, HandsOver
  <2>4. ASSUME NEW n \in Ids, PodCreated(n) PROVE CommandsReachOwnRunner'
    <3>1. \A s \in Sessions : connections[s] = n => s = n
      BY <2>4, IdSets DEF PodCreated, PodIsCreated, WarmInv, NamesInv, MayHave, SocketsInv, UnbornInv
    <3> QED
      BY <2>4, <3>1, IdSets DEF PodCreated
  <2>5. ASSUME NEW n \in Ids, RunnerConnects(n) PROVE CommandsReachOwnRunner'
    BY <2>5, IdSets DEF RunnerConnects
  <2>6. ASSUME NEW n \in Ids, RunnerAdopts(n) PROVE CommandsReachOwnRunner'
    <3>1. \A s \in Sessions : connections[s] = n => s = inbox[n]
      BY <2>6, OneToldEach, IdSets DEF RunnerAdopts, WarmInv, SocketsInv
    <3> QED
      BY <2>6, <3>1, IdSets DEF RunnerAdopts
  <2>7. ASSUME NEW n \in Ids, SocketCloses(n) PROVE CommandsReachOwnRunner'
    <3>1. \A s \in Sessions : connections'[s] # None => connections'[s] = connections[s] /\ connections[s] # n
      BY <2>7, IdSets DEF SocketCloses, WarmInv, SocketsInv
    <3> QED
      BY <2>7, <3>1, IdSets DEF SocketCloses
  <2> QED
    BY <2>1, <2>2, <2>3, <2>4, <2>5, <2>6, <2>7, SocketSteps
<1> QED
  BY <1>1, <1>2, TypeInvariant, WarmInvariant, PTL DEF Spec
-----------------------------------------------------------------------------
(***************************************************************************)
(* What ready means.                                                       *)
(***************************************************************************)
\* No session becomes ready, and none that stays ready loses its pod.
NoneReadied ==
  \A s \in Sessions : row'[s] = "ready" => row[s] = "ready" /\ (pods[s] # None => pods'[s] # None)

\* A kill of the pod of s goes with a row of s that is not ready.
LEMMA KillsUnready ==
  ASSUME TypeInv, NEW s \in Sessions, NEW mayFail, Kill(s, mayFail), row'[s] # "ready",
         \A o \in Sessions \ {s} : row'[o] = row[o]
  PROVE  NoneReadied
BY KillGives, IdSets DEF NoneReadied, TypeInv, TypeOK, K8sTypeOK

LEMMA ReadySteps ==
  ASSUME TypeInv, [Next]_vars
  PROVE  NoneReadied \/ Restart \/ \E n \in Ids : RunnerConnects(n) \/ RunnerAdopts(n)
<1> USE DEF TypeInv, TypeOK, K8sTypeOK
<1>1. ASSUME NEW i \in Ids, SpawnGoesOn(i) PROVE NoneReadied
  BY <1>1, IdSets DEF SpawnGoesOn, PodCreated, PodIsCreated, WarmSpawned, SpawnReturns, WarmSpawnFails, SpawnThrows, NoneReadied
<1>2. ASSUME NEW r \in Requests, AdoptEnds(r) PROVE NoneReadied
  <2>1. req[r].sid \in Sessions /\ req[r].warm \in WarmIds
    BY <1>2 DEF AdoptEnds, ReqShape
  <2>2. row'[req[r].sid] = "starting" /\ \A o \in Sessions \ {req[r].sid} : row'[o] = row[o]
    BY <1>2, <2>1 DEF AdoptEnds
  <2>3. \A o \in Sessions \ {req[r].sid} : pods'[o] = pods[o]
    BY <1>2, <2>1, IdSets DEF AdoptEnds, Rekey
  <2> QED
    BY <2>2, <2>3 DEF NoneReadied
<1>3. ASSUME NEW r \in Requests, Spawned(r) \/ SpawnFailed(r) PROVE NoneReadied
  <2>1. req[r].sid \in Sessions
    BY <1>3 DEF Spawned, SpawnFailed, ReqShape
  <2>2. row'[req[r].sid] # "ready" /\ \A o \in Sessions \ {req[r].sid} : row'[o] = row[o]
    BY <1>3, <2>1 DEF Spawned, SpawnFailed
  <2>3. \A o \in Sessions \ {req[r].sid} : pods'[o] = pods[o]
    BY <1>3, <2>1, IdSets DEF Spawned, SpawnFailed, SpawnReturns, SpawnThrows
  <2> QED
    BY <2>2, <2>3 DEF NoneReadied
<1>4. ASSUME NEW r \in Requests, ReadyTimesOut(r) PROVE NoneReadied
  <2>1. req[r].sid \in Sessions
    BY <1>4 DEF ReadyTimesOut, GiveUp, ReqShape
  <2> QED
    BY <1>4, <2>1, KillsUnready DEF ReadyTimesOut, GiveUp
<1>5. ASSUME NEW r \in Requests, QueryAnswered(r) PROVE NoneReadied
  <2>1. req[r].warm \in WarmIds
    BY <1>5 DEF QueryAnswered, ReqShape
  <2> QED
    BY <1>5, <2>1, KillGives, IdSets DEF QueryAnswered, NoneReadied
<1>6. ASSUME NEW r \in Requests, QueryTimesOut(r) \/ QueryBegin(r) PROVE NoneReadied
  BY <1>6 DEF QueryTimesOut, QueryBegin, k8sVars, NoneReadied
<1>7. ASSUME NEW r \in Requests, NEW s \in Sessions, Arrives(r, s) PROVE NoneReadied
  <2>1. CASE ResumeBegin(r, s)
    BY <2>1, KillsUnready DEF ResumeBegin
  <2>2. CASE \E p \in Profiles : CreateBegin(r, s, p)
    BY <2>2 DEF CreateBegin, AdoptEntry, NoneReadied
  <2> QED
    BY <1>7, <2>1, <2>2 DEF Arrives
<1>8. ASSUME NEW s \in Sessions, Stop(s) PROVE NoneReadied
  BY <1>8, KillsUnready DEF Stop
<1>9. ASSUME NEW n \in Ids, PodStarts(n) \/ RunnerExits(n) \/ PodGone(n) \/ PatchSettles(n) \/ SocketCloses(n)
      PROVE  NoneReadied
  BY <1>9 DEF PodStarts, RunnerExits, PodGone, PatchSettles, PatchEnds, SocketCloses, k8sVars, NoneReadied
<1>10. CASE UNCHANGED vars
  BY <1>10 DEF vars, k8sVars, NoneReadied
<1> QED
  BY <1>1, <1>2, <1>3, <1>4, <1>5, <1>6, <1>7, <1>8, <1>9, <1>10 DEF Next, Continues, PodActs

\* A session shown as ready is connected, or a restart found its pod.
THEOREM ReadyIsAlwaysConnected == Spec => []ReadyIsConnected
<1>1. Init => ReadyIsConnected
  BY DEF Init, ReadyIsConnected
<1>2. TypeInv /\ WarmInv /\ ReadyIsConnected /\ [Next]_vars => ReadyIsConnected'
  <2> SUFFICES ASSUME TypeInv, WarmInv, ReadyIsConnected, [Next]_vars PROVE ReadyIsConnected'
    OBVIOUS
  <2> USE DEF TypeInv, TypeOK, K8sTypeOK, ReadyIsConnected
  <2>1. restarts' = restarts \/ (Restart /\ restarts' > 0)
    BY RestartsCount
  <2>2. CASE Restart
    BY <2>1, <2>2, PoolAssumption DEF Restart, Reconciled, Active
  <2>3. ASSUME NEW n \in Ids, RunnerConnects(n) PROVE ReadyIsConnected'
    <3>1. HeardOf(serves[n])
      BY <2>3, Heard DEF RunnerConnects
    <3>2. \A s \in Sessions : s # serves[n] => pods'[s] = pods[s] /\ row'[s] = row[s]
      BY <3>1, IdSets DEF HeardOf
    <3> QED
      BY <2>3, <3>2, IdSets DEF RunnerConnects
  <2>4. ASSUME NEW n \in Ids, RunnerAdopts(n) PROVE ReadyIsConnected'
    <3>1. inbox[n] \in Sessions /\ inbox[n] \in Ids /\ connections[inbox[n]] = n /\ sock[n] # None
      BY <2>4, OneToldEach DEF RunnerAdopts, WarmInv, AdoptionsInv, ToldInv
    <3>2. HeardOf(inbox[n])
      BY <2>4, <3>1, Heard DEF RunnerAdopts
    <3>3. \A s \in Sessions : s # inbox[n] => pods'[s] = pods[s] /\ row'[s] = row[s]
      BY <3>2, IdSets DEF HeardOf
    <3> QED
      BY <2>4, <3>1, <3>3, IdSets DEF RunnerAdopts
  <2>5. CASE NoneReadied /\ ~Restart
    <3>1. ASSUME \A s \in Sessions : /\ row'[s] = "ready"
                                     /\ connections[s] # None /\ sock[connections[s]] # None
                                     => connections'[s] # None /\ sock'[connections'[s]] # None
          PROVE  ReadyIsConnected'
      BY <2>1, <2>5, <3>1 DEF NoneReadied
    <3>2. CASE UNCHANGED socketVars
      BY <3>1, <3>2 DEF socketVars
    <3>3. ASSUME NEW r \in Requests, AdoptEnds(r) PROVE ReadyIsConnected'
      BY <3>1, <3>2, <3>3, HandsOver, IdSets
    <3>4. ASSUME NEW n \in Ids, PodCreated(n) PROVE ReadyIsConnected'
      BY <3>1, <3>4 DEF PodCreated
    <3>5. ASSUME NEW n \in Ids, SocketCloses(n) PROVE ReadyIsConnected'
      <4>1. \A s \in Sessions : connections[s] = n => row'[s] # "ready"
        BY <3>5, IdSets DEF SocketCloses, Active, WarmInv, SocketsInv
      <4> QED
        BY <3>1, <3>5, <4>1, IdSets DEF SocketCloses
    <3> QED
      BY <2>3, <2>4, <2>5, <3>2, <3>3, <3>4, <3>5, SocketSteps
  <2> QED
    BY <2>2, <2>3, <2>4, <2>5, ReadySteps
<1> QED
  BY <1>1, <1>2, TypeInvariant, WarmInvariant, PTL DEF Spec
-----------------------------------------------------------------------------
(***************************************************************************)
(* The tokens of warm runners.                                             *)
(***************************************************************************)
\* A warm id has, in every step but those listed, what it had.
WarmIdsKept ==
  \A w \in WarmIds : /\ (w \in InPool' <=> w \in InPool) /\ (w \in holders' <=> w \in holders)
                     /\ InUse(w) => InUse(w)'
                     /\ pods[w] # None => pods'[w] # None
                     /\ spawning[w] # "no" => spawning'[w] # "no" \/ pods'[w] # None

LEMMA TokensKept ==
  ASSUME WarmTokens, WarmIdsKept
  PROVE  WarmTokens'
<1>1. \A w \in InPool' : w \in WarmIds
  BY DEF InPool
<1> QED
  BY <1>1 DEF WarmTokens, WarmIdsKept

LEMMA KeepingSteps ==
  ASSUME TypeInv, WarmInv,
         \/ \E r \in Requests : \/ Spawned(r) \/ SpawnFailed(r) \/ ReadyTimesOut(r)
                                \/ \E s \in Sessions : ResumeBegin(r, s)
         \/ \E s \in Sessions : Stop(s)
         \/ \E n \in Ids : PodActs(n) \/ PodCreated(n) \/ (n \in WarmIds /\ WarmSpawned(n))
         \/ UNCHANGED vars
  PROVE  WarmIdsKept
<1> USE DEF TypeInv, TypeOK, K8sTypeOK
<1>1. ASSUME NEW r \in Requests, Spawned(r) \/ SpawnFailed(r) PROVE WarmIdsKept
  <2>1. req[r].sid \in Sessions /\ req[r].warm = None
    BY <1>1 DEF Spawned, SpawnFailed, ReqShape
  <2>2. \A w \in WarmIds : InUse(w) => InUse(w)'
    BY SMTT(30), <1>1, <2>1, IdSets DEF Spawned, SpawnFailed, Goto, Finish, InUse
  <2> QED
    BY <1>1, <2>1, <2>2, IdSets DEF Spawned, SpawnFailed, SpawnReturns, SpawnThrows, poolVars, WarmIdsKept, InPool
<1>2. ASSUME NEW i \in Ids, HeardOf(i) PROVE WarmIdsKept
  BY <1>2, HeardKeeps, IdSets DEF HeardOf, WarmIdsKept
<1>3. ASSUME NEW r \in Requests, ReadyTimesOut(r) PROVE WarmIdsKept
  <2>1. req[r].sid \in Ids
    BY <1>3, IdSets DEF ReadyTimesOut, GiveUp, ReqShape
  <2> QED
    BY <1>2, <1>3, <2>1, GaveUp DEF ReadyTimesOut
<1>4. ASSUME NEW r \in Requests, NEW s \in Sessions, ResumeBegin(r, s) PROVE WarmIdsKept
  <2>1. s \in Ids /\ s \notin WarmIds
    BY IdSets
  <2>2. pods' = [pods EXCEPT ![s] = None]
    BY <1>4, <2>1, KillGives DEF ResumeBegin
  <2>3. \A w \in WarmIds : InUse(w) => InUse(w)'
    BY <1>4, IdSets DEF ResumeBegin, Goto, InUse, Free
  <2> QED
    BY <1>4, <2>1, <2>2, <2>3, IdSets DEF ResumeBegin, poolVars, WarmIdsKept, InPool
<1>5. ASSUME NEW s \in Sessions, Stop(s) PROVE WarmIdsKept
  <2>1. s \in Ids /\ s \notin WarmIds
    BY IdSets
  <2>2. pods' = [pods EXCEPT ![s] = None]
    BY <1>5, <2>1, KillGives DEF Stop
  <2> QED
    BY <1>5, <2>1, <2>2, IdSets DEF Stop, poolVars, WarmIdsKept, InPool, InUse
<1>6. ASSUME NEW n \in Ids, RunnerConnects(n) \/ RunnerAdopts(n) PROVE WarmIdsKept
  <2>1. serves[n] \in Ids /\ (inbox[n] # None => inbox[n] \in Ids)
    BY IdSets
  <2> QED
    BY <1>2, <1>6, <2>1, Heard DEF RunnerConnects, RunnerAdopts
<1>7. ASSUME NEW n \in Ids, PodStarts(n) \/ RunnerExits(n) \/ PodGone(n) \/ PatchSettles(n)
      PROVE  WarmIdsKept
  BY <1>7 DEF PodStarts, RunnerExits, PodGone, PatchSettles, PatchEnds, poolVars, WarmIdsKept, InPool, InUse
<1>8. ASSUME NEW n \in Ids, SocketCloses(n) PROVE WarmIdsKept
  <2>1. \A r \in Requests : req'[r].warm = req[r].warm
    BY <1>8 DEF SocketCloses
  <2> QED
    BY <1>8, <2>1 DEF SocketCloses, k8sVars, poolVars, WarmIdsKept, InPool, InUse
<1>9. ASSUME NEW n \in Ids, PodCreated(n) PROVE WarmIdsKept
  BY <1>9, IdSets DEF PodCreated, PodIsCreated, poolVars, WarmIdsKept, InPool, InUse
<1>10. ASSUME NEW w \in WarmIds, WarmSpawned(w) PROVE WarmIdsKept
  BY <1>10, IdSets DEF WarmSpawned, SpawnReturns, WarmIdsKept, InPool, InUse
<1>11. CASE UNCHANGED vars
  BY <1>11 DEF vars, k8sVars, poolVars, WarmIdsKept, InPool, InUse
<1> QED
  BY <1>1, <1>3, <1>4, <1>5, <1>6, <1>7, <1>8, <1>9, <1>10, <1>11 DEF PodActs

LEMMA RefillTokens ==
  ASSUME TypeInv, WarmTokens, NEW w \in WarmIds, NEW held, Refill(InPool \ {w}, held),
         \A v \in WarmIds : v # w => (v \in held <=> v \in holders),
         w \in held => InUse(w)',
         UNCHANGED pods, \A v \in WarmIds : InUse(v) => InUse(v)'
  PROVE  WarmTokens'
<1>1. PICK new \in SUBSET Unused :
        /\ pool' = PoolOf(InPool \ {w}, new)
        /\ spawning' = [i \in Ids |-> IF i \in new THEN "called" ELSE spawning[i]]
        /\ holders' = held \cup new
  BY Refilled
<1>2. InPool' = (InPool \ {w}) \cup new
  BY <1>1, IdSets DEF InPool, PoolOf, TypeInv, TypeOK
<1>3. \A v \in WarmIds : spawning[v] # "no" => spawning'[v] # "no"
  BY <1>1, IdSets
<1> QED
  BY <1>1, <1>2, <1>3, IdSets DEF WarmTokens, InPool

\* Every entry of the pool holds a token, and a warm id that holds one is in the
\* pool, in use, or has a container.
THEOREM WarmTokensAlways == Spec => []WarmTokens
<1>1. Init => WarmTokens
  BY IdSets DEF Init, WarmTokens, InPool
<1>2. TypeInv /\ WarmInv /\ WarmTokens /\ [Next]_vars => WarmTokens'
  <2> SUFFICES ASSUME TypeInv, WarmInv, WarmTokens, [Next]_vars PROVE WarmTokens'
    OBVIOUS
  <2> USE DEF TypeInv, TypeOK, K8sTypeOK
  <2>1. ASSUME NEW w \in WarmIds, WarmSpawnFails(w) PROVE WarmTokens'
    BY <2>1, IdSets DEF WarmSpawnFails, SpawnThrows, WarmTokens, InPool, InUse
  <2>2. ASSUME NEW r \in Requests, AdoptEnds(r) PROVE WarmTokens'
    <3>1. req[r].sid \in Sessions /\ req[r].warm \in WarmIds
      BY <2>2 DEF AdoptEnds, ReqShape
    <3>2. req[r].warm \notin holders
      BY <2>2 DEF AdoptEnds, WarmInv, AdoptionsInv, AdoptingInv
    <3>3. \A v \in WarmIds : v # req[r].warm => pods'[v] = pods[v] /\ (InUse(v) => InUse(v)')
      BY <2>2, <3>1, IdSets DEF AdoptEnds, Rekey, Goto, InUse
    <3> QED
      BY <2>2, <3>1, <3>2, <3>3, IdSets DEF AdoptEnds, Rekey, poolVars, WarmTokens, InPool
  <2>3. ASSUME NEW r \in Requests, QueryAnswered(r) PROVE WarmTokens'
    <3>1. req[r].warm \in WarmIds /\ req[r].warm \notin InPool
      BY <2>3 DEF QueryAnswered, ReqShape, WarmInv, PoolInv, InUse
    <3>2. \A v \in WarmIds : v # req[r].warm => pods'[v] = pods[v] /\ (InUse(v) => InUse(v)')
      BY <2>3, <3>1, KillGives, IdSets DEF QueryAnswered, Finish, InUse
    <3> QED
      BY <2>3, <3>1, <3>2 DEF QueryAnswered, poolVars, WarmTokens, InPool
  <2>4. ASSUME NEW r \in Requests, QueryTimesOut(r) PROVE WarmTokens'
    <3>1. pods[req[r].warm] # None \/ spawning[req[r].warm] # "no"
      BY <2>4 DEF QueryTimesOut, WarmInv, PoolInv
    <3>2. \A v \in WarmIds : v # req[r].warm => (InUse(v) => InUse(v)')
      BY <2>4 DEF QueryTimesOut, Finish, InUse
    <3> QED
      BY <2>4, <3>1, <3>2 DEF QueryTimesOut, k8sVars, poolVars, WarmTokens, InPool
  <2>5. ASSUME NEW r \in Requests, NEW s \in Sessions, NEW p \in Profiles, CreateBegin(r, s, p)
        PROVE  WarmTokens'
    <3>1. ASSUME NEW w \in FindReady(p), AdoptEntry(r, s, w) PROVE WarmTokens'
      <4>1. w \in WarmIds /\ s \notin WarmIds
        BY ReadyOnes, IdSets
      <4>2. \A v \in WarmIds : InUse(v) => InUse(v)'
        BY <2>5, <3>1, IdSets DEF CreateBegin, AdoptEntry, Goto, InUse, Free
      <4> DEFINE held == (holders \ {w}) \cup {s}
      <4>3. Refill(InPool \ {w}, held) /\ UNCHANGED pods
        BY <3>1 DEF AdoptEntry
      <4>4. w \notin held /\ \A v \in WarmIds : v # w => (v \in held <=> v \in holders)
        BY <4>1
      <4> HIDE DEF held
      <4> QED
        BY <4>1, <4>2, <4>3, <4>4, RefillTokens
    <3>2. CASE /\ spawning' = [spawning EXCEPT ![s] = "called"]
               /\ holders' = holders \cup {s}
               /\ Goto(r, "spawning", s, None)
               /\ UNCHANGED <<pods, phase, label, patching, poolVars>>
      <4>1. \A v \in WarmIds : InUse(v) => InUse(v)'
        BY <2>5, <3>2, IdSets DEF CreateBegin, Goto, InUse, Free
      <4> QED
        <5>1. s \in Ids /\ s \notin WarmIds
          BY IdSets
        <5>2. WarmIdsKept
          BY <3>2, <4>1, <5>1, IdSets DEF poolVars, WarmIdsKept, InPool
        <5> QED
          BY <5>2, TokensKept
    <3> QED
      BY <2>5, <3>1, <3>2 DEF CreateBegin
  <2>6. ASSUME NEW r \in Requests, QueryBegin(r) PROVE WarmTokens'
    <3>1. PICK w \in FindReady(Generic) : Refill(InPool \ {w}, holders) /\ Goto(r, "querying", None, w)
      BY <2>6 DEF QueryBegin
    <3>2. w \in WarmIds
      BY ReadyOnes
    <3>3. InUse(w)' /\ \A v \in WarmIds : InUse(v) => InUse(v)'
      BY <2>6, <3>1, IdSets DEF QueryBegin, Goto, InUse, Free
    <3> QED
      BY <2>6, <3>1, <3>2, <3>3, RefillTokens DEF QueryBegin
  <2>7. CASE Restart
    <3>1. PICK new \in SUBSET Unused :
            /\ pool' = PoolOf({}, new)
            /\ spawning' = [i \in Ids |-> IF i \in new THEN "called" ELSE "no"]
            /\ holders' = new \cup {s \in Sessions : row'[s] \in {"starting", "ready"}}
      BY <2>7, RestartGives
    <3> QED
      BY <3>1, IdSets DEF PoolOf, WarmTokens, InPool
  <2> QED
    BY <2>1, <2>2, <2>3, <2>4, <2>5, <2>6, <2>7, KeepingSteps, TokensKept DEF Next, SpawnGoesOn, Continues, Arrives
<1> QED
  BY <1>1, <1>2, TypeInvariant, WarmInvariant, PTL DEF Spec
-----------------------------------------------------------------------------
(***************************************************************************)
(* What clients see of the steps: WarmPool implements SessionService.      *)
(***************************************************************************)
NewSteps == {"adopting", "spawning"}

\* The steps of queries, and of no request at all.
OffStage == {"free", "querying", "unheard"}

\* A create is suspended before the row of its session is made, a resume only
\* while there is one.
KnownInv ==
  \A r \in Requests : /\ req[r].pc \in NewSteps => row[req[r].sid] = "absent"
                      /\ req[r].pc \in {"respawning", "rewaiting"} => row[req[r].sid] # "absent"

SameRequests ==
  \A r \in Requests : \/ req'[r] = req[r]
                      \/ /\ req[r].pc \in OffStage /\ req[r].sid = None
                         /\ req'[r].pc \in OffStage /\ req'[r].sid = None

\* The ways a step can be seen.
Arrived(r, s) ==
  /\ req[r] = Free /\ Quiet(s) /\ row' = row
  /\ \/ row[s] = "absent" /\ \E step \in NewSteps, w \in WarmIds \cup {None} : Goto(r, step, s, w)
     \/ row[s] \in {"stopped", "error"} /\ Goto(r, "respawning", s, None)

Launched(r, s) ==
  /\ req[r].sid = s /\ row' = [row EXCEPT ![s] = "starting"]
  /\ \/ req[r].pc \in NewSteps /\ Goto(r, "waiting", s, None)
     \/ req[r].pc = "respawning" /\ Goto(r, "rewaiting", s, None)

Failed(r, s) ==
  /\ req[r].sid = s /\ Finish(r)
  /\ \/ req[r].pc \in {"spawning", "waiting"} /\ row' = [row EXCEPT ![s] = "absent"]
     \/ req[r].pc \in {"respawning", "rewaiting"} /\ row' = [row EXCEPT ![s] = "error"]

Ended(s) ==
  /\ row[s] # "absent" /\ SameRequests
  /\ \E st \in {"stopped", "error"} : row' = [row EXCEPT ![s] = st]

Unseen == row' = row /\ SameRequests

LEMMA GivesUp ==
  ASSUME TypeInv, NEW r \in Requests, GiveUp(r)
  PROVE  \E s \in Sessions : Failed(r, s)
BY DEF GiveUp, TypeInv, ReqShape, Failed, Waiting

LEMMA HeardAs ==
  ASSUME TypeInv, NEW i \in Ids, HearsReady(i) \/ HearsError(i)
  PROVE  \/ HearsReady(i)
         \/ \E s \in Sessions : Ended(s)
         \/ \E r \in Requests, s \in Sessions : Failed(r, s)
         \/ Unseen
<1>1. CASE /\ row' = IF i \in Sessions /\ row[i] # "absent" THEN [row EXCEPT ![i] = "error"] ELSE row
           /\ UNCHANGED req
  BY <1>1 DEF Ended, Unseen, SameRequests
<1>2. CASE \E r \in Requests : GiveUp(r)
  BY <1>2, GivesUp
<1> QED
  BY <1>1, <1>2 DEF HearsError

LEMMA StepsSeen ==
  ASSUME TypeInv, [Next]_vars
  PROVE  \/ \E r \in Requests, s \in Sessions : Arrived(r, s) \/ Launched(r, s) \/ Failed(r, s)
         \/ \E i \in Ids : HearsReady(i)
         \/ \E s \in Sessions : Ended(s)
         \/ Unseen
         \/ Restart
<1> USE DEF TypeInv
<1>1. ASSUME NEW r \in Requests, AdoptEnds(r) \/ Spawned(r)
      PROVE  \E s \in Sessions : Launched(r, s)
  BY <1>1 DEF AdoptEnds, Spawned, ReqShape, Launched, NewSteps
<1>2. ASSUME NEW r \in Requests, SpawnFailed(r) PROVE \E s \in Sessions : Failed(r, s)
  BY <1>2 DEF SpawnFailed, ReqShape, Failed
<1>3. ASSUME NEW r \in Requests, QueryAnswered(r) \/ QueryTimesOut(r) PROVE Unseen
  <2>1. req[r].pc \in OffStage /\ req[r].sid = None /\ Finish(r) /\ row' = row
    BY <1>3 DEF QueryAnswered, QueryTimesOut, ReqShape, OffStage
  <2> QED
    BY <2>1 DEF Finish, Free, Unseen, SameRequests, OffStage, TypeOK
<1>4. ASSUME NEW r \in Requests, NEW s \in Sessions, Arrives(r, s) PROVE Arrived(r, s)
  <2>1. CASE ResumeBegin(r, s)
    BY <2>1 DEF ResumeBegin, Arrived
  <2>2. ASSUME NEW p \in Profiles, CreateBegin(r, s, p) PROVE Arrived(r, s)
    <3>1. row[s] = "absent" /\ req[r] = Free /\ Quiet(s) /\ row' = row
      BY <2>2 DEF CreateBegin, Fresh
    <3>2. \E step \in NewSteps, w \in WarmIds \cup {None} : Goto(r, step, s, w)
      <4>1. ASSUME NEW w \in FindReady(p), AdoptEntry(r, s, w) PROVE Goto(r, "adopting", s, w) /\ w \in WarmIds
        BY <4>1 DEF AdoptEntry, FindReady, OfProfile
      <4> QED
        BY <2>2, <4>1 DEF CreateBegin, NewSteps
    <3> QED
      BY <3>1, <3>2 DEF Arrived
  <2> QED
    BY <1>4, <2>1, <2>2 DEF Arrives
<1>5. ASSUME NEW r \in Requests, QueryBegin(r) PROVE Unseen
  <2>1. req[r] = Free /\ row' = row /\ \E w : Goto(r, "querying", None, w)
    BY <1>5 DEF QueryBegin
  <2> QED
    BY <2>1 DEF Goto, Free, Unseen, SameRequests, OffStage, TypeOK
<1>6. ASSUME NEW s \in Sessions, Stop(s) PROVE Ended(s)
  BY <1>6 DEF Stop, Active, Ended, SameRequests
<1>7. ASSUME NEW n \in Ids, RunnerConnects(n) \/ RunnerAdopts(n)
      PROVE  \/ \E i \in Ids : HearsReady(i)
             \/ \E s \in Sessions : Ended(s)
             \/ \E r \in Requests, s \in Sessions : Failed(r, s)
             \/ Unseen
  <2>1. serves[n] \in Ids /\ (inbox[n] # None => inbox[n] \in Ids)
    BY IdSets DEF TypeOK
  <2> QED
    BY <1>7, <2>1, HeardAs DEF RunnerConnects, RunnerAdopts
<1>8. ASSUME NEW n \in Ids, SocketCloses(n) PROVE Unseen \/ \E s \in Sessions : Ended(s)
  <2>1. SameRequests
    BY <1>8 DEF SocketCloses, SameRequests, OffStage, TypeOK, ReqShape
  <2>2. row' = row \/ \E s \in Active : row' = [row EXCEPT ![s] = "stopped"]
    BY <1>8 DEF SocketCloses
  <2> QED
    BY <2>1, <2>2 DEF Unseen, Ended, Active
<1>9. ASSUME UNCHANGED <<row, req>> PROVE Unseen
  BY <1>9 DEF Unseen, SameRequests
<1>10. ASSUME NEW n \in Ids, PodStarts(n) \/ RunnerExits(n) \/ PodGone(n) \/ PatchSettles(n) PROVE Unseen
  BY <1>9, <1>10 DEF PodStarts, RunnerExits, PodGone, PatchSettles
<1>11. ASSUME NEW i \in Ids, SpawnGoesOn(i) PROVE Unseen
  BY <1>9, <1>11 DEF SpawnGoesOn, PodCreated, WarmSpawned, WarmSpawnFails
<1>12. CASE UNCHANGED vars
  BY <1>9, <1>12 DEF vars
<1>13. ASSUME NEW r \in Requests, ReadyTimesOut(r) PROVE \E s \in Sessions : Failed(r, s)
  BY <1>13, GivesUp DEF ReadyTimesOut
<1> QED
  BY <1>1, <1>2, <1>3, <1>4, <1>5, <1>6, <1>7, <1>8, <1>10, <1>11, <1>12, <1>13 DEF Next, Continues, PodActs

\* The request of a create or resume is the only one on its session.
LEMMA KnownStep ==
  ASSUME TypeInv, WarmInv, KnownInv, [Next]_vars
  PROVE  KnownInv'
<1> USE DEF TypeInv, TypeOK
<1>1. /\ \A q, r \in Requests : req[q].sid # None /\ req[q].sid = req[r].sid => q = r
      /\ \A r \in Requests : req[r].pc \in NewSteps \cup {"respawning", "rewaiting"} => req[r].sid \in Sessions
  BY DEF WarmInv, RequestsInv, NewSteps, ReqShape, Waiting
<1>2. ASSUME NEW r \in Requests, NEW s \in Sessions, Arrived(r, s) PROVE KnownInv'
  BY <1>2 DEF KnownInv, Arrived, Goto, NewSteps
<1>3. ASSUME NEW r \in Requests, NEW s \in Sessions, Launched(r, s) PROVE KnownInv'
  <2>1. \A q \in Requests \ {r} : req'[q] = req[q] /\ req[q].sid # s
    BY <1>1, <1>3, IdSets DEF Launched, Goto
  <2>2. req'[r].pc \in {"waiting", "rewaiting"} /\ req'[r].sid = s /\ row'[s] = "starting"
    BY <1>3 DEF Launched, Goto
  <2>3. \A o \in Sessions \ {s} : row'[o] = row[o]
    BY <1>3 DEF Launched
  <2> QED
    BY <1>1, <2>1, <2>2, <2>3 DEF KnownInv, NewSteps
<1>4. ASSUME NEW r \in Requests, NEW s \in Sessions, Failed(r, s) PROVE KnownInv'
  <2>1. \A q \in Requests \ {r} : req'[q] = req[q] /\ req[q].sid # s
    BY <1>1, <1>4, IdSets DEF Failed, Finish
  <2>2. req'[r].pc = "free"
    BY <1>4 DEF Failed, Finish, Free
  <2>3. \A o \in Sessions \ {s} : row'[o] = row[o]
    BY <1>4 DEF Failed
  <2> QED
    BY <1>1, <2>1, <2>2, <2>3 DEF KnownInv, NewSteps
<1>5. ASSUME NEW i \in Ids, HearsReady(i) PROVE KnownInv'
  <2>1. \A r \in Requests : req'[r] = req[r] \/ req'[r].pc = "free"
    BY <1>5 DEF HearsReady, Free
  <2>2. \A s \in Sessions : row'[s] = "absent" <=> row[s] = "absent"
    BY <1>5 DEF HearsReady
  <2> QED
    BY <1>1, <2>1, <2>2 DEF KnownInv, NewSteps
<1>6. ASSUME NEW s \in Sessions, Ended(s) PROVE KnownInv'
  <2>1. \A o \in Sessions : row'[o] = "absent" <=> row[o] = "absent"
    BY <1>6 DEF Ended
  <2> QED
    BY <1>1, <1>6, <2>1 DEF KnownInv, Ended, SameRequests, OffStage, NewSteps
<1>7. CASE Unseen
  BY <1>7 DEF KnownInv, Unseen, SameRequests, OffStage, NewSteps
<1>8. CASE Restart
  BY <1>8 DEF KnownInv, Restart, Free, NewSteps
<1> QED
  BY <1>2, <1>3, <1>4, <1>5, <1>6, <1>7, <1>8, StepsSeen

LEMMA OpOfStep ==
  /\ \A step \in OffStage : OpAt(step) = "none"
  /\ \A step \in NewSteps \cup {"waiting"} : OpAt(step) = "create"
  /\ \A step \in {"respawning", "rewaiting"} : OpAt(step) = "resume"
BY DEF OpAt, OffStage, NewSteps

LEMMA ViewOfStatus ==
  /\ ViewOf("absent") = "absent" /\ ViewOf("starting") = "starting" /\ ViewOf("ready") = "live"
  /\ ViewOf("stopped") = "ended" /\ ViewOf("error") = "ended"
BY DEF ViewOf

\* What a client is told of a request that arrives, goes on or is over.
LEMMA GotoAsks ==
  ASSUME TypeInv, NEW r \in Requests, NEW step, NEW s, NEW w, Goto(r, step, s, w)
  PROVE  Asked' = [q \in Requests |-> IF q = r THEN [op |-> OpAt(step), sid |-> s] ELSE Asked[q]]
<1>1. req' = [req EXCEPT ![r] = [pc |-> step, sid |-> s, warm |-> w]] /\ req \in [Requests -> [pc : Steps, sid : Sessions \cup {None}, warm : WarmIds \cup {None}]]
  BY DEF Goto, TypeInv, TypeOK
<1>2. \A q \in Requests : req'[q] = IF q = r THEN [pc |-> step, sid |-> s, warm |-> w] ELSE req[q]
  BY <1>1
<1>3. \A q \in Requests :
        [op |-> OpAt(req'[q].pc), sid |-> req'[q].sid] =
          IF q = r THEN [op |-> OpAt(step), sid |-> s] ELSE [op |-> OpAt(req[q].pc), sid |-> req[q].sid]
  BY <1>2
<1> QED
  BY <1>3 DEF Asked

LEMMA FreeIsIdle ==
  ASSUME NEW r \in Requests
  PROVE  /\ req[r] = Free => Asked[r] = SV!Idle
         /\ req'[r] = Free => Asked'[r] = SV!Idle
BY OpOfStep DEF Free, SV!Idle, Asked, OffStage

LEMMA FinishAnswers ==
  ASSUME TypeInv, NEW r \in Requests, Finish(r)
  PROVE  SV!Answer({r})
<1>1. req'[r] = Free /\ \A q \in Requests \ {r} : req'[q] = req[q]
  BY DEF TypeInv, TypeOK, Finish
<1>2. \A q \in Requests : Asked'[q] = IF q \in {r} THEN SV!Idle ELSE Asked[q]
  BY <1>1, FreeIsIdle DEF Asked
<1> QED
  BY <1>2 DEF SV!Answer, Asked

LEMMA RequestsSame ==
  ASSUME SameRequests
  PROVE  UNCHANGED Asked
<1>1. \A r \in Requests : [op |-> OpAt(req'[r].pc), sid |-> req'[r].sid] = [op |-> OpAt(req[r].pc), sid |-> req[r].sid]
  BY OpOfStep DEF SameRequests
<1> QED
  BY <1>1 DEF Asked

\* A status that is written shows, if there is a row.
LEMMA WriteShows ==
  ASSUME TypeInv, NEW s \in Sessions, NEW st \in {"starting", "ready", "stopped", "error"},
         row' = [row EXCEPT ![s] = st], row[s] # "absent"
  PROVE  SV!Show(s, ViewOf(st))
<1>1. \A t \in Sessions : View'[t] = IF t = s /\ View[t] # "absent" THEN ViewOf(st) ELSE View[t]
  BY ViewOfStatus DEF TypeInv, TypeOK, View
<1> QED
  BY <1>1 DEF SV!Show, View

LEMMA ViewsStay ==
  ASSUME UNCHANGED row
  PROVE  UNCHANGED View
BY DEF View
-----------------------------------------------------------------------------
LEMMA ArrivedSimulated ==
  ASSUME TypeInv, NEW r \in Requests, NEW s \in Sessions, Arrived(r, s)
  PROVE  \E op \in {"create", "resume"} : SV!Ask(r, op, s)
<1>1. Asked[r] = SV!Idle /\ UNCHANGED View
  BY FreeIsIdle, ViewsStay DEF Arrived
<1>2. \A q \in Requests : Asked[q].sid # s
  BY DEF Arrived, Quiet, Asked
<1>3. CASE row[s] = "absent" /\ \E step \in NewSteps, w \in WarmIds \cup {None} : Goto(r, step, s, w)
  <2>1. PICK step \in NewSteps, w \in WarmIds \cup {None} : Goto(r, step, s, w)
    BY <1>3
  <2>2. Asked' = [q \in Requests |-> IF q = r THEN [op |-> "create", sid |-> s] ELSE Asked[q]]
    BY <2>1, GotoAsks, OpOfStep
  <2>3. View[s] = "absent"
    BY <1>3, ViewOfStatus DEF View
  <2> QED
    BY <1>1, <1>2, <2>2, <2>3 DEF SV!Ask, SV!MayAsk
<1>4. CASE row[s] \in {"stopped", "error"} /\ Goto(r, "respawning", s, None)
  <2>1. Asked' = [q \in Requests |-> IF q = r THEN [op |-> "resume", sid |-> s] ELSE Asked[q]]
    BY <1>4, GotoAsks, OpOfStep
  <2>2. View[s] = "ended"
    BY <1>4, ViewOfStatus DEF View
  <2> QED
    BY <1>1, <2>1, <2>2 DEF SV!Ask, SV!MayAsk
<1> QED
  BY <1>3, <1>4 DEF Arrived

LEMMA LaunchedSimulated ==
  ASSUME TypeInv, KnownInv, NEW r \in Requests, NEW s \in Sessions, Launched(r, s)
  PROVE  SV!Launch(r)
<1>1. Asked[r].sid = s
  BY DEF Asked, Launched
<1>2. ASSUME NEW step, Goto(r, step, s, None), OpAt(step) = OpAt(req[r].pc) PROVE UNCHANGED Asked
  <2>1. Asked' = [q \in Requests |-> IF q = r THEN [op |-> OpAt(step), sid |-> s] ELSE Asked[q]]
    BY <1>2, GotoAsks
  <2>2. Asked[r] = [op |-> OpAt(step), sid |-> s]
    BY <1>2 DEF Asked, Launched
  <2>3. \A q \in Requests : Asked'[q] = Asked[q]
    BY <2>1, <2>2
  <2> QED
    BY <2>3 DEF Asked
<1>3. CASE req[r].pc \in NewSteps /\ Goto(r, "waiting", s, None)
  <2>1. UNCHANGED Asked /\ Asked[r].op = "create"
    BY <1>2, <1>3, OpOfStep DEF Asked
  <2>2. View[s] = "absent"
    BY <1>3, ViewOfStatus DEF KnownInv, Launched, View
  <2>3. \A t \in Sessions : View'[t] = IF t = s THEN "starting" ELSE View[t]
    BY ViewOfStatus DEF Launched, View, TypeInv, TypeOK
  <2>4. View' = [t \in Sessions |-> IF t = s THEN "starting" ELSE View[t]]
    BY <2>3 DEF View
  <2> QED
    BY <1>1, <2>1, <2>2, <2>4 DEF SV!Launch, SV!Pending
<1>4. CASE req[r].pc = "respawning" /\ Goto(r, "rewaiting", s, None)
  <2>1. UNCHANGED Asked /\ Asked[r].op = "resume"
    BY <1>2, <1>4, OpOfStep DEF Asked
  <2>2. SV!Show(s, "starting")
    BY <1>4, WriteShows, ViewOfStatus DEF KnownInv, Launched
  <2> QED
    BY <1>1, <2>1, <2>2 DEF SV!Launch, SV!Pending
<1> QED
  BY <1>3, <1>4 DEF Launched

LEMMA FailedSimulated ==
  ASSUME TypeInv, KnownInv, NEW r \in Requests, NEW s \in Sessions, Failed(r, s)
  PROVE  SV!UndoCreate(r) \/ SV!End(r)
<1>1. SV!Answer({r}) /\ Asked[r].sid = s /\ Asked[r].op = OpAt(req[r].pc)
  BY FinishAnswers DEF Failed, Asked
<1>2. CASE req[r].pc \in {"spawning", "waiting"} /\ row' = [row EXCEPT ![s] = "absent"]
  <2>1. Asked[r].op = "create"
    BY <1>1, <1>2, OpOfStep DEF NewSteps
  <2>2. \A t \in Sessions : View'[t] = IF t = s THEN "absent" ELSE View[t]
    BY <1>2, ViewOfStatus DEF View, TypeInv, TypeOK
  <2>3. SV!Drop(s)
    BY <2>2 DEF SV!Drop, View
  <2> QED
    BY <1>1, <2>1, <2>3 DEF SV!UndoCreate, SV!Pending
<1>3. CASE req[r].pc \in {"respawning", "rewaiting"} /\ row' = [row EXCEPT ![s] = "error"]
  <2>1. Asked[r].op = "resume"
    BY <1>1, <1>3, OpOfStep
  <2>2. SV!Show(s, "ended")
    BY <1>3, WriteShows, ViewOfStatus DEF KnownInv, Failed
  <2> QED
    BY <1>1, <2>1, <2>2 DEF SV!End, SV!Pending
<1> QED
  BY <1>2, <1>3 DEF Failed

\* Who waits for the session of a runner that reports ready is answered; a runner
\* of the pool reports to no client.
LEMMA HeardSimulated ==
  ASSUME TypeInv, NEW i \in Ids, HearsReady(i)
  PROVE  SV!Next \/ UNCHANGED <<View, Asked>>
<1> DEFINE W == {r \in Requests : req[r].pc \in Waiting /\ req[r].sid = i}
<1>1. \A r \in Requests : req'[r] = IF r \in W THEN Free ELSE req[r]
  BY DEF HearsReady
<1>2. \A r \in Requests : Asked'[r] = IF r \in W THEN SV!Idle ELSE Asked[r]
  BY <1>1, FreeIsIdle DEF Asked
<1>3. SV!Answer(W)
  BY <1>2 DEF SV!Answer, Asked
<1>4. CASE i \in Sessions
  <2>1. W \in SUBSET {r \in Requests : Asked[r].op \in {"create", "resume"} /\ Asked[r].sid = i}
    BY OpOfStep DEF Asked, Waiting
  <2>2. SV!Show(i, "live")
    <3>1. CASE row[i] = "absent"
      <4>1. UNCHANGED View /\ View[i] = "absent"
        BY <3>1, <1>4, ViewsStay, ViewOfStatus DEF HearsReady, View
      <4>2. \A t \in Sessions : View'[t] = IF t = i /\ View[t] # "absent" THEN "live" ELSE View[t]
        BY <4>1
      <4> QED
        BY <4>2 DEF SV!Show, View
    <3>2. CASE row[i] # "absent"
      BY <1>4, <3>2, WriteShows, ViewOfStatus DEF HearsReady
    <3> QED
      BY <3>1, <3>2
  <2>3. SV!Serve(i)
    <3> HIDE DEF W
    <3> QED
      BY <1>3, <2>1, <2>2 DEF SV!Serve
  <2> QED
    BY <1>4, <2>3 DEF SV!Next
<1>5. CASE i \notin Sessions
  <2>1. W = {}
    BY <1>5 DEF TypeInv, ReqShape, Waiting
  <2>2. \A r \in Requests : Asked'[r] = Asked[r]
    BY <1>2, <2>1
  <2>3. UNCHANGED View
    BY <1>5, ViewsStay DEF HearsReady
  <2> QED
    BY <2>2, <2>3 DEF Asked
<1> QED
  BY <1>4, <1>5

LEMMA RestartSimulated ==
  ASSUME TypeInv, Restart
  PROVE  SV!Restart
<1>1. SV!Answer(Requests)
  <2>1. \A r \in Requests : Asked'[r] = IF r \in Requests THEN SV!Idle ELSE Asked[r]
    BY FreeIsIdle DEF Restart
  <2> QED
    BY <2>1 DEF SV!Answer, Asked
<1>2. ASSUME NEW s \in Sessions
      PROVE  /\ View'[s] \in {"absent", "starting", "live", "ended"}
             /\ View'[s] = "absent" <=> View[s] = "absent"
             /\ View'[s] = "starting" => View[s] = "starting"
             /\ View'[s] = "live" => View[s] # "starting"
  <2>1. View[s] = ViewOf(row[s]) /\ View'[s] = ViewOf(row'[s])
    BY DEF View
  <2>2. row[s] \in {"absent", "starting", "ready", "stopped", "error"}
    BY DEF TypeInv, TypeOK
  <2>3. \/ row'[s] = row[s]
        \/ row[s] \in {"stopped", "error"} /\ row'[s] = "ready"
        \/ row[s] \in {"starting", "ready"} /\ row'[s] = "stopped"
    BY DEF Restart, Reconciled, Active
  <2> QED
    BY <2>1, <2>2, <2>3, ViewOfStatus
<1>3. View' \in [Sessions -> {"absent", "starting", "live", "ended"}]
  BY <1>2 DEF View
<1> QED
  BY <1>1, <1>2, <1>3 DEF SV!Restart

LEMMA StepSimulated ==
  ASSUME TypeInv, KnownInv, [Next]_vars
  PROVE  [SV!Next]_(SV!serviceVars)
<1>1. ASSUME NEW r \in Requests, NEW s \in Sessions, Arrived(r, s) PROVE SV!Next
  BY <1>1, ArrivedSimulated DEF SV!Next
<1>2. ASSUME NEW r \in Requests, NEW s \in Sessions, Launched(r, s) PROVE SV!Next
  BY <1>2, LaunchedSimulated DEF SV!Next
<1>3. ASSUME NEW r \in Requests, NEW s \in Sessions, Failed(r, s) PROVE SV!Next
  BY <1>3, FailedSimulated DEF SV!Next
<1>4. ASSUME NEW s \in Sessions, Ended(s) PROVE SV!Next
  <2>1. UNCHANGED Asked
    BY <1>4, RequestsSame DEF Ended
  <2>2. SV!Show(s, "ended")
    BY <1>4, WriteShows, ViewOfStatus DEF Ended
  <2> QED
    BY <2>1, <2>2 DEF SV!Next, SV!Break
<1>5. CASE Unseen
  BY <1>5, RequestsSame, ViewsStay DEF Unseen, SV!serviceVars
<1>6. CASE Restart
  BY <1>6, RestartSimulated DEF SV!Next
<1>7. ASSUME NEW i \in Ids, HearsReady(i) PROVE [SV!Next]_(SV!serviceVars)
  BY <1>7, HeardSimulated DEF SV!serviceVars
<1> QED
  BY <1>1, <1>2, <1>3, <1>4, <1>5, <1>6, <1>7, StepsSeen

LEMMA InitSimulated == Init => SV!Init /\ KnownInv
<1> SUFFICES ASSUME Init PROVE SV!Init /\ KnownInv
  OBVIOUS
<1>1. View = [s \in Sessions |-> "absent"]
  BY ViewOfStatus DEF Init, View
<1>2. \A r \in Requests : Asked[r] = SV!Idle
  BY FreeIsIdle DEF Init
<1>3. Asked = [r \in Requests |-> SV!Idle]
  BY <1>2 DEF Asked
<1> QED
  BY <1>1, <1>3 DEF Init, SV!Init, KnownInv, Free, NewSteps

\* The orchestrator with a warm pool implements the service for any number of
\* sessions, warm ids, profiles, requests and restarts and with every fault: a
\* client cannot tell an adopted runner from one that was started for it.
THEOREM WarmServiceImplemented == Spec => WarmImplementsService
<1>1. TypeInv /\ WarmInv /\ KnownInv /\ [Next]_vars => KnownInv'
  BY KnownStep
<1>2. TypeInv /\ KnownInv /\ [Next]_vars => [SV!Next]_(SV!serviceVars)
  BY StepSimulated
<1> QED
  BY <1>1, <1>2, InitSimulated, TypeInvariant, WarmInvariant, PTL DEF Spec, WarmImplementsService, SV!Spec
=================================================================================
