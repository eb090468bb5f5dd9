---------------------------- MODULE WarmPoolProofs ----------------------------
(***************************************************************************)
(* Theorems about WarmPool, for any sessions, warm ids, profiles, targets, *)
(* requests, faults and number of restarts.                                *)
(***************************************************************************)
EXTENDS WarmPool, TLAPS

\* What a request that has not finished knows of its session or its runner.
ReqShape ==
  \A r \in Requests :
    /\ req[r].pc = "adopting" => req[r].sid \in Sessions /\ req[r].warm \in WarmIds
    /\ req[r].pc \in {"spawning", "respawning"} \cup Waiting => req[r].sid \in Sessions /\ req[r].warm = None
    /\ req[r].pc \in {"querying", "unheard"} => req[r].sid = None /\ req[r].warm \in WarmIds
    /\ req[r].pc = "free" => req[r] = Free

TypeInv == TypeOK /\ ReqShape
-----------------------------------------------------------------------------
(***************************************************************************)
(* Types.                                                                  *)
(***************************************************************************)

\* What refill() adds to the pool are ids that nothing refers to.
LEMMA Refilled ==
  ASSUME NEW entries, NEW held, Refill(entries, held)
  PROVE  \E new \in SUBSET Unused :
           /\ refilling => new = {}
           /\ pool' = PoolOf(entries, new)
           /\ refilling' = (refilling \/ new # {})
           /\ spawning' = [i \in Ids |-> IF i \in new THEN "called" ELSE spawning[i]]
           /\ holders' = held \cup new
BY DEF Refill, Fills

LEMMA IdSets == /\ Sessions \subseteq Ids /\ WarmIds \subseteq Ids /\ Unused \subseteq WarmIds
                /\ \A s \in Sessions : s \notin WarmIds
                /\ None \notin Ids /\ None \notin Sessions /\ None \notin WarmIds
BY IdsAssumption DEF Ids, Unused

LEMMA RefillType ==
  ASSUME TypeOK, NEW entries, NEW held \in SUBSET Ids, Refill(entries, held)
  PROVE  /\ pool' \in [WarmIds -> {"out", "spawning", "ready"}] /\ refilling' \in BOOLEAN
         /\ spawning' \in [Ids -> {"no", "called", "created"}] /\ holders' \subseteq Ids
<1>1. PICK new \in SUBSET Unused :
           /\ pool' = PoolOf(entries, new)
           /\ refilling' = (refilling \/ new # {})
           /\ spawning' = [i \in Ids |-> IF i \in new THEN "called" ELSE spawning[i]]
           /\ holders' = held \cup new
  BY Refilled
<1>2. pool' \in [WarmIds -> {"out", "spawning", "ready"}]
  BY <1>1 DEF PoolOf, TypeOK
<1>3. spawning' \in [Ids -> {"no", "called", "created"}]
  BY <1>1 DEF TypeOK, K8sTypeOK
<1> QED
  BY <1>1, <1>2, <1>3, IdSets DEF TypeOK

LEMMA TypeInit == Init => TypeInv
<1> SUFFICES ASSUME Init PROVE TypeInv
  OBVIOUS
<1>1. K8sTypeOK
  BY IdSets DEF Init, K8sInit, K8sTypeOK
<1>2. req \in [Requests -> [pc : Steps, sid : Sessions \cup {None}, warm : WarmIds \cup {None}]] /\ ReqShape
  BY DEF Init, Free, Steps, Waiting, ReqShape
<1>3. restarts \in 0 .. MaxRestarts
  BY PoolAssumption DEF Init
<1> QED
  BY <1>1, <1>2, <1>3, IdSets DEF Init, TypeInv, TypeOK

\* A request goes on to an await of the shape that goes with it, or is over.
ReqType ==
  /\ req' \in [Requests -> [pc : Steps, sid : Sessions \cup {None}, warm : WarmIds \cup {None}]]
  /\ ReqShape'

LEMMA WentOn ==
  ASSUME TypeInv, NEW r \in Requests, NEW step \in Steps \ {"free"}, NEW s \in Sessions \cup {None},
         NEW w \in WarmIds \cup {None}, Goto(r, step, s, w),
         step = "adopting" => s # None /\ w # None,
         step \in {"spawning", "respawning"} \cup Waiting => s # None /\ w = None,
         step \in {"querying", "unheard"} => s = None /\ w # None
  PROVE  ReqType
BY DEF ReqType, TypeInv, TypeOK, ReqShape, Goto, Free, Steps, Waiting

LEMMA Freed ==
  ASSUME TypeInv, NEW Q \in SUBSET Requests,
         req' = [r \in Requests |-> IF r \in Q THEN Free ELSE req[r]]
  PROVE  ReqType
BY DEF ReqType, TypeInv, TypeOK, ReqShape, Free, Steps, Waiting

LEMMA Finished ==
  ASSUME TypeInv, NEW r \in Requests, Finish(r)
  PROVE  req' = [q \in Requests |-> IF q \in {r} THEN Free ELSE req[q]] /\ ReqType
<1>1. req' = [q \in Requests |-> IF q \in {r} THEN Free ELSE req[q]]
  BY DEF Finish, TypeInv, TypeOK
<1> QED
  BY <1>1, Freed

\* What the actions of K8sManager give.
LEMMA K8sTypes ==
  ASSUME TypeOK, NEW i \in Ids, NEW mayFail
  PROVE  /\ PodIsCreated(i) => K8sTypeOK'
         /\ SpawnReturns(i) => K8sTypeOK'
         /\ SpawnThrows(i, mayFail) => K8sTypeOK'
         /\ Kill(i, mayFail) /\ spawning' \in [Ids -> {"no", "called", "created"}] => K8sTypeOK'
         /\ PatchEnds(i, mayFail) => K8sTypeOK'
         /\ \A s \in Sessions : Rekey(i, s) => K8sTypeOK'
<1> USE DEF TypeOK, K8sTypeOK
<1>1. PodIsCreated(i) => K8sTypeOK'
  BY DEF PodIsCreated
<1>2. SpawnReturns(i) => K8sTypeOK'
  BY DEF SpawnReturns
<1>3. SpawnThrows(i, mayFail) => K8sTypeOK'
  BY DEF SpawnThrows
<1>4. Kill(i, mayFail) /\ spawning' \in [Ids -> {"no", "called", "created"}] => K8sTypeOK'
  BY ZenonT(40), SMTT(30) DEF Kill, Deleted
<1>5. PatchEnds(i, mayFail) => K8sTypeOK'
  BY IdSets DEF PatchEnds
<1>6. ASSUME NEW s \in Sessions PROVE Rekey(i, s) => K8sTypeOK'
  BY IdSets DEF Rekey
<1> QED
  BY <1>1, <1>2, <1>3, <1>4, <1>5, <1>6

LEMMA TypeSpawn ==
  ASSUME TypeInv, NEW i \in Ids, SpawnGoesOn(i)
  PROVE  TypeInv'
<1>1. CASE PodCreated(i)
  BY <1>1, K8sTypes DEF TypeInv, TypeOK, ReqShape, PodCreated, poolVars
<1>2. CASE i \in WarmIds /\ WarmSpawned(i)
  BY <1>2, K8sTypes DEF TypeInv, TypeOK, ReqShape, WarmSpawned, SpawnSettled, socketVars
<1>3. CASE i \in WarmIds /\ WarmSpawnFails(i)
  <2>1. K8sTypeOK'
    BY <1>3, K8sTypes DEF TypeInv, WarmSpawnFails
  <2> QED
    BY <1>3, <2>1 DEF TypeInv, TypeOK, ReqShape, WarmSpawnFails, SpawnSettled, socketVars
<1> QED
  BY <1>1, <1>2, <1>3 DEF SpawnGoesOn

LEMMA TypeCreate ==
  ASSUME TypeInv, NEW r \in Requests, NEW s \in Sessions, NEW p \in Profiles, CreateBegin(r, s, p)
  PROVE  TypeInv'
<1>1. CASE \E w \in FindReady(p) : AdoptEntry(r, s, w)
  <2>1. PICK w \in WarmIds : AdoptEntry(r, s, w)
    BY <1>1 DEF FindReady, OfProfile
  <2>2. ReqType
    BY <2>1, WentOn, IdSets DEF AdoptEntry, Steps, Waiting
  <2>3. (holders \ {w}) \cup {s} \in SUBSET Ids
    BY IdSets DEF TypeInv, TypeOK
  <2>4. /\ pool' \in [WarmIds -> {"out", "spawning", "ready"}] /\ refilling' \in BOOLEAN
        /\ spawning' \in [Ids -> {"no", "called", "created"}] /\ holders' \subseteq Ids
    BY <2>1, <2>3, RefillType DEF TypeInv, AdoptEntry
  <2> QED
    BY <2>1, <2>2, <2>4 DEF TypeInv, TypeOK, K8sTypeOK, ReqType, AdoptEntry, CreateBegin, socketVars
<1>2. CASE /\ spawning' = [spawning EXCEPT ![s] = "called"]
           /\ holders' = holders \cup {s}
           /\ Goto(r, "spawning", s, None)
           /\ UNCHANGED <<pods, phase, label, patching, poolVars>>
  <2>1. ReqType
    BY <1>2, WentOn, IdSets DEF Steps, Waiting
  <2> QED
    BY <1>2, <2>1, IdSets DEF TypeInv, TypeOK, K8sTypeOK, ReqType, CreateBegin, poolVars, socketVars
<1> QED
  BY <1>1, <1>2 DEF CreateBegin

LEMMA TypeAdopts ==
  ASSUME TypeInv, NEW r \in Requests, AdoptEnds(r)
  PROVE  TypeInv'
<1> DEFINE s == req[r].sid
           w == req[r].warm
<1>1. s \in Sessions /\ w \in WarmIds
  BY DEF TypeInv, ReqShape, AdoptEnds
<1>2. ReqType
  BY <1>1, WentOn, IdSets DEF AdoptEnds, Steps, Waiting
<1>3. K8sTypeOK'
  BY <1>1, K8sTypes, IdSets DEF AdoptEnds, TypeInv
<1>4. /\ inbox' \in [Ids -> Sessions \cup {None}] /\ sock' \in [Ids -> Ids \cup {None}]
      /\ connections' \in [Ids -> Ids \cup {None}]
  BY <1>1, IdSets DEF AdoptEnds, HandOver, TypeInv, TypeOK
<1>5. row' \in [Sessions -> {"absent", "starting", "ready", "stopped", "error"}]
  BY <1>1 DEF AdoptEnds, TypeInv, TypeOK
<1> QED
  BY <1>2, <1>3, <1>4, <1>5 DEF TypeInv, TypeOK, ReqType, AdoptEnds, poolVars

LEMMA TypeGiveUp ==
  ASSUME TypeInv, NEW r \in Requests, GiveUp(r)
  PROVE  /\ K8sTypeOK' /\ ReqType /\ holders' \subseteq Ids
         /\ row' \in [Sessions -> {"absent", "starting", "ready", "stopped", "error"}]
         /\ req[r].sid \in Sessions
<1>1. req[r].sid \in Sessions
  BY DEF TypeInv, ReqShape, GiveUp
<1>2. K8sTypeOK'
  BY <1>1, K8sTypes, IdSets DEF TypeInv, TypeOK, K8sTypeOK, GiveUp
<1> QED
  BY <1>1, <1>2, Finished DEF TypeInv, TypeOK, GiveUp

LEMMA TypeRequest ==
  ASSUME TypeInv, NEW r \in Requests,
         Spawned(r) \/ SpawnFailed(r) \/ ReadyTimesOut(r) \/ QueryAnswered(r) \/ QueryTimesOut(r)
  PROVE  TypeInv'
<1>1. CASE Spawned(r)
  <2>1. req[r].sid \in Sessions
    BY <1>1 DEF TypeInv, ReqShape, Spawned
  <2>2. ReqType
    BY <1>1, <2>1, WentOn, IdSets DEF Spawned, Steps, Waiting
  <2>3. K8sTypeOK'
    BY <1>1, <2>1, K8sTypes, IdSets DEF Spawned, TypeInv
  <2> QED
    BY <1>1, <2>1, <2>2, <2>3 DEF TypeInv, TypeOK, ReqType, Spawned, poolVars, socketVars
<1>2. CASE SpawnFailed(r)
  <2>1. req[r].sid \in Sessions
    BY <1>2 DEF TypeInv, ReqShape, SpawnFailed
  <2>2. ReqType
    BY <1>2, Finished DEF SpawnFailed
  <2>3. K8sTypeOK'
    BY <1>2, <2>1, K8sTypes, IdSets DEF SpawnFailed, TypeInv
  <2> QED
    BY <1>2, <2>1, <2>2, <2>3 DEF TypeInv, TypeOK, ReqType, SpawnFailed, poolVars, socketVars
<1>3. CASE ReadyTimesOut(r)
  BY <1>3, TypeGiveUp DEF TypeInv, TypeOK, ReqType, ReadyTimesOut, poolVars, socketVars
<1>4. CASE QueryAnswered(r)
  <2>1. req[r].warm \in WarmIds
    BY <1>4 DEF TypeInv, ReqShape, QueryAnswered
  <2>2. ReqType
    BY <1>4, Finished DEF QueryAnswered
  <2>3. K8sTypeOK'
    BY <1>4, <2>1, K8sTypes, IdSets DEF QueryAnswered, TypeInv, TypeOK, K8sTypeOK
  <2> QED
    BY <1>4, <2>2, <2>3 DEF TypeInv, TypeOK, ReqType, QueryAnswered, poolVars, socketVars
<1>5. CASE QueryTimesOut(r)
  <2>1. ReqType
    BY <1>5, Finished DEF QueryTimesOut
  <2> QED
    BY <1>5, <2>1 DEF TypeInv, TypeOK, K8sTypeOK, ReqType, QueryTimesOut, k8sVars, poolVars, socketVars
<1> QED
  BY <1>1, <1>2, <1>3, <1>4, <1>5

LEMMA TypeArrives ==
  ASSUME TypeInv,
         \/ \E s \in Sessions : Stop(s)
         \/ \E r \in Requests : QueryBegin(r) \/ \E s \in Sessions : ResumeBegin(r, s)
  PROVE  TypeInv'
<1>1. ASSUME NEW s \in Sessions, Stop(s) PROVE TypeInv'
  <2>1. K8sTypeOK'
    BY <1>1, K8sTypes, IdSets DEF Stop, TypeInv, TypeOK, K8sTypeOK
  <2> QED
    BY <1>1, <2>1 DEF TypeInv, TypeOK, ReqShape, Stop, poolVars, socketVars
<1>2. ASSUME NEW r \in Requests, NEW s \in Sessions, ResumeBegin(r, s) PROVE TypeInv'
  <2>1. K8sTypeOK'
    BY <1>2, K8sTypes, IdSets DEF ResumeBegin, TypeInv, TypeOK, K8sTypeOK
  <2>2. ReqType
    BY <1>2, WentOn, IdSets DEF ResumeBegin, Steps, Waiting
  <2> QED
    BY <1>2, <2>1, <2>2, IdSets DEF TypeInv, TypeOK, ReqType, ResumeBegin, poolVars, socketVars
<1>3. ASSUME NEW r \in Requests, QueryBegin(r) PROVE TypeInv'
  <2>1. PICK w \in WarmIds : Refill(InPool \ {w}, holders) /\ Goto(r, "querying", None, w)
    BY <1>3 DEF QueryBegin, FindReady, OfProfile
  <2>2. ReqType
    BY <2>1, WentOn, IdSets DEF Steps, Waiting
  <2>3. /\ pool' \in [WarmIds -> {"out", "spawning", "ready"}] /\ refilling' \in BOOLEAN
        /\ spawning' \in [Ids -> {"no", "called", "created"}] /\ holders' \subseteq Ids
    BY <2>1, RefillType DEF TypeInv, TypeOK
  <2> QED
    BY <1>3, <2>2, <2>3 DEF TypeInv, TypeOK, K8sTypeOK, ReqType, QueryBegin, socketVars
<1> QED
  BY <1>1, <1>2, <1>3

\* What the bridge does when it hears of id i.
HearsTypes ==
  /\ K8sTypeOK' /\ ReqType /\ holders' \subseteq Ids /\ refilling' \in BOOLEAN
  /\ row' \in [Sessions -> {"absent", "starting", "ready", "stopped", "error"}]
  /\ pool' \in [WarmIds -> {"out", "spawning", "ready"}]

LEMMA TypeSame ==
  ASSUME TypeInv, UNCHANGED <<k8sVars, poolVars, holders, row, req>>
  PROVE  HearsTypes
BY DEF HearsTypes, ReqType, TypeInv, TypeOK, K8sTypeOK, ReqShape, k8sVars, poolVars

LEMMA TypeHears ==
  ASSUME TypeInv, NEW i \in Ids, HearsReady(i) \/ HearsError(i)
  PROVE  HearsTypes
<1>1. CASE HearsReady(i)
  <2>1. ReqType
    <3>1. req' = [r \in Requests |->
                    IF r \in {q \in Requests : req[q].pc \in Waiting /\ req[q].sid = i} THEN Free ELSE req[r]]
      BY <1>1 DEF HearsReady
    <3> QED
      BY <3>1, Freed
  <2>2. row' \in [Sessions -> {"absent", "starting", "ready", "stopped", "error"}]
    BY <1>1 DEF HearsReady, TypeInv, TypeOK
  <2>3. pool' \in [WarmIds -> {"out", "spawning", "ready"}]
    BY <1>1 DEF HearsReady, TypeInv, TypeOK
  <2> QED
    BY <1>1, <2>1, <2>2, <2>3 DEF HearsReady, HearsTypes, TypeInv, TypeOK, K8sTypeOK, k8sVars
<1>2. CASE /\ row' = IF i \in Sessions /\ row[i] # "absent" THEN [row EXCEPT ![i] = "error"] ELSE row
           /\ UNCHANGED <<k8sVars, holders, poolVars, req>>
  BY <1>2 DEF HearsTypes, ReqType, TypeInv, TypeOK, K8sTypeOK, ReqShape, k8sVars, poolVars
<1>3. CASE \E r \in Requests : GiveUp(r) /\ UNCHANGED poolVars
  BY <1>3, TypeGiveUp DEF HearsTypes, TypeInv, TypeOK, poolVars
<1> QED
  BY <1>1, <1>2, <1>3 DEF HearsError

LEMMA TypeRunner ==
  ASSUME TypeInv, NEW n \in Ids, RunnerConnects(n) \/ RunnerAdopts(n)
  PROVE  TypeInv'
<1>1. serves[n] \in Ids /\ (inbox[n] # None => inbox[n] \in Ids)
  BY IdSets DEF TypeInv, TypeOK
<1>2. CASE RunnerConnects(n)
  <2>1. HearsTypes
    BY <1>1, <1>2, TypeHears DEF RunnerConnects
  <2> QED
    BY <1>2, <2>1 DEF TypeInv, TypeOK, ReqType, HearsTypes, RunnerConnects
<1>3. CASE RunnerAdopts(n)
  <2>1. HearsTypes
    BY <1>1, <1>3, TypeHears DEF RunnerAdopts
  <2> QED
    BY <1>1, <1>3, <2>1 DEF TypeInv, TypeOK, ReqType, HearsTypes, RunnerAdopts
<1> QED
  BY <1>2, <1>3

LEMMA TypePod ==
  ASSUME TypeInv, NEW n \in Ids,
         PodStarts(n) \/ RunnerExits(n) \/ PodGone(n) \/ PatchSettles(n) \/ SocketCloses(n)
  PROVE  TypeInv'
<1>1. CASE PodStarts(n) \/ RunnerExits(n) \/ PodGone(n)
  BY <1>1 DEF PodStarts, RunnerExits, PodGone, TypeInv, TypeOK, K8sTypeOK, ReqShape, poolVars, socketVars
<1>2. CASE PatchSettles(n)
  <2>1. K8sTypeOK'
    BY <1>2, K8sTypes DEF PatchSettles, TypeInv
  <2> QED
    BY <1>2, <2>1 DEF PatchSettles, TypeInv, TypeOK, ReqShape, poolVars, socketVars
<1>3. CASE SocketCloses(n)
  <2>1. ReqType
    BY <1>3 DEF SocketCloses, ReqType, TypeInv, TypeOK, ReqShape, Steps, Waiting
  <2>2. row' \in [Sessions -> {"absent", "starting", "ready", "stopped", "error"}]
    BY <1>3 DEF SocketCloses, TypeInv, TypeOK
  <2>3. /\ sock' \in [Ids -> Ids \cup {None}] /\ connections' \in [Ids -> Ids \cup {None}]
        /\ inbox' \in [Ids -> Sessions \cup {None}] /\ serves' \in [Ids -> Ids]
    BY <1>3, IdSets DEF SocketCloses, TypeInv, TypeOK
  <2> QED
    BY <1>3, <2>1, <2>2, <2>3 DEF SocketCloses, TypeInv, TypeOK, K8sTypeOK, ReqType, k8sVars, poolVars
<1> QED
  BY <1>1, <1>2, <1>3

\* What a restart leaves: the pods found by their labels, and the new pool.
LEMMA RestartGives ==
  ASSUME TypeInv, Restart
  PROVE  /\ pods' \in [Ids -> Ids \cup {None}]
         /\ \A i \in Ids : pods'[i] # None =>
              i \in Sessions /\ label[pods'[i]] = i /\ phase[pods'[i]] \in {"running", "terminating"}
         /\ \E new \in SUBSET Unused :
              /\ pool' = PoolOf({}, new) /\ refilling' = (new # {})
              /\ spawning' = [i \in Ids |-> IF i \in new THEN "called" ELSE "no"]
              /\ holders' = new \cup {s \in Sessions : row'[s] \in {"starting", "ready"}}
<1>1. pods' \in [Ids -> Ids \cup {None}]
  BY DEF Restart, Recover
<1>2. ASSUME NEW i \in Ids, pods'[i] # None
      PROVE  i \in Sessions /\ label[pods'[i]] = i /\ phase[pods'[i]] \in {"running", "terminating"}
  BY <1>2 DEF Restart, Recover, Labelled
<1>3. \E new \in SUBSET Unused :
              /\ pool' = PoolOf({}, new) /\ refilling' = (new # {})
              /\ spawning' = [i \in Ids |-> IF i \in new THEN "called" ELSE "no"]
              /\ holders' = new \cup {s \in Sessions : row'[s] \in {"starting", "ready"}}
  BY DEF Restart, Fills
<1> QED
  BY <1>1, <1>2, <1>3

LEMMA TypeRestart ==
  ASSUME TypeInv, Restart
  PROVE  TypeInv'
<1>1. PICK new \in SUBSET Unused :
              /\ pool' = PoolOf({}, new) /\ refilling' = (new # {})
              /\ spawning' = [i \in Ids |-> IF i \in new THEN "called" ELSE "no"]
              /\ holders' = new \cup {s \in Sessions : row'[s] \in {"starting", "ready"}}
  BY RestartGives
<1>2. K8sTypeOK'
  BY <1>1, RestartGives DEF Restart, Recover, K8sTypeOK, TypeInv, TypeOK
<1>3. pool' \in [WarmIds -> {"out", "spawning", "ready"}] /\ holders' \subseteq Ids /\ refilling' \in BOOLEAN
  BY <1>1, IdSets DEF PoolOf
<1>4. row' \in [Sessions -> {"absent", "starting", "ready", "stopped", "error"}]
  BY DEF Restart, Reconciled, TypeInv, TypeOK
<1>5. /\ serves' \in [Ids -> Ids] /\ inbox' \in [Ids -> Sessions \cup {None}]
      /\ sock' \in [Ids -> Ids \cup {None}] /\ connections' \in [Ids -> Ids \cup {None}]
  BY IdSets DEF Restart, TypeInv, TypeOK
<1>6. ReqType
  <2>1. req' = [r \in Requests |-> IF r \in Requests THEN Free ELSE req[r]]
    BY DEF Restart
  <2> QED
    BY <2>1, Freed
<1>7. restarts' \in 0 .. MaxRestarts
  BY PoolAssumption DEF Restart, TypeInv, TypeOK
<1> QED
  BY <1>2, <1>3, <1>4, <1>5, <1>6, <1>7 DEF TypeInv, TypeOK, ReqType

LEMMA TypeStep ==
  ASSUME TypeInv, [Next]_vars
  PROVE  TypeInv'
<1>1. CASE UNCHANGED vars
  <2>1. HearsTypes
    BY <1>1, TypeSame DEF vars
  <2> QED
    BY <1>1, <2>1 DEF vars, HearsTypes, ReqType, TypeInv, TypeOK, socketVars
<1>2. ASSUME NEW r \in Requests, Continues(r) PROVE TypeInv'
  BY <1>2, TypeAdopts, TypeRequest DEF Continues
<1>3. ASSUME NEW r \in Requests, NEW s \in Sessions, Arrives(r, s) PROVE TypeInv'
  BY <1>3, TypeCreate, TypeArrives DEF Arrives
<1>4. ASSUME NEW n \in Ids, PodActs(n) PROVE TypeInv'
  BY <1>4, TypePod, TypeRunner DEF PodActs
<1> QED
  BY <1>1, <1>2, <1>3, <1>4, TypeSpawn, TypeArrives, TypeRestart DEF Next

LEMMA TypeInvariant == Spec => []TypeInv
BY TypeInit, TypeStep, PTL DEF Spec

\* Every variable of the pool, its requests and the pods keeps its type.
THEOREM TypesAlways == Spec => []TypeOK
<1>1. TypeInv => TypeOK
  BY DEF TypeInv
<1> QED
  BY <1>1, TypeInvariant, PTL
-----------------------------------------------------------------------------
(***************************************************************************)
(* The flag of refill().                                                   *)
(***************************************************************************)
LEMMA RefillPends ==
  ASSUME TypeOK, RefillIsPending, NEW entries, NEW held, Refill(entries, held)
  PROVE  RefillIsPending'
<1>1. PICK new \in SUBSET Unused :
           /\ refilling' = (refilling \/ new # {})
           /\ spawning' = [i \in Ids |-> IF i \in new THEN "called" ELSE spawning[i]]
  BY Refilled
<1>2. new \subseteq WarmIds /\ WarmIds \subseteq Ids
  BY IdSets
<1> QED
  BY <1>1, <1>2 DEF RefillIsPending

\* The steps that leave the flag and the spawns of warm pods alone.
LEMMA OtherSpawns ==
  ASSUME TypeInv,
         \/ \E r \in Requests : Continues(r) \/ \E s \in Sessions : ResumeBegin(r, s)
         \/ \E s \in Sessions : Stop(s)
         \/ \E n \in Ids : PodActs(n)
         \/ UNCHANGED vars
  PROVE  refilling' = refilling /\ \A w \in WarmIds : spawning'[w] = spawning[w]
<1>1. ASSUME NEW r \in Requests, Continues(r)
      PROVE  refilling' = refilling /\ \A w \in WarmIds : spawning'[w] = spawning[w]
  <2>1. CASE Spawned(r) \/ SpawnFailed(r)
    <3>1. req[r].sid \in Sessions
      BY <2>1 DEF Spawned, SpawnFailed, TypeInv, ReqShape
    <3> QED
      BY <2>1, <3>1, IdSets DEF Spawned, SpawnFailed, SpawnReturns, SpawnThrows, poolVars, TypeInv, TypeOK, K8sTypeOK
  <2> QED
    BY <1>1, <2>1 DEF Continues, AdoptEnds, Rekey, ReadyTimesOut, GiveUp, QueryAnswered, QueryTimesOut, poolVars, k8sVars
<1>2. ASSUME NEW r \in Requests, NEW s \in Sessions, ResumeBegin(r, s)
      PROVE  refilling' = refilling /\ \A w \in WarmIds : spawning'[w] = spawning[w]
  BY <1>2, IdSets DEF ResumeBegin, poolVars, TypeInv, TypeOK, K8sTypeOK
<1>3. ASSUME NEW n \in Ids, PodActs(n)
      PROVE  refilling' = refilling /\ \A w \in WarmIds : spawning'[w] = spawning[w]
  BY <1>3 DEF PodActs, PodStarts, RunnerExits, PodGone, PatchSettles, PatchEnds, RunnerConnects, RunnerAdopts,
              HearsReady, HearsError, GiveUp, SocketCloses, poolVars, k8sVars
<1> QED
  BY <1>1, <1>2, <1>3 DEF Stop, poolVars, vars, k8sVars

\* The flag of refill() is up only while a spawn it waits for is pending.
THEOREM RefillIsAlwaysPending == Spec => []RefillIsPending
<1>1. Init => RefillIsPending
  BY IdSets DEF Init, RefillIsPending
<1>2. TypeInv /\ RefillIsPending /\ [Next]_vars => RefillIsPending'
  <2> SUFFICES ASSUME TypeInv, RefillIsPending, [Next]_vars PROVE RefillIsPending'
    OBVIOUS
  <2>1. ASSUME refilling' = refilling, \A w \in WarmIds : spawning'[w] = spawning[w] PROVE RefillIsPending'
    BY <2>1 DEF RefillIsPending
  <2>2. ASSUME NEW i \in Ids, SpawnGoesOn(i) PROVE RefillIsPending'
    <3>1. CASE PodCreated(i)
      BY <2>2, <3>1, IdSets DEF PodCreated, PodIsCreated, poolVars, RefillIsPending, TypeInv, TypeOK, K8sTypeOK
    <3>2. CASE i \in WarmIds /\ (WarmSpawned(i) \/ WarmSpawnFails(i))
      <4>1. refilling' = (refilling /\ \E o \in WarmIds \ {i} : spawning[o] # "no")
        BY <3>2 DEF WarmSpawned, WarmSpawnFails, SpawnSettled
      <4>2. \A o \in WarmIds \ {i} : spawning'[o] = spawning[o]
        BY <3>2, IdSets DEF WarmSpawned, WarmSpawnFails, SpawnReturns, SpawnThrows, TypeInv, TypeOK, K8sTypeOK
      <4> QED
        BY <4>1, <4>2 DEF RefillIsPending
    <3> QED
      BY <2>2, <3>1, <3>2 DEF SpawnGoesOn
  <2>3. ASSUME NEW r \in Requests, NEW s \in Sessions, NEW p \in Profiles, CreateBegin(r, s, p)
        PROVE  RefillIsPending'
    <3>1. CASE \E w \in FindReady(p) : AdoptEntry(r, s, w)
      BY <3>1, RefillPends DEF AdoptEntry, TypeInv
    <3>2. CASE spawning' = [spawning EXCEPT ![s] = "called"] /\ UNCHANGED poolVars
      BY <2>1, <3>2, IdSets DEF poolVars, TypeInv, TypeOK, K8sTypeOK
    <3> QED
      BY <2>3, <3>1, <3>2 DEF CreateBegin, poolVars
  <2>4. ASSUME NEW r \in Requests, QueryBegin(r) PROVE RefillIsPending'
    BY <2>4, RefillPends DEF QueryBegin, TypeInv
  <2>5. CASE Restart
    <3>1. PICK new \in SUBSET Unused :
               /\ refilling' = (new # {})
               /\ spawning' = [i \in Ids |-> IF i \in new THEN "called" ELSE "no"]
      BY <2>5, RestartGives
    <3>2. new \subseteq WarmIds /\ WarmIds \subseteq Ids
      BY IdSets
    <3> QED
      BY <3>1, <3>2 DEF RefillIsPending
  <2> QED
    BY <2>1, <2>2, <2>3, <2>4, <2>5, OtherSpawns DEF Next, Arrives
<1> QED
  BY <1>1, <1>2, TypeInvariant, PTL DEF Spec
-----------------------------------------------------------------------------
(***************************************************************************)
(* Who waits for a starting session.                                       *)
(***************************************************************************)
Waits(s) == \E r \in Requests : req[r].sid = s /\ req[r].pc \in Waiting

\* A request that does not wait has nobody waiting less.
LEMMA StillWait ==
  ASSUME TypeInv, NEW r \in Requests, req[r].pc \notin Waiting,
         NEW step, NEW s, NEW w, Goto(r, step, s, w)
  PROVE  /\ \A o : Waits(o) => Waits(o)'
         /\ step \in Waiting => Waits(s)'
BY DEF TypeInv, TypeOK, Goto, Waits

\* The request on s is over: all others wait as before.
LEMMA OneWaitsLess ==
  ASSUME TypeInv, NEW r \in Requests, Finish(r)
  PROVE  \A o : Waits(o) /\ req[r].sid # o => Waits(o)'
BY DEF TypeInv, TypeOK, Finish, Waits

\* Nobody stops to wait for a session that stays starting, and no session is
\* starting that was not.
StartsNone ==
  \A s \in Sessions : row'[s] = "starting" => row[s] = "starting" /\ (Waits(s) => Waits(s)')

LEMMA GivesUpStarting ==
  ASSUME TypeInv, NEW r \in Requests, GiveUp(r)
  PROVE  StartsNone
<1>1. req[r].sid \in Sessions
  BY DEF TypeInv, ReqShape, GiveUp
<1>2. row'[req[r].sid] # "starting" /\ \A o \in Sessions \ {req[r].sid} : row'[o] = row[o]
  BY <1>1 DEF GiveUp, TypeInv, TypeOK
<1> QED
  BY <1>2, OneWaitsLess DEF GiveUp, StartsNone

LEMMA HearsStarting ==
  ASSUME TypeInv, NEW i \in Ids, HearsReady(i) \/ HearsError(i)
  PROVE  StartsNone
<1>1. CASE HearsReady(i)
  <2>1. \A s \in Sessions : row'[s] = "starting" => row[s] = "starting" /\ s # i
    BY <1>1 DEF HearsReady, TypeInv, TypeOK
  <2>2. \A s : s # i /\ Waits(s) => Waits(s)'
    BY <1>1 DEF HearsReady, Waits, TypeInv, TypeOK
  <2> QED
    BY <2>1, <2>2 DEF StartsNone
<1>2. CASE /\ row' = IF i \in Sessions /\ row[i] # "absent" THEN [row EXCEPT ![i] = "error"] ELSE row
           /\ UNCHANGED <<k8sVars, holders, poolVars, req>>
  BY <1>2 DEF StartsNone, Waits, TypeInv, TypeOK
<1>3. CASE \E r \in Requests : GiveUp(r)
  BY <1>3, GivesUpStarting
<1> QED
  BY <1>1, <1>2, <1>3 DEF HearsError

LEMMA StartingSteps ==
  ASSUME TypeInv, [Next]_vars
  PROVE  \/ StartsNone
         \/ Restart
         \/ \E s \in Sessions : /\ Waits(s)' /\ \A o \in Sessions : Waits(o) => Waits(o)'
                                /\ row' = [row EXCEPT ![s] = "starting"]
<1>1. ASSUME NEW r \in Requests, AdoptEnds(r) \/ Spawned(r)
      PROVE  \E s \in Sessions : /\ Waits(s)' /\ \A o \in Sessions : Waits(o) => Waits(o)'
                                 /\ row' = [row EXCEPT ![s] = "starting"]
  <2>1. req[r].sid \in Sessions /\ req[r].pc \notin Waiting
    BY <1>1 DEF AdoptEnds, Spawned, TypeInv, ReqShape, Waiting
  <2>2. \E step \in Waiting : Goto(r, step, req[r].sid, None)
    BY <1>1 DEF AdoptEnds, Spawned, Waiting
  <2> QED
    BY <1>1, <2>1, <2>2, StillWait DEF AdoptEnds, Spawned
<1>2. ASSUME NEW r \in Requests, SpawnFailed(r) PROVE StartsNone
  <2>1. req[r].sid \in Sessions
    BY <1>2 DEF TypeInv, ReqShape, SpawnFailed
  <2>2. row'[req[r].sid] # "starting" /\ \A o \in Sessions \ {req[r].sid} : row'[o] = row[o]
    BY <1>2, <2>1 DEF SpawnFailed, TypeInv, TypeOK
  <2> QED
    BY <1>2, <2>2, OneWaitsLess DEF SpawnFailed, StartsNone
<1>3. ASSUME NEW r \in Requests, QueryAnswered(r) \/ QueryTimesOut(r) PROVE StartsNone
  <2>1. req[r].sid = None /\ Finish(r) /\ row' = row
    BY <1>3 DEF QueryAnswered, QueryTimesOut, TypeInv, ReqShape
  <2> QED
    BY <2>1, OneWaitsLess, IdSets DEF StartsNone
<1>4. ASSUME NEW r \in Requests, NEW s \in Sessions, Arrives(r, s) PROVE StartsNone
  <2>1. req[r].pc \notin Waiting /\ row' = row
    BY <1>4 DEF Arrives, ResumeBegin, CreateBegin, Free, Waiting
  <2>2. \E step, w : Goto(r, step, s, w)
    BY <1>4 DEF Arrives, ResumeBegin, CreateBegin, AdoptEntry
  <2> QED
    BY <2>1, <2>2, StillWait DEF StartsNone
<1>5. ASSUME NEW r \in Requests, QueryBegin(r) PROVE StartsNone
  <2>1. req[r].pc \notin Waiting /\ row' = row
    BY <1>5 DEF QueryBegin, Free, Waiting
  <2>2. \E w : Goto(r, "querying", None, w)
    BY <1>5 DEF QueryBegin
  <2> QED
    BY <2>1, <2>2, StillWait DEF StartsNone
<1>6. ASSUME NEW s \in Sessions, Stop(s) PROVE StartsNone
  BY <1>6 DEF Stop, StartsNone, Waits, TypeInv, TypeOK
<1>7. ASSUME NEW n \in Ids, RunnerConnects(n) \/ RunnerAdopts(n) PROVE StartsNone
  <2>1. serves[n] \in Ids /\ (inbox[n] # None => inbox[n] \in Ids)
    BY IdSets DEF TypeInv, TypeOK
  <2> QED
    BY <1>7, <2>1, HearsStarting DEF RunnerConnects, RunnerAdopts
<1>8. ASSUME NEW n \in Ids, SocketCloses(n) PROVE StartsNone
  <2>1. \A s \in Sessions : row'[s] = "starting" => row[s] = "starting"
    BY <1>8 DEF SocketCloses, TypeInv, TypeOK
  <2>2. \A s : Waits(s) => Waits(s)'
    BY <1>8 DEF SocketCloses, Waits, Waiting
  <2> QED
    BY <2>1, <2>2 DEF StartsNone
<1>9. ASSUME UNCHANGED <<row, req>> PROVE StartsNone
  BY <1>9 DEF StartsNone, Waits
<1>10. ASSUME NEW n \in Ids, PodStarts(n) \/ RunnerExits(n) \/ PodGone(n) \/ PatchSettles(n) PROVE StartsNone
  BY <1>9, <1>10 DEF PodStarts, RunnerExits, PodGone, PatchSettles
<1>11. ASSUME NEW i \in Ids, SpawnGoesOn(i) PROVE StartsNone
  BY <1>9, <1>11 DEF SpawnGoesOn, PodCreated, WarmSpawned, WarmSpawnFails
<1>12. CASE UNCHANGED vars
  BY <1>9, <1>12 DEF vars
<1> QED
  BY <1>1, <1>2, <1>3, <1>4, <1>5, <1>6, <1>7, <1>8, <1>10, <1>11, <1>12, GivesUpStarting
     DEF Next, Continues, ReadyTimesOut, PodActs

\* Only a restart is counted.
LEMMA RestartsCount ==
  ASSUME TypeInv, [Next]_vars
  PROVE  restarts' = restarts \/ (Restart /\ restarts' > 0)
<1>1. CASE Restart
  BY <1>1, PoolAssumption DEF Restart, TypeInv, TypeOK
<1>2. ASSUME NEW i \in Ids, SpawnGoesOn(i) \/ PodActs(i) PROVE restarts' = restarts
  BY <1>2 DEF SpawnGoesOn, PodCreated, WarmSpawned, WarmSpawnFails, PodActs, PodStarts, RunnerExits, PodGone,
              PatchSettles, RunnerConnects, RunnerAdopts, SocketCloses
<1>3. ASSUME NEW r \in Requests, Continues(r) \/ QueryBegin(r) PROVE restarts' = restarts
  BY <1>3 DEF Continues, AdoptEnds, Spawned, SpawnFailed, ReadyTimesOut, QueryAnswered, QueryTimesOut, QueryBegin
<1>4. ASSUME NEW r \in Requests, NEW s \in Sessions, Arrives(r, s) PROVE restarts' = restarts
  BY <1>4 DEF Arrives, ResumeBegin, CreateBegin, Stop
<1>5. ASSUME NEW s \in Sessions, Stop(s) PROVE restarts' = restarts
  BY <1>5 DEF Stop
<1>6. CASE UNCHANGED vars
  BY <1>6 DEF vars
<1> QED
  BY <1>1, <1>2, <1>3, <1>4, <1>5, <1>6 DEF Next

\* A starting session is waited for by the request that reports it, undoes it or
\* fails it, unless a restart found it so.
THEOREM StartingAlwaysAwaited == Spec => []StartingIsAwaited
<1>1. Init => StartingIsAwaited
  BY DEF Init, StartingIsAwaited
<1>2. TypeInv /\ StartingIsAwaited /\ [Next]_vars => StartingIsAwaited'
  <2> SUFFICES ASSUME TypeInv, StartingIsAwaited, [Next]_vars PROVE StartingIsAwaited'
    OBVIOUS
  <2>1. StartingIsAwaited <=> \A s \in Sessions : row[s] = "starting" => restarts > 0 \/ Waits(s)
    BY DEF StartingIsAwaited, Waits
  <2>2. StartingIsAwaited' <=> \A s \in Sessions : row'[s] = "starting" => restarts' > 0 \/ Waits(s)'
    BY DEF StartingIsAwaited, Waits
  <2>3. restarts' = restarts \/ restarts' > 0
    BY RestartsCount
  <2>4. CASE StartsNone
    BY <2>1, <2>2, <2>3, <2>4 DEF StartsNone
  <2>5. CASE \E s \in Sessions : /\ Waits(s)' /\ \A o \in Sessions : Waits(o) => Waits(o)'
                                 /\ row' = [row EXCEPT ![s] = "starting"]
    BY <2>1, <2>2, <2>3, <2>5 DEF TypeInv, TypeOK
  <2>6. CASE Restart
    BY <2>2, <2>6, PoolAssumption DEF Restart, TypeInv, TypeOK
  <2> QED
    BY <2>4, <2>5, <2>6, StartingSteps
<1> QED
  BY <1>1, <1>2, TypeInvariant, PTL DEF Spec
===============================================================================
