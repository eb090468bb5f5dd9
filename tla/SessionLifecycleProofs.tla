----------------------- MODULE SessionLifecycleProofs -----------------------
(***************************************************************************)
(* What holds of SessionLifecycle for any number of sessions, containers,  *)
(* tokens and requests: the first part with requests that overlap, every   *)
(* fault and any number of restarts, the next with ~Overlap, the last two  *)
(* with Serial and Counted, which say what the code has no remedy for.     *)
(***************************************************************************)
EXTENDS SessionLifecycle, FiniteSetTheorems, TLAPS

\* The containers that were ever started, which they remain.
Started == {c \in Containers : life[c] # "unused"}

StartedStays == Started \subseteq Started'

\* The handlers: one under way works on a session, and a container it holds has
\* been started.
RequestsInv ==
  /\ ReqTypeOK
  /\ \A r \in Requests :
       /\ req[r].pc # "free" => req[r].sid \in Sessions
       /\ req[r].held \in Started \cup {None}

\* The runners: a started container works for a session, and only a started
\* container is tracked or has a socket.
RunnersInv ==
  /\ DockerTypeOK /\ BridgeTypeOK
  /\ \A c \in Started : owner[c] \in Sessions
  /\ \A s \in Sessions : containers[s] \in Started \cup {None}
  /\ sockets \subseteq Started

TypeInv == PoolTypeOK /\ StoreTypeOK /\ RunnersInv /\ RequestsInv /\ restarts \in Nat
-----------------------------------------------------------------------------
(***************************************************************************)
(* The operations of the parts keep the types.                             *)
(***************************************************************************)
LEMMA NextIndexType ==
  ASSUME NEW i \in Tokens
  PROVE  (i + 1) % NumTokens \in Tokens
BY NumTokensAssumption DEF Tokens

LEMMA AssignType ==
  ASSUME PoolTypeOK, NEW s, Assign(s)
  PROVE  PoolTypeOK'
BY NextIndexType DEF PoolTypeOK, Assign

LEMMA ReleaseType ==
  ASSUME PoolTypeOK, NEW s, Release(s)
  PROVE  PoolTypeOK'
BY DEF PoolTypeOK, Release

LEMMA RestoreType ==
  ASSUME NEW active, NEW saved \in [Sessions -> Tokens \cup {None}], Restore(active, saved)
  PROVE  PoolTypeOK'
<1> DEFINE kept == {s \in Sessions : saved[s] # None}
<1>1. sessionTokens' \in [Sessions -> Tokens \cup {None}]
  BY DEF Restore
<1>2. CASE kept = {} /\ nextIndex' = 0
  BY <1>1, <1>2, NumTokensAssumption DEF PoolTypeOK, Tokens
<1>3. CASE \E s \in kept : nextIndex' = (saved[s] + 1) % NumTokens
  <2>1. PICK s \in kept : nextIndex' = (saved[s] + 1) % NumTokens
    BY <1>3
  <2>2. saved[s] \in Tokens
    OBVIOUS
  <2> QED BY <1>1, <2>1, <2>2, NextIndexType DEF PoolTypeOK
<1> QED BY <1>2, <1>3 DEF Restore

LEMMA UpdateStatusType ==
  ASSUME StoreTypeOK, NEW s, NEW st \in Terminal \cup NonTerminal, UpdateStatus(s, st)
  PROVE  StoreTypeOK'
BY DEF StoreTypeOK, UpdateStatus, WithStatus

LEMMA CreateRowType ==
  ASSUME StoreTypeOK, NEW s \in Sessions, NEW c \in Containers \cup {None},
         NEW t \in Tokens \cup {None}, NEW pin \in BOOLEAN, CreateRow(s, c, t, pin)
  PROVE  StoreTypeOK'
BY DEF StoreTypeOK, CreateRow, NonTerminal

LEMMA ReactivateType ==
  ASSUME StoreTypeOK, NEW s, NEW c \in Containers \cup {None},
         NEW t \in Tokens \cup {None}, Reactivate(s, c, t)
  PROVE  StoreTypeOK'
BY DEF StoreTypeOK, Reactivate, WithStatus, NonTerminal

LEMMA RemoveRowType ==
  ASSUME StoreTypeOK, NEW s, RemoveRow(s)
  PROVE  StoreTypeOK'
BY DEF StoreTypeOK, RemoveRow

LEMMA KillEndsType ==
  ASSUME RunnersInv, RequestsInv, NEW r \in Requests, NEW s, KillEnds(r, s), UNCHANGED bridgeVars
  PROVE  RunnersInv' /\ StartedStays
<1>1. PICK stopped \in BOOLEAN : FinishKill(s, req[r].held, stopped)
  BY DEF KillEnds
<1>2. DockerTypeOK'
  BY <1>1 DEF RunnersInv, DockerTypeOK, FinishKill
<1>3. req[r].held \in Started \cup {None}
  BY DEF RequestsInv
<1>4. Started' = Started
  BY <1>1, <1>3 DEF RunnersInv, DockerTypeOK, FinishKill, Started
<1>5. \A t \in Sessions : containers'[t] \in Started \cup {None}
  BY <1>1 DEF RunnersInv, DockerTypeOK, FinishKill
<1> QED BY <1>1, <1>2, <1>4, <1>5 DEF RunnersInv, BridgeTypeOK, bridgeVars, FinishKill, StartedStays

LEMMA TrackType ==
  ASSUME RunnersInv, NEW s, NEW c \in Started \cup {None}, Track(s, c), UNCHANGED bridgeVars
  PROVE  RunnersInv' /\ StartedStays
<1>1. Started' = Started
  BY DEF Started, Track
<1> QED BY <1>1 DEF RunnersInv, DockerTypeOK, BridgeTypeOK, bridgeVars, Track, Started, StartedStays

LEMMA RegisterType ==
  ASSUME RunnersInv, NEW c \in Containers, UNCHANGED dockerVars,
         FirstMessage(c) \/ (Heard(c) /\ Registered(c))
  PROVE  RunnersInv' /\ owner[c] \in Sessions
<1>1. c \in Started /\ Started' = Started
  BY DEF FirstMessage, Heard, Started, dockerVars
<1>2. CASE Register(owner[c], c)
  BY <1>1, <1>2 DEF RunnersInv, DockerTypeOK, BridgeTypeOK, dockerVars, Register
<1>3. CASE UNCHANGED bridgeVars
  BY <1>1, <1>3 DEF RunnersInv, DockerTypeOK, BridgeTypeOK, dockerVars, bridgeVars
<1> QED BY <1>2, <1>3 DEF FirstMessage, Registered

LEMMA CloseSocketType ==
  ASSUME RunnersInv, NEW s, NEW c \in Containers, CloseSocket(s, c), UNCHANGED dockerVars
  PROVE  RunnersInv'
BY DEF RunnersInv, DockerTypeOK, BridgeTypeOK, dockerVars, CloseSocket, Started

LEMMA GotoType ==
  ASSUME RequestsInv, StartedStays, NEW r \in Requests, NEW step \in Steps, NEW s \in Sessions,
         NEW held \in Started \cup {None}, NEW token \in Tokens \cup {None},
         Goto(r, step, s, held, token)
  PROVE  RequestsInv'
BY DEF RequestsInv, ReqTypeOK, Goto, Free, Started, StartedStays

LEMMA FinishType ==
  ASSUME RequestsInv, StartedStays, NEW r \in Requests, Finish(r)
  PROVE  RequestsInv'
BY DEF RequestsInv, ReqTypeOK, Finish, Free, Steps, StartedStays

LEMMA CapacityDecisionType ==
  ASSUME RequestsInv, RunnersInv, StartedStays, NEW r \in Requests, NEW s \in Sessions,
         NEW cands \in SUBSET Sessions, NEW count, CapacityDecision(r, s, cands, count)
  PROVE  RequestsInv'
<1>1. CASE Goto(r, "admitted", s, None, None)
  BY <1>1, GotoType DEF Steps
<1>2. CASE Finish(r)
  BY <1>2, FinishType
<1>3. CASE \E v \in cands :
             req' = [req EXCEPT ![r] = [Free EXCEPT !.pc = "evicting", !.sid = s, !.victim = v,
                                          !.held = containers[v], !.cands = cands \ {v}]]
  <2>1. PICK v \in cands :
          req' = [req EXCEPT ![r] = [Free EXCEPT !.pc = "evicting", !.sid = s, !.victim = v,
                                       !.held = containers[v], !.cands = cands \ {v}]]
    BY <1>3
  <2>2. containers[v] \in Started \cup {None}
    BY DEF RunnersInv
  <2> QED BY <2>1, <2>2 DEF RequestsInv, ReqTypeOK, Free, Steps, Started, StartedStays
<1> QED BY <1>1, <1>2, <1>3 DEF CapacityDecision

\* A request whose wait is rejected begins to undo what it did.
LEMMA RejectedType ==
  ASSUME RequestsInv, RunnersInv, NEW r \in Requests, req[r].pc \in Waiting
  PROVE  /\ Rejected(r) \in [pc : Steps, sid : Sessions \cup {None}, victim : Sessions \cup {None},
                              held : Containers \cup {None}, token : Tokens \cup {None},
                              cands : SUBSET Sessions]
         /\ Rejected(r).held \in Started \cup {None}
         /\ Rejected(r).pc \in UndoSteps /\ Rejected(r).sid = req[r].sid
         /\ req[r].sid \in Sessions
<1>1. req[r].sid \in Sessions
  BY DEF RequestsInv, Waiting
<1>2. containers[req[r].sid] \in Started \cup {None}
  BY <1>1 DEF RunnersInv
<1> QED BY <1>1, <1>2 DEF RequestsInv, ReqTypeOK, Rejected, Steps, UndoSteps, Started

LEMMA RejectWaitersType ==
  ASSUME RequestsInv, RunnersInv, StartedStays, NEW s, RejectWaiters(s)
  PROVE  RequestsInv'
<1>1. ReqTypeOK'
  BY RejectedType DEF RequestsInv, ReqTypeOK, RejectWaiters, WaitersOf
<1>2. ASSUME NEW r \in Requests
      PROVE  (/\ req[r].pc # "free" => req[r].sid \in Sessions
              /\ req[r].held \in Started \cup {None})'
  <2>1. CASE r \in WaitersOf(s)
    <3>1. req'[r] = Rejected(r) /\ req[r].pc \in Waiting
      BY <2>1 DEF RejectWaiters, WaitersOf
    <3> QED BY <3>1, RejectedType DEF StartedStays
  <2>2. CASE r \notin WaitersOf(s)
    BY <2>2 DEF RequestsInv, RejectWaiters, StartedStays
  <2> QED BY <2>1, <2>2
<1> QED BY <1>1, <1>2 DEF RequestsInv

LEMMA ResolveWaitersType ==
  ASSUME RequestsInv, StartedStays, NEW s, ResolveWaiters(s)
  PROVE  RequestsInv'
BY DEF RequestsInv, ReqTypeOK, ResolveWaiters, Free, Steps, StartedStays

LEMMA UnchangedTypes ==
  /\ PoolTypeOK /\ UNCHANGED poolVars => PoolTypeOK'
  /\ StoreTypeOK /\ UNCHANGED storeVars => StoreTypeOK'
  /\ UNCHANGED dockerVars => StartedStays
  /\ RunnersInv /\ UNCHANGED <<dockerVars, bridgeVars>> => RunnersInv'
  /\ RequestsInv /\ StartedStays /\ UNCHANGED req => RequestsInv'
<1>1. PoolTypeOK /\ UNCHANGED poolVars => PoolTypeOK'
  BY DEF PoolTypeOK, poolVars
<1>2. StoreTypeOK /\ UNCHANGED storeVars => StoreTypeOK'
  BY DEF StoreTypeOK, storeVars
<1>3. UNCHANGED dockerVars => StartedStays
  BY DEF Started, StartedStays, dockerVars
<1>4. RunnersInv /\ UNCHANGED <<dockerVars, bridgeVars>> => RunnersInv'
  BY DEF RunnersInv, DockerTypeOK, BridgeTypeOK, dockerVars, bridgeVars, Started
<1>5. RequestsInv /\ StartedStays /\ UNCHANGED req => RequestsInv'
  BY DEF RequestsInv, ReqTypeOK, StartedStays
<1> QED BY <1>1, <1>2, <1>3, <1>4, <1>5
-----------------------------------------------------------------------------
(***************************************************************************)
(* Every action of a request keeps the types.                              *)
(***************************************************************************)
\* What a handler under way may rely on.
LEMMA HandlerTypes ==
  ASSUME TypeInv, NEW r \in Requests, req[r].pc # "free"
  PROVE  /\ req[r].sid \in Sessions
         /\ req[r].held \in Started \cup {None}
         /\ req[r].held \in Containers \cup {None}
         /\ req[r].token \in Tokens \cup {None}
         /\ req[r].cands \in SUBSET Sessions
         /\ containers[req[r].sid] \in Started \cup {None}
BY DEF TypeInv, RequestsInv, RunnersInv, ReqTypeOK, Started

LEMMA CreateBeginTypes ==
  ASSUME TypeInv, NEW r \in Requests, NEW s \in Sessions, CreateBegin(r, s)
  PROVE  TypeInv'
<1>2. PoolTypeOK'
  BY UnchangedTypes DEF TypeInv, CreateBegin, lifeVars
<1>3. StoreTypeOK'
  BY UnchangedTypes DEF TypeInv, CreateBegin, lifeVars
<1>4. RunnersInv' /\ StartedStays
  BY UnchangedTypes DEF TypeInv, CreateBegin, lifeVars
<1>5. RequestsInv'
  BY <1>4, CapacityDecisionType DEF TypeInv, CreateBegin, Evictable
<1> QED BY <1>2, <1>3, <1>4, <1>5 DEF TypeInv, CreateBegin

LEMMA EvictEndTypes ==
  ASSUME TypeInv, NEW r \in Requests, EvictEnd(r)
  PROVE  TypeInv'
<1>1. req[r].pc # "free"
  BY DEF EvictEnd, At
<1>2. PoolTypeOK'
  BY ReleaseType DEF TypeInv, EvictEnd
<1>3. StoreTypeOK'
  BY <1>1, HandlerTypes, UpdateStatusType DEF TypeInv, EvictEnd, Terminal
<1>4. RunnersInv' /\ StartedStays
  BY KillEndsType DEF TypeInv, EvictEnd
<1>5. RequestsInv'
  BY <1>1, HandlerTypes, <1>4, CapacityDecisionType DEF TypeInv, EvictEnd
<1> QED BY <1>2, <1>3, <1>4, <1>5 DEF TypeInv, EvictEnd

LEMMA AssignTokenTypes ==
  ASSUME TypeInv, NEW r \in Requests, AssignToken(r)
  PROVE  TypeInv'
<1>1. req[r].pc # "free"
  BY DEF AssignToken, At
<1>2. PoolTypeOK'
  BY AssignType DEF TypeInv, AssignToken
<1>3. StoreTypeOK'
  BY <1>1, HandlerTypes, UnchangedTypes DEF TypeInv, AssignToken, lifeVars
<1>4. RunnersInv' /\ StartedStays
  BY UnchangedTypes DEF TypeInv, AssignToken, lifeVars
<1>5. RequestsInv'
  BY <1>1, HandlerTypes, <1>4, GotoType DEF TypeInv, AssignToken, Steps, PoolTypeOK
<1> QED BY <1>2, <1>3, <1>4, <1>5 DEF TypeInv, AssignToken

LEMMA SpawnReturnsTypes ==
  ASSUME TypeInv, NEW r \in Requests, SpawnReturns(r)
  PROVE  TypeInv'
<1>1. req[r].pc # "free"
  BY DEF SpawnReturns, At
<1>2. PoolTypeOK'
  BY UnchangedTypes DEF TypeInv, SpawnReturns, lifeVars
<1>3. StoreTypeOK'
  BY <1>1, HandlerTypes, CreateRowType DEF TypeInv, SpawnReturns
<1>4. RunnersInv' /\ StartedStays
  BY <1>1, HandlerTypes, TrackType DEF TypeInv, SpawnReturns
<1>5. RequestsInv'
  BY <1>1, HandlerTypes, <1>4, GotoType DEF TypeInv, SpawnReturns, Steps, Waiting
<1> QED BY <1>2, <1>3, <1>4, <1>5 DEF TypeInv, SpawnReturns

LEMMA RowRefusedTypes ==
  ASSUME TypeInv, NEW r \in Requests, RowRefused(r)
  PROVE  TypeInv'
<1>1. req[r].pc # "free"
  BY DEF RowRefused, At
<1>2. PoolTypeOK'
  BY UnchangedTypes DEF TypeInv, RowRefused, lifeVars
<1>3. StoreTypeOK'
  BY <1>1, HandlerTypes, UnchangedTypes DEF TypeInv, RowRefused, lifeVars
<1>4. RunnersInv' /\ StartedStays
  BY <1>1, HandlerTypes, TrackType DEF TypeInv, RowRefused
<1>5. RequestsInv'
  BY <1>1, HandlerTypes, <1>4, GotoType DEF TypeInv, RowRefused, Steps, UndoSteps
<1> QED BY <1>2, <1>3, <1>4, <1>5 DEF TypeInv, RowRefused

LEMMA SpawnThrowsTypes ==
  ASSUME TypeInv, NEW r \in Requests, SpawnThrows(r)
  PROVE  TypeInv'
<1>1. req[r].pc # "free"
  BY DEF SpawnThrows, At
<1>2. PoolTypeOK'
  BY ReleaseType, UnchangedTypes DEF TypeInv, SpawnThrows, lifeVars
<1>3. StoreTypeOK'
  BY <1>1, HandlerTypes, UnchangedTypes DEF TypeInv, SpawnThrows, lifeVars
<1>4. RunnersInv' /\ StartedStays
  BY UnchangedTypes DEF TypeInv, SpawnThrows, lifeVars
<1>5. RequestsInv'
  BY <1>1, HandlerTypes, <1>4, GotoType DEF TypeInv, SpawnThrows, Steps, UndoSteps
<1> QED BY <1>2, <1>3, <1>4, <1>5 DEF TypeInv, SpawnThrows

LEMMA UndoEndTypes ==
  ASSUME TypeInv, NEW r \in Requests, UndoEnd(r)
  PROVE  TypeInv'
<1>1. req[r].pc # "free"
  BY DEF UndoEnd, At
<1>2. PoolTypeOK'
  BY ReleaseType, UnchangedTypes DEF TypeInv, UndoEnd, lifeVars
<1>3. StoreTypeOK'
  BY <1>1, HandlerTypes, RemoveRowType, UnchangedTypes DEF TypeInv, UndoEnd
<1>4. RunnersInv' /\ StartedStays
  BY KillEndsType DEF TypeInv, UndoEnd
<1>5. RequestsInv'
  BY <1>1, HandlerTypes, <1>4, FinishType DEF TypeInv, UndoEnd
<1> QED BY <1>2, <1>3, <1>4, <1>5 DEF TypeInv, UndoEnd

LEMMA ResumeBeginTypes ==
  ASSUME TypeInv, NEW r \in Requests, NEW s \in Sessions, ResumeBegin(r, s)
  PROVE  TypeInv'
<1>2. PoolTypeOK'
  BY ReleaseType DEF TypeInv, ResumeBegin
<1>3. StoreTypeOK'
  BY UnchangedTypes DEF TypeInv, ResumeBegin, lifeVars
<1>4. RunnersInv' /\ StartedStays
  BY UnchangedTypes DEF TypeInv, ResumeBegin, lifeVars
<1>5. RequestsInv'
  BY <1>4, GotoType DEF TypeInv, ResumeBegin, Steps, RunnersInv
<1> QED BY <1>2, <1>3, <1>4, <1>5 DEF TypeInv, ResumeBegin

LEMMA ResumeAssignsTypes ==
  ASSUME TypeInv, NEW r \in Requests, ResumeAssigns(r)
  PROVE  TypeInv'
<1>1. req[r].pc # "free"
  BY DEF ResumeAssigns, At
<1>2. PoolTypeOK'
  BY AssignType DEF TypeInv, ResumeAssigns
<1>3. StoreTypeOK'
  BY <1>1, HandlerTypes, UnchangedTypes DEF TypeInv, ResumeAssigns, lifeVars
<1>4. RunnersInv' /\ StartedStays
  BY KillEndsType DEF TypeInv, ResumeAssigns
<1>5. RequestsInv'
  BY <1>1, HandlerTypes, <1>4, GotoType DEF TypeInv, ResumeAssigns, Steps, PoolTypeOK
<1> QED BY <1>2, <1>3, <1>4, <1>5 DEF TypeInv, ResumeAssigns

LEMMA ResumeSpawnedTypes ==
  ASSUME TypeInv, NEW r \in Requests, ResumeSpawned(r)
  PROVE  TypeInv'
<1>1. req[r].pc # "free"
  BY DEF ResumeSpawned, At
<1>2. PoolTypeOK'
  BY UnchangedTypes DEF TypeInv, ResumeSpawned, lifeVars
<1>3. StoreTypeOK'
  BY <1>1, HandlerTypes, ReactivateType DEF TypeInv, ResumeSpawned
<1>4. RunnersInv' /\ StartedStays
  BY <1>1, HandlerTypes, TrackType DEF TypeInv, ResumeSpawned
<1>5. RequestsInv'
  BY <1>1, HandlerTypes, <1>4, GotoType DEF TypeInv, ResumeSpawned, Steps, Waiting
<1> QED BY <1>2, <1>3, <1>4, <1>5 DEF TypeInv, ResumeSpawned

LEMMA ResumeThrowsTypes ==
  ASSUME TypeInv, NEW r \in Requests, ResumeThrows(r)
  PROVE  TypeInv'
<1>1. req[r].pc # "free"
  BY DEF ResumeThrows, At
<1>2. PoolTypeOK'
  BY UnchangedTypes DEF TypeInv, ResumeThrows, lifeVars
<1>3. StoreTypeOK'
  BY <1>1, HandlerTypes, UnchangedTypes DEF TypeInv, ResumeThrows, lifeVars
<1>4. RunnersInv' /\ StartedStays
  BY UnchangedTypes DEF TypeInv, ResumeThrows, lifeVars
<1>5. RequestsInv'
  BY <1>1, HandlerTypes, <1>4, GotoType DEF TypeInv, ResumeThrows, Steps, UndoSteps
<1> QED BY <1>2, <1>3, <1>4, <1>5 DEF TypeInv, ResumeThrows

LEMMA ResumeFailsTypes ==
  ASSUME TypeInv, NEW r \in Requests, ResumeFails(r)
  PROVE  TypeInv'
<1>1. req[r].pc # "free"
  BY DEF ResumeFails, At
<1>2. PoolTypeOK'
  BY ReleaseType DEF TypeInv, ResumeFails
<1>3. StoreTypeOK'
  BY <1>1, HandlerTypes, UpdateStatusType DEF TypeInv, ResumeFails, Terminal
<1>4. RunnersInv' /\ StartedStays
  BY KillEndsType DEF TypeInv, ResumeFails
<1>5. RequestsInv'
  BY <1>1, HandlerTypes, <1>4, FinishType DEF TypeInv, ResumeFails
<1> QED BY <1>2, <1>3, <1>4, <1>5 DEF TypeInv, ResumeFails

LEMMA StopBeginTypes ==
  ASSUME TypeInv, NEW r \in Requests, NEW s \in Sessions, StopBegin(r, s)
  PROVE  TypeInv'
<1>2. PoolTypeOK'
  BY UnchangedTypes DEF TypeInv, StopBegin, lifeVars
<1>3. StoreTypeOK'
  BY UnchangedTypes DEF TypeInv, StopBegin, lifeVars
<1>4. RunnersInv' /\ StartedStays
  BY UnchangedTypes DEF TypeInv, StopBegin, lifeVars
<1>5. RequestsInv'
  BY <1>4, GotoType DEF TypeInv, StopBegin, Steps, RunnersInv
<1> QED BY <1>2, <1>3, <1>4, <1>5 DEF TypeInv, StopBegin

LEMMA StopEndTypes ==
  ASSUME TypeInv, NEW r \in Requests, StopEnd(r)
  PROVE  TypeInv'
<1>1. req[r].pc # "free"
  BY DEF StopEnd, At
<1>2. PoolTypeOK'
  BY ReleaseType DEF TypeInv, StopEnd
<1>3. StoreTypeOK'
  BY <1>1, HandlerTypes, UpdateStatusType DEF TypeInv, StopEnd, Terminal
<1>4. RunnersInv' /\ StartedStays
  BY KillEndsType DEF TypeInv, StopEnd
<1>5. RequestsInv'
  BY <1>1, HandlerTypes, <1>4, FinishType DEF TypeInv, StopEnd
<1> QED BY <1>2, <1>3, <1>4, <1>5 DEF TypeInv, StopEnd

LEMMA StopAgainTypes ==
  ASSUME TypeInv, NEW r \in Requests, NEW s \in Sessions, StopAgain(r, s)
  PROVE  TypeInv'
<1>2. PoolTypeOK'
  BY ReleaseType DEF TypeInv, StopAgain
<1>3. StoreTypeOK'
  BY UnchangedTypes DEF TypeInv, StopAgain, lifeVars
<1>4. RunnersInv' /\ StartedStays
  BY UnchangedTypes DEF TypeInv, StopAgain, lifeVars
<1>5. RequestsInv'
  BY <1>4, UnchangedTypes DEF TypeInv, StopAgain
<1> QED BY <1>2, <1>3, <1>4, <1>5 DEF TypeInv, StopAgain

LEMMA DeleteBeginTypes ==
  ASSUME TypeInv, NEW r \in Requests, NEW s \in Sessions, DeleteBegin(r, s)
  PROVE  TypeInv'
<1>2. PoolTypeOK'
  BY UnchangedTypes DEF TypeInv, DeleteBegin, lifeVars
<1>3. StoreTypeOK'
  BY UnchangedTypes DEF TypeInv, DeleteBegin, lifeVars
<1>4. RunnersInv' /\ StartedStays
  BY UnchangedTypes DEF TypeInv, DeleteBegin, lifeVars
<1>5. RequestsInv'
  BY <1>4, GotoType DEF TypeInv, DeleteBegin, Steps, RunnersInv
<1> QED BY <1>2, <1>3, <1>4, <1>5 DEF TypeInv, DeleteBegin

LEMMA DeleteEndTypes ==
  ASSUME TypeInv, NEW r \in Requests, DeleteEnd(r)
  PROVE  TypeInv'
<1>1. req[r].pc # "free"
  BY DEF DeleteEnd, At
<1>2. PoolTypeOK'
  BY ReleaseType DEF TypeInv, DeleteEnd
<1>3. StoreTypeOK'
  BY <1>1, HandlerTypes, UpdateStatusType, RemoveRowType DEF TypeInv, DeleteEnd, Terminal
<1>4. RunnersInv' /\ StartedStays
  BY KillEndsType DEF TypeInv, DeleteEnd
<1>5. RequestsInv'
  BY <1>1, HandlerTypes, <1>4, FinishType DEF TypeInv, DeleteEnd
<1> QED BY <1>2, <1>3, <1>4, <1>5 DEF TypeInv, DeleteEnd


LEMMA ContainerStartsTypes ==
  ASSUME TypeInv, NEW r \in Requests, NEW c \in Containers, ContainerStarts(r, c)
  PROVE  TypeInv'
<1>1. req[r].pc # "free" /\ req[r].sid \in Sessions
  BY HandlerTypes DEF ContainerStarts
<1>2. Started' = Started \cup {c}
  BY DEF TypeInv, RunnersInv, DockerTypeOK, ContainerStarts, EngineStarts, Started
<1>3. RunnersInv'
  BY <1>1, <1>2 DEF TypeInv, RunnersInv, DockerTypeOK, BridgeTypeOK, bridgeVars,
                    ContainerStarts, EngineStarts, Started
<1>4. RequestsInv'
  BY <1>2 DEF TypeInv, RequestsInv, ReqTypeOK, ContainerStarts
<1> QED BY <1>3, <1>4, UnchangedTypes DEF TypeInv, ContainerStarts

LEMMA WaitTimesOutTypes ==
  ASSUME TypeInv, NEW r \in Requests, WaitTimesOut(r)
  PROVE  TypeInv'
<1>1. StartedStays
  BY UnchangedTypes DEF WaitTimesOut, lifeVars
<1>2. RequestsInv'
  BY <1>1, RejectedType DEF TypeInv, RequestsInv, ReqTypeOK, WaitTimesOut, StartedStays
<1> QED BY <1>2, UnchangedTypes DEF TypeInv, WaitTimesOut, lifeVars
-----------------------------------------------------------------------------
(***************************************************************************)
(* So does everything else that happens.                                   *)
(***************************************************************************)
LEMMA PinTypes ==
  ASSUME TypeInv, NEW s \in Sessions, Pin(s)
  PROVE  TypeInv'
<1>1. StoreTypeOK'
  BY DEF TypeInv, StoreTypeOK, Pin, SetPinned
<1> QED BY <1>1, UnchangedTypes DEF TypeInv, Pin

LEMMA RunnerTypes ==
  ASSUME TypeInv, NEW c \in Containers, RunnerActs(c)
  PROVE  TypeInv'
<1>1. CASE ReportsReady(c)
  <2>1. StoreTypeOK'
    BY <1>1, UpdateStatusType DEF TypeInv, ReportsReady, NonTerminal
  <2>2. RunnersInv' /\ StartedStays
    BY <1>1, RegisterType, UnchangedTypes DEF TypeInv, ReportsReady
  <2>3. RequestsInv'
    BY <1>1, <2>2, ResolveWaitersType DEF TypeInv, ReportsReady
  <2> QED BY <1>1, <2>1, <2>2, <2>3, UnchangedTypes DEF TypeInv, ReportsReady
<1>2. CASE ReportsBusy(c)
  <2>1. StoreTypeOK'
    BY <1>2, UpdateStatusType DEF TypeInv, ReportsBusy, NonTerminal
  <2>2. RunnersInv' /\ StartedStays
    BY <1>2, RegisterType, UnchangedTypes DEF TypeInv, ReportsBusy
  <2> QED BY <1>2, <2>1, <2>2, UnchangedTypes DEF TypeInv, ReportsBusy
<1>3. CASE ReportsError(c)
  <2>1. StoreTypeOK'
    BY <1>3, UpdateStatusType DEF TypeInv, ReportsError, Terminal
  <2>2. RunnersInv' /\ StartedStays
    BY <1>3, RegisterType, UnchangedTypes DEF TypeInv, ReportsError
  <2>3. RequestsInv'
    BY <1>3, <2>2, RejectWaitersType DEF TypeInv, ReportsError
  <2> QED BY <1>3, <2>1, <2>2, <2>3, UnchangedTypes DEF TypeInv, ReportsError
<1>4. CASE ReportsSessionInit(c)
  <2>1. RunnersInv' /\ StartedStays /\ owner[c] \in Sessions
    BY <1>4, RegisterType, UnchangedTypes DEF TypeInv, ReportsSessionInit
  <2>2. StoreTypeOK'
    BY <1>4, <2>1 DEF TypeInv, StoreTypeOK, ReportsSessionInit, SetSdkSessionId
  <2> QED BY <1>4, <2>1, <2>2, UnchangedTypes DEF TypeInv, ReportsSessionInit
<1>5. CASE ReportsSnapshot(c)
  <2>1. RunnersInv' /\ StartedStays /\ owner[c] \in Sessions
    BY <1>5, RegisterType, UnchangedTypes DEF TypeInv, ReportsSnapshot
  <2>2. StoreTypeOK'
    BY <1>5, <2>1 DEF TypeInv, StoreTypeOK, ReportsSnapshot, InsertSnapshot
  <2> QED BY <1>5, <2>1, <2>2, UnchangedTypes DEF TypeInv, ReportsSnapshot
<1>6. CASE SocketCloses(c)
  <2>1. StoreTypeOK'
    BY <1>6, UpdateStatusType, UnchangedTypes DEF TypeInv, SocketCloses, Terminal
  <2>2. RunnersInv' /\ StartedStays
    BY <1>6, CloseSocketType, UnchangedTypes DEF TypeInv, SocketCloses
  <2> QED BY <1>6, <2>1, <2>2, UnchangedTypes DEF TypeInv, SocketCloses
<1>7. CASE SupersededCloses(c)
  <2>1. RunnersInv' /\ StartedStays
    BY <1>7, UnchangedTypes DEF TypeInv, RunnersInv, DockerTypeOK, BridgeTypeOK, dockerVars,
                                SupersededCloses, Started
  <2> QED BY <1>7, <2>1, UnchangedTypes DEF TypeInv, SupersededCloses
<1>8. CASE RunnerExits(c)
  <2>1. Started' = Started
    BY <1>8 DEF TypeInv, RunnersInv, DockerTypeOK, RunnerExits, Started
  <2>2. RunnersInv' /\ StartedStays
    BY <1>8, <2>1 DEF TypeInv, RunnersInv, DockerTypeOK, BridgeTypeOK, bridgeVars,
                      RunnerExits, StartedStays
  <2> QED BY <1>8, <2>2, UnchangedTypes DEF TypeInv, RunnerExits
<1> QED BY <1>1, <1>2, <1>3, <1>4, <1>5, <1>6, <1>7, <1>8 DEF RunnerActs

LEMMA RestartTypes ==
  ASSUME TypeInv, Restart
  PROVE  TypeInv'
<1>1. Started' = Started
  BY DEF Restart, Recover, Started
<1>2. RunnersInv'
  <2>1. \A s \in Sessions : containers'[s] \in Started \cup {None}
    BY DEF TypeInv, StoreTypeOK, Restart, Recover, Started
  <2>2. containers' \in [Sessions -> Containers \cup {None}]
    BY <2>1 DEF Restart, Recover, Started
  <2> QED BY <1>1, <2>1, <2>2 DEF TypeInv, RunnersInv, DockerTypeOK, BridgeTypeOK, Restart, Recover
<1>3. StoreTypeOK'
  <2>1. \A s \in Sessions : Reconciled(s) \in Terminal \cup NonTerminal \cup {"absent"}
    BY DEF TypeInv, StoreTypeOK, Reconciled, Terminal, NonTerminal
  <2> QED BY <2>1 DEF TypeInv, StoreTypeOK, Restart
<1>4. PoolTypeOK'
  BY RestoreType DEF TypeInv, StoreTypeOK, Restart
<1>5. RequestsInv'
  BY DEF RequestsInv, ReqTypeOK, Restart, Free, Steps
<1> QED BY <1>2, <1>3, <1>4, <1>5 DEF TypeInv, Restart
-----------------------------------------------------------------------------
LEMMA TypeInit == Init => TypeInv
<1> SUFFICES ASSUME Init PROVE TypeInv
  OBVIOUS
<1>1. PoolTypeOK
  BY NumTokensAssumption DEF Init, PoolInit, PoolTypeOK, Tokens
<1>2. StoreTypeOK
  BY DEF Init, StoreInit, StoreTypeOK
<1>3. RunnersInv
  BY DEF Init, DockerInit, BridgeInit, RunnersInv, DockerTypeOK, BridgeTypeOK, Started
<1>4. RequestsInv
  BY DEF Init, RequestsInv, ReqTypeOK, Free, Steps
<1> QED BY <1>1, <1>2, <1>3, <1>4 DEF TypeInv, Init

LEMMA TypeStep == TypeInv /\ [Next]_vars => TypeInv'
<1> SUFFICES ASSUME TypeInv, [Next]_vars PROVE TypeInv'
  OBVIOUS
<1>1. ASSUME NEW r \in Requests, Continues(r) PROVE TypeInv'
  BY <1>1, EvictEndTypes, AssignTokenTypes, SpawnReturnsTypes, SpawnThrowsTypes, RowRefusedTypes,
     UndoEndTypes, ResumeAssignsTypes, ResumeSpawnedTypes, ResumeThrowsTypes, ResumeFailsTypes,
     StopEndTypes, DeleteEndTypes, WaitTimesOutTypes, ContainerStartsTypes DEF Continues
<1>2. ASSUME NEW r \in Requests, NEW s \in Sessions, Arrives(r, s) PROVE TypeInv'
  BY <1>2, CreateBeginTypes, ResumeBeginTypes, StopBeginTypes, StopAgainTypes, DeleteBeginTypes
  DEF Arrives
<1>3. CASE UNCHANGED vars
  BY <1>3, UnchangedTypes DEF TypeInv, vars, lifeVars
<1> QED BY <1>1, <1>2, <1>3, PinTypes, RunnerTypes, RestartTypes DEF Next

\* Type correctness: whatever requests, runners and crashes do, every table of
\* the orchestrator keeps its type.
THEOREM TypeCorrect == Spec => []TypeOK
<1>1. TypeInv => TypeOK
  BY DEF TypeInv, RunnersInv, RequestsInv, TypeOK
<1> QED BY <1>1, TypeInit, TypeStep, PTL DEF Spec
-----------------------------------------------------------------------------
(***************************************************************************)
(* A session shown as starting is accounted for.  StartingIsAwaited is not *)
(* inductive: a resume forgets the container of the session it kills, and  *)
(* the invariant has to say that no resume is about to do that to a row a  *)
(* restart has found starting.                                             *)
(***************************************************************************)
Accounted(s) ==
  \/ Awaited(s)
  \/ s \in snapshotted
  \/ /\ restarts > 0 /\ containers[s] # None
     /\ \A r \in Requests : ~(At(r, "killing") /\ req[r].sid = s)

StartingInv == \A s \in Sessions : status[s] = "starting" => Accounted(s)

\* What accounts for s is not disturbed by a step that takes none of it away.
LEMMA AccountedStays ==
  ASSUME NEW s \in Sessions, Accounted(s),
         \A q \in Requests : req[q].sid = s /\ req[q].pc \in Waiting \cup UndoSteps
                               => req'[q].sid = s /\ req'[q].pc \in Waiting \cup UndoSteps,
         \A q \in Requests : req'[q].pc = "killing" /\ req'[q].sid = s
                               => req[q].pc = "killing" /\ req[q].sid = s,
         snapshotted \subseteq snapshotted', restarts' = restarts,
         containers[s] # None => containers'[s] # None
  PROVE  Accounted(s)'
BY DEF Accounted, Awaited, At

\* A request that waits for nothing goes on and kills nothing.
LEMMA MovesOn ==
  ASSUME NEW s \in Sessions, Accounted(s), NEW r \in Requests,
         req[r].pc \notin Waiting \cup UndoSteps, req'[r].pc # "killing",
         \A q \in Requests \ {r} : req'[q] = req[q],
         snapshotted \subseteq snapshotted', restarts' = restarts,
         containers[s] # None => containers'[s] # None
  PROVE  Accounted(s)'
BY AccountedStays

\* A step that leaves the requests and the containers alone.
LEMMA NothingMoves ==
  ASSUME NEW s \in Sessions, Accounted(s), UNCHANGED <<req, restarts, containers>>,
         snapshotted \subseteq snapshotted'
  PROVE  Accounted(s)'
BY AccountedStays

LEMMA GotoMoves ==
  ASSUME TypeInv, NEW r \in Requests, NEW step, NEW s, NEW held, NEW token,
         Goto(r, step, s, held, token)
  PROVE  /\ req'[r].pc = step /\ req'[r].sid = s
         /\ \A q \in Requests \ {r} : req'[q] = req[q]
BY DEF TypeInv, RequestsInv, ReqTypeOK, Goto, Free

LEMMA FinishMoves ==
  ASSUME TypeInv, NEW r \in Requests, Finish(r)
  PROVE  req'[r].pc = "free" /\ \A q \in Requests \ {r} : req'[q] = req[q]
BY DEF TypeInv, RequestsInv, ReqTypeOK, Finish, Free

LEMMA CapacityMoves ==
  ASSUME TypeInv, NEW r \in Requests, NEW s, NEW cands, NEW count,
         CapacityDecision(r, s, cands, count)
  PROVE  /\ req'[r].pc # "killing" /\ \A q \in Requests \ {r} : req'[q] = req[q]
         /\ req'[r].pc \in {"admitted", "spawning"} => MaxActive = 0 \/ count < MaxActive
<1>1. CASE (MaxActive = 0 \/ count < MaxActive) /\ Goto(r, "admitted", s, None, None)
  BY <1>1, GotoMoves
<1>2. CASE Finish(r)
  BY <1>2, FinishMoves
<1>3. CASE \E v \in cands :
             req' = [req EXCEPT ![r] = [Free EXCEPT !.pc = "evicting", !.sid = s, !.victim = v,
                                          !.held = containers[v], !.cands = cands \ {v}]]
  BY <1>3 DEF TypeInv, RequestsInv, ReqTypeOK, Free
<1> QED BY <1>1, <1>2, <1>3 DEF CapacityDecision

LEMMA KillSpares ==
  ASSUME TypeInv, NEW r \in Requests, NEW v, NEW s \in Sessions, s # v, KillEnds(r, v)
  PROVE  containers'[s] = containers[s]
BY DEF TypeInv, RunnersInv, DockerTypeOK, KillEnds, FinishKill

LEMMA TrackKeeps ==
  ASSUME TypeInv, NEW c \in Containers, NEW v, NEW s \in Sessions, Track(v, c)
  PROVE  containers[s] # None => containers'[s] # None
BY NoneAssumption DEF TypeInv, RunnersInv, DockerTypeOK, Track

LEMMA StatusUpdated ==
  ASSUME TypeInv, NEW v, NEW st, NEW s \in Sessions, UpdateStatus(v, st), status'[s] = "starting",
         st # "starting"
  PROVE  s # v /\ status[s] = "starting" /\ snapshotted' = snapshotted
BY DEF TypeInv, StoreTypeOK, UpdateStatus, WithStatus, HasRow

LEMMA RowRemoved ==
  ASSUME TypeInv, NEW v, NEW s \in Sessions, RemoveRow(v), status'[s] = "starting"
  PROVE  s # v /\ status[s] = "starting" /\ snapshotted' = snapshotted
BY DEF TypeInv, StoreTypeOK, RemoveRow

LEMMA RequestsAccount ==
  ASSUME TypeInv, StartingInv, NEW r \in Requests, Continues(r),
         NEW s \in Sessions, status'[s] = "starting"
  PROVE  Accounted(s)'
<1> USE DEF StartingInv
<1>1. CASE EvictEnd(r)
  <2>1. s # req[r].victim /\ status[s] = "starting" /\ snapshotted' = snapshotted
    BY <1>1, StatusUpdated DEF EvictEnd
  <2>2. containers'[s] = containers[s]
    BY <1>1, <2>1, KillSpares DEF EvictEnd
  <2>3. req'[r].pc # "killing" /\ \A q \in Requests \ {r} : req'[q] = req[q]
    BY <1>1, CapacityMoves DEF EvictEnd
  <2> QED BY <1>1, <2>1, <2>2, <2>3, MovesOn DEF EvictEnd, At, Waiting, UndoSteps
<1>2. CASE AssignToken(r)
  BY <1>2, GotoMoves, MovesOn DEF AssignToken, At, Waiting, UndoSteps, storeVars, dockerVars
<1>3. CASE SpawnReturns(r)
  <2>1. req'[r].pc = "waiting" /\ req'[r].sid = req[r].sid
        /\ \A q \in Requests \ {r} : req'[q] = req[q]
    BY <1>3, GotoMoves DEF SpawnReturns
  <2>2. CASE s = req[r].sid
    BY <2>1, <2>2 DEF Accounted, Awaited, Waiting
  <2>3. CASE s # req[r].sid
    <3>1. status[s] = "starting" /\ snapshotted' = snapshotted
      BY <1>3, <2>3 DEF TypeInv, StoreTypeOK, SpawnReturns, CreateRow
    <3>2. containers[s] # None => containers'[s] # None
      BY <1>3, TrackKeeps DEF TypeInv, RequestsInv, ReqTypeOK, SpawnReturns
    <3> QED BY <1>3, <2>1, <3>1, <3>2, MovesOn DEF SpawnReturns, At, Waiting, UndoSteps
  <2> QED BY <2>2, <2>3
<1>4. CASE SpawnThrows(r)
  BY <1>4, GotoMoves, MovesOn DEF SpawnThrows, At, Waiting, UndoSteps, storeVars, dockerVars
<1>5. CASE RowRefused(r)
  <2>1. req'[r].pc = "undoing" /\ \A q \in Requests \ {r} : req'[q] = req[q]
    BY <1>5, GotoMoves DEF RowRefused
  <2>2. containers[s] # None => containers'[s] # None
    BY <1>5, TrackKeeps DEF TypeInv, RequestsInv, ReqTypeOK, RowRefused
  <2> QED BY <1>5, <2>1, <2>2, MovesOn DEF RowRefused, At, Waiting, UndoSteps, storeVars
<1>6. CASE UndoEnd(r)
  <2>1. req'[r].pc = "free" /\ \A q \in Requests \ {r} : req'[q] = req[q]
    BY <1>6, FinishMoves DEF UndoEnd
  <2>2. CASE s = req[r].sid
    BY <1>6, <2>2, RowRemoved DEF UndoEnd, Accounted, storeVars
  <2>3. CASE s # req[r].sid
    <3>1. status[s] = "starting" /\ snapshotted' = snapshotted
      BY <1>6, RowRemoved DEF UndoEnd, storeVars
    <3>2. containers'[s] = containers[s]
      BY <1>6, <2>3, KillSpares DEF UndoEnd
    <3>3. \A q \in Requests : req[q].sid = s /\ req[q].pc \in Waiting \cup UndoSteps
                               => req'[q].sid = s /\ req'[q].pc \in Waiting \cup UndoSteps
      BY <2>1, <2>3
    <3> QED BY <1>6, <2>1, <3>1, <3>2, <3>3, AccountedStays DEF UndoEnd
  <2> QED BY <2>2, <2>3
<1>7. CASE ResumeAssigns(r)
  <2>1. req'[r].pc = "respawning" /\ \A q \in Requests \ {r} : req'[q] = req[q]
    BY <1>7, GotoMoves DEF ResumeAssigns
  <2>2. status[s] = "starting" /\ snapshotted' = snapshotted /\ Accounted(s)
    BY <1>7 DEF ResumeAssigns, storeVars
  <2>3. CASE s = req[r].sid
    <3>1. Awaited(s) \/ s \in snapshotted
      BY <1>7, <2>2, <2>3 DEF ResumeAssigns, Accounted, At
    <3> QED BY <1>7, <2>1, <2>2, <3>1 DEF ResumeAssigns, Accounted, Awaited, At, Waiting, UndoSteps
  <2>4. CASE s # req[r].sid
    <3>1. containers'[s] = containers[s]
      BY <1>7, <2>4, KillSpares DEF ResumeAssigns
    <3> QED BY <1>7, <2>1, <2>2, <3>1, MovesOn DEF ResumeAssigns, At, Waiting, UndoSteps
  <2> QED BY <2>3, <2>4
<1>8. CASE ResumeSpawned(r)
  <2>1. req'[r].pc = "rewaiting" /\ req'[r].sid = req[r].sid
        /\ \A q \in Requests \ {r} : req'[q] = req[q]
    BY <1>8, GotoMoves DEF ResumeSpawned
  <2>2. CASE s = req[r].sid
    BY <2>1, <2>2 DEF Accounted, Awaited, Waiting
  <2>3. CASE s # req[r].sid
    <3>1. status[s] = "starting" /\ snapshotted' = snapshotted
      BY <1>8, <2>3 DEF TypeInv, StoreTypeOK, ResumeSpawned, Reactivate, WithStatus
    <3>2. containers[s] # None => containers'[s] # None
      BY <1>8, TrackKeeps DEF TypeInv, RequestsInv, ReqTypeOK, ResumeSpawned
    <3> QED BY <1>8, <2>1, <3>1, <3>2, MovesOn DEF ResumeSpawned, At, Waiting, UndoSteps
  <2> QED BY <2>2, <2>3
<1>9. CASE ResumeThrows(r)
  BY <1>9, GotoMoves, MovesOn DEF ResumeThrows, At, Waiting, UndoSteps, lifeVars, storeVars, dockerVars
<1>10. CASE ResumeFails(r)
  <2>1. req'[r].pc = "free" /\ \A q \in Requests \ {r} : req'[q] = req[q]
    BY <1>10, FinishMoves DEF ResumeFails
  <2>2. s # req[r].sid /\ status[s] = "starting" /\ snapshotted' = snapshotted
    BY <1>10, StatusUpdated DEF ResumeFails
  <2>3. containers'[s] = containers[s]
    BY <1>10, <2>2, KillSpares DEF ResumeFails
  <2>4. \A q \in Requests : req[q].sid = s /\ req[q].pc \in Waiting \cup UndoSteps
                             => req'[q].sid = s /\ req'[q].pc \in Waiting \cup UndoSteps
    BY <2>1, <2>2
  <2> QED BY <1>10, <2>1, <2>2, <2>3, <2>4, AccountedStays DEF ResumeFails
<1>11. CASE StopEnd(r)
  <2>1. req'[r].pc = "free" /\ \A q \in Requests \ {r} : req'[q] = req[q]
    BY <1>11, FinishMoves DEF StopEnd
  <2>2. s # req[r].sid /\ status[s] = "starting" /\ snapshotted' = snapshotted
    BY <1>11, StatusUpdated DEF StopEnd
  <2>3. containers'[s] = containers[s]
    BY <1>11, <2>2, KillSpares DEF StopEnd
  <2> QED BY <1>11, <2>1, <2>2, <2>3, MovesOn DEF StopEnd, At, Waiting, UndoSteps
<1>12. CASE DeleteEnd(r)
  <2>1. req'[r].pc = "free" /\ \A q \in Requests \ {r} : req'[q] = req[q]
    BY <1>12, FinishMoves DEF DeleteEnd
  <2>2. s # req[r].sid /\ status[s] = "starting" /\ snapshotted' = snapshotted
    BY <1>12, StatusUpdated, RowRemoved DEF DeleteEnd
  <2>3. containers'[s] = containers[s]
    BY <1>12, <2>2, KillSpares DEF DeleteEnd
  <2> QED BY <1>12, <2>1, <2>2, <2>3, MovesOn DEF DeleteEnd, At, Waiting, UndoSteps
<1>13. CASE WaitTimesOut(r)
  <2>1. \A q \in Requests : req[q].sid = s /\ req[q].pc \in Waiting \cup UndoSteps
                             => req'[q].sid = s /\ req'[q].pc \in Waiting \cup UndoSteps
    BY <1>13, RejectedType DEF TypeInv, RequestsInv, ReqTypeOK, WaitTimesOut
  <2>2. \A q \in Requests : req'[q].pc = "killing" => req'[q] = req[q]
    BY <1>13, RejectedType DEF TypeInv, RequestsInv, ReqTypeOK, WaitTimesOut, UndoSteps
  <2> QED BY <1>13, <2>1, <2>2, AccountedStays DEF WaitTimesOut, lifeVars, storeVars, dockerVars
<1>14. ASSUME NEW c \in Containers, ContainerStarts(r, c) PROVE Accounted(s)'
  <2>1. \A q \in Requests : req'[q].pc = req[q].pc /\ req'[q].sid = req[q].sid
    BY <1>14 DEF TypeInv, RequestsInv, ReqTypeOK, ContainerStarts
  <2> QED BY <1>14, <2>1, AccountedStays DEF ContainerStarts, EngineStarts, storeVars
<1> QED BY <1>1, <1>2, <1>3, <1>4, <1>5, <1>6, <1>7, <1>8, <1>9, <1>10, <1>11, <1>12, <1>13, <1>14
        DEF Continues

LEMMA ArrivalsAccount ==
  ASSUME TypeInv, StartingInv, NEW r \in Requests, NEW t \in Sessions, Arrives(r, t),
         NEW s \in Sessions, status'[s] = "starting"
  PROVE  Accounted(s)'
<1> USE DEF StartingInv
<1>1. CASE CreateBegin(r, t)
  <2>1. req'[r].pc # "killing" /\ \A q \in Requests \ {r} : req'[q] = req[q]
    BY <1>1, CapacityMoves DEF CreateBegin
  <2> QED BY <1>1, <2>1, MovesOn
          DEF CreateBegin, At, Waiting, UndoSteps, lifeVars, storeVars, dockerVars
<1>2. CASE ResumeBegin(r, t)
  <2>1. req'[r].sid = t /\ \A q \in Requests \ {r} : req'[q] = req[q]
    BY <1>2, GotoMoves DEF ResumeBegin
  <2>2. status[s] = "starting" /\ s # t
    BY <1>2 DEF ResumeBegin, storeVars, Terminal
  <2>3. req[r].pc = "free"
    BY <1>2 DEF ResumeBegin, MayBegin, At
  <2>4. \A q \in Requests : req[q].sid = s /\ req[q].pc \in Waiting \cup UndoSteps
                             => req'[q].sid = s /\ req'[q].pc \in Waiting \cup UndoSteps
    BY <2>1, <2>3 DEF Waiting, UndoSteps
  <2>5. \A q \in Requests : req'[q].pc = "killing" /\ req'[q].sid = s
                             => req[q].pc = "killing" /\ req[q].sid = s
    BY <2>1, <2>2
  <2> QED BY <1>2, <2>2, <2>4, <2>5, AccountedStays DEF ResumeBegin, storeVars, dockerVars
<1>3. CASE StopBegin(r, t)
  BY <1>3, GotoMoves, MovesOn
  DEF StopBegin, MayBegin, At, Waiting, UndoSteps, lifeVars, storeVars, dockerVars
<1>4. CASE StopAgain(r, t)
  BY <1>4, NothingMoves DEF StopAgain, storeVars, dockerVars
<1>5. CASE DeleteBegin(r, t)
  BY <1>5, GotoMoves, MovesOn
  DEF DeleteBegin, MayBegin, At, Waiting, UndoSteps, lifeVars, storeVars, dockerVars
<1> QED BY <1>1, <1>2, <1>3, <1>4, <1>5 DEF Arrives

LEMMA RunnersAccount ==
  ASSUME TypeInv, StartingInv, NEW c \in Containers, RunnerActs(c),
         NEW s \in Sessions, status'[s] = "starting"
  PROVE  Accounted(s)'
<1> USE DEF StartingInv
<1>1. CASE ReportsReady(c)
  <2>1. s # owner[c] /\ status[s] = "starting" /\ snapshotted' = snapshotted
    BY <1>1, StatusUpdated DEF ReportsReady
  <2>2. \A q \in Requests : req[q].sid = s => req'[q] = req[q]
    BY <1>1, <2>1 DEF ReportsReady, ResolveWaiters, WaitersOf
  <2>3. \A q \in Requests : req'[q].pc = "killing" => req'[q] = req[q]
    BY <1>1 DEF ReportsReady, ResolveWaiters, Free
  <2> QED BY <1>1, <2>1, <2>2, <2>3, AccountedStays DEF ReportsReady, dockerVars
<1>2. CASE ReportsBusy(c)
  BY <1>2, StatusUpdated, NothingMoves DEF ReportsBusy, dockerVars
<1>3. CASE ReportsError(c)
  <2>1. s # owner[c] /\ status[s] = "starting" /\ snapshotted' = snapshotted
    BY <1>3, StatusUpdated DEF ReportsError
  <2>2. \A q \in Requests : req[q].sid = s => req'[q] = req[q]
    BY <1>3, <2>1 DEF ReportsError, RejectWaiters, WaitersOf
  <2>3. \A q \in Requests : req'[q].pc = "killing" => req'[q] = req[q]
    BY <1>3, RejectedType DEF TypeInv, ReportsError, RejectWaiters, WaitersOf, UndoSteps
  <2> QED BY <1>3, <2>1, <2>2, <2>3, AccountedStays DEF ReportsError, dockerVars
<1>4. CASE ReportsSessionInit(c)
  BY <1>4, NothingMoves DEF ReportsSessionInit, SetSdkSessionId, dockerVars
<1>5. CASE ReportsSnapshot(c)
  <2>1. status[s] = "starting" /\ snapshotted \subseteq snapshotted'
    BY <1>5 DEF ReportsSnapshot, InsertSnapshot
  <2> QED BY <1>5, <2>1, NothingMoves DEF ReportsSnapshot, dockerVars
<1>6. CASE SocketCloses(c)
  <2>1. status[s] = "starting" /\ snapshotted' = snapshotted
    BY <1>6, StatusUpdated DEF SocketCloses, storeVars
  <2> QED BY <1>6, <2>1, NothingMoves DEF SocketCloses, dockerVars
<1>7. CASE SupersededCloses(c)
  BY <1>7, NothingMoves DEF SupersededCloses, storeVars, dockerVars
<1>8. CASE RunnerExits(c)
  BY <1>8, NothingMoves DEF RunnerExits, storeVars
<1> QED BY <1>1, <1>2, <1>3, <1>4, <1>5, <1>6, <1>7, <1>8 DEF RunnerActs

\* A restart leaves no request, so a row that is still starting has its
\* container tracked again.
LEMMA RestartAccounts ==
  ASSUME TypeInv, Restart, NEW s \in Sessions, status'[s] = "starting"
  PROVE  Accounted(s)'
<1>1. Reconciled(s) = "starting"
  BY DEF Restart
<1>2. containers'[s] # None
  BY <1>1 DEF Reconciled, Active, NonTerminal
<1>3. restarts' > 0
  BY DEF TypeInv, Restart
<1>4. \A q \in Requests : req'[q].pc # "killing"
  BY DEF Restart, Free
<1> QED BY <1>2, <1>3, <1>4 DEF Accounted, At

LEMMA StartingStep == TypeInv /\ StartingInv /\ [Next]_vars => StartingInv'
<1> SUFFICES ASSUME TypeInv, StartingInv, [Next]_vars, NEW s \in Sessions, status'[s] = "starting"
             PROVE  Accounted(s)'
  BY DEF StartingInv
<1>1. ASSUME NEW t \in Sessions, Pin(t) PROVE Accounted(s)'
  BY <1>1, NothingMoves DEF StartingInv, Pin, SetPinned, dockerVars
<1>2. CASE UNCHANGED vars
  BY <1>2, NothingMoves DEF StartingInv, vars, lifeVars, storeVars, dockerVars
<1> QED BY <1>1, <1>2, RequestsAccount, ArrivalsAccount, RunnersAccount, RestartAccounts DEF Next

\* No session is left starting with nobody waiting for it: whatever way the
\* requests on it overlap, fail or time out, each undoes or reports what it
\* began, and a restart keeps only what runs.
THEOREM StartingAlwaysAwaited == Spec => []StartingIsAwaited
<1>1. Init => StartingInv
  BY DEF Init, StoreInit, StartingInv
<1>2. StartingInv => StartingIsAwaited
  BY DEF StartingInv, Accounted, StartingIsAwaited
<1> QED BY <1>1, <1>2, TypeInit, TypeStep, StartingStep, PTL DEF Spec
-----------------------------------------------------------------------------
(***************************************************************************)
(* Which steps stop a session no request works on.                         *)
(***************************************************************************)
\* Requests stop only the sessions they work on.
LEMMA RequestsStopTheirOwn ==
  ASSUME TypeInv, NEW r \in Requests, Continues(r),
         NEW s \in Active, status'[s] = "stopped"
  PROVE  ~Quiet(s)
<1> USE DEF Active, NonTerminal, Quiet
<1>1. CASE EvictEnd(r)
  BY <1>1 DEF EvictEnd, UpdateStatus, WithStatus
<1>2. CASE SpawnReturns(r)
  BY <1>2 DEF TypeInv, StoreTypeOK, SpawnReturns, CreateRow
<1>3. CASE UndoEnd(r)
  BY <1>3 DEF TypeInv, StoreTypeOK, UndoEnd, RemoveRow, storeVars
<1>4. CASE ResumeSpawned(r)
  BY <1>4 DEF TypeInv, StoreTypeOK, ResumeSpawned, Reactivate, WithStatus
<1>5. CASE ResumeFails(r)
  BY <1>5 DEF ResumeFails, UpdateStatus, WithStatus
<1>6. CASE StopEnd(r)
  BY <1>6 DEF StopEnd, UpdateStatus, WithStatus
<1>7. CASE DeleteEnd(r)
  BY <1>7 DEF TypeInv, StoreTypeOK, DeleteEnd, UpdateStatus, WithStatus, RemoveRow
<1>8. CASE UNCHANGED status
  BY <1>8
<1> QED BY <1>1, <1>2, <1>3, <1>4, <1>5, <1>6, <1>7, <1>8
        DEF Continues, AssignToken, SpawnThrows, RowRefused, ResumeAssigns, ResumeThrows,
            WaitTimesOut, ContainerStarts, lifeVars, storeVars

\* A runner stops a session only by losing the connection its commands go to.
LEMMA RunnersStopOnlyWhenLost ==
  ASSUME TypeInv, NEW c \in Containers, RunnerActs(c),
         NEW s \in Active, status'[s] = "stopped"
  PROVE  connections[s] \notin sockets'
<1> USE DEF Active, NonTerminal, TypeInv, StoreTypeOK
<1>1. CASE SocketCloses(c)
  <2>1. connections[s] = c
    BY <1>1 DEF SocketCloses, UpdateStatus, WithStatus, IsActiveConnection, storeVars
  <2> QED BY <1>1, <2>1 DEF SocketCloses, CloseSocket
<1>2. CASE ReportsReady(c) \/ ReportsBusy(c) \/ ReportsError(c)
  BY <1>2 DEF ReportsReady, ReportsBusy, ReportsError, UpdateStatus, WithStatus
<1>3. CASE UNCHANGED status
  BY <1>3
<1> QED BY <1>1, <1>2, <1>3
        DEF RunnerActs, ReportsSessionInit, SetSdkSessionId, ReportsSnapshot, InsertSnapshot,
            SupersededCloses, RunnerExits, storeVars

\* A session is stopped behind the back of the requests only when the socket
\* its commands go to is lost, however many sockets its containers had before.
THEOREM StopsOnlyWhenLost == Spec => OnlyLostConnectionStops
<1> DEFINE Lost == \A s \in Active :
              status'[s] = "stopped" /\ Quiet(s) /\ restarts' = restarts
                => connections[s] \notin sockets'
<1>1. TypeInv /\ [Next]_vars => [Lost]_vars
  <2> SUFFICES ASSUME TypeInv, Next, NEW s \in Active,
                      status'[s] = "stopped", Quiet(s), restarts' = restarts
               PROVE  connections[s] \notin sockets'
    OBVIOUS
  <2>1. ~Restart
    BY DEF TypeInv, Restart
  <2>2. status' # status
    BY DEF Active, NonTerminal
  <2>3. ASSUME NEW r \in Requests, NEW t \in Sessions, Arrives(r, t) PROVE FALSE
    BY <2>2, <2>3 DEF Arrives, CreateBegin, ResumeBegin, StopBegin, StopAgain, DeleteBegin,
                      lifeVars, storeVars
  <2>4. ASSUME NEW t \in Sessions, Pin(t) PROVE FALSE
    BY <2>2, <2>4 DEF Pin, SetPinned
  <2> QED BY <2>1, <2>3, <2>4, RequestsStopTheirOwn, RunnersStopOnlyWhenLost DEF Next
<1> QED BY <1>1, TypeInit, TypeStep, PTL DEF Spec, OnlyLostConnectionStops
-----------------------------------------------------------------------------
(***************************************************************************)
(* What a restart finds in the store.                                      *)
(***************************************************************************)
\* A session without a row has no columns either: restore and recovery, which
\* read the columns, read only those of the sessions that exist.
RowsInv == \A s \in Sessions : ~HasRow(s) => rowContainer[s] = None /\ rowToken[s] = None

LEMMA RowsStep == TypeInv /\ RowsInv /\ [Next]_vars => RowsInv'
<1> USE DEF RowsInv, HasRow
<1> SUFFICES ASSUME TypeInv, RowsInv, [Next]_vars, NEW s \in Sessions, status'[s] = "absent"
             PROVE  rowContainer'[s] = None /\ rowToken'[s] = None
  OBVIOUS
<1>1. CASE UNCHANGED storeVars
  BY <1>1 DEF storeVars
<1>2. ASSUME NEW t, NEW st \in Terminal \cup NonTerminal, UpdateStatus(t, st)
      PROVE  rowContainer'[s] = None /\ rowToken'[s] = None
  BY <1>2 DEF TypeInv, StoreTypeOK, UpdateStatus, WithStatus, Terminal, NonTerminal
<1>3. ASSUME NEW r \in Requests, Continues(r)
      PROVE  rowContainer'[s] = None /\ rowToken'[s] = None
  <2>1. CASE SpawnReturns(r)
    BY <2>1 DEF TypeInv, StoreTypeOK, SpawnReturns, CreateRow
  <2>2. CASE ResumeSpawned(r)
    BY <2>2 DEF TypeInv, StoreTypeOK, ResumeSpawned, Reactivate, WithStatus
  <2>3. CASE UndoEnd(r)
    BY <1>1, <2>3 DEF TypeInv, StoreTypeOK, UndoEnd, RemoveRow, storeVars
  <2>4. CASE DeleteEnd(r)
    BY <1>2, <2>4 DEF TypeInv, StoreTypeOK, DeleteEnd, RemoveRow, Terminal
  <2>5. CASE EvictEnd(r) \/ StopEnd(r) \/ ResumeFails(r)
    BY <1>2, <2>5 DEF EvictEnd, StopEnd, ResumeFails, Terminal
  <2> QED BY <1>1, <1>3, <2>1, <2>2, <2>3, <2>4, <2>5
          DEF Continues, AssignToken, SpawnThrows, RowRefused, ResumeAssigns, ResumeThrows,
              WaitTimesOut, ContainerStarts, lifeVars
<1>4. ASSUME NEW r \in Requests, NEW t \in Sessions, Arrives(r, t) PROVE UNCHANGED storeVars
  BY <1>4 DEF Arrives, CreateBegin, ResumeBegin, StopBegin, StopAgain, DeleteBegin, lifeVars
<1>5. ASSUME NEW t \in Sessions, Pin(t)
      PROVE  rowContainer'[s] = None /\ rowToken'[s] = None
  BY <1>5 DEF Pin, SetPinned
<1>6. ASSUME NEW c \in Containers, RunnerActs(c)
      PROVE  rowContainer'[s] = None /\ rowToken'[s] = None
  BY <1>1, <1>2, <1>6 DEF RunnerActs, ReportsReady, ReportsBusy, ReportsError, ReportsSessionInit,
     SetSdkSessionId, ReportsSnapshot, InsertSnapshot, SocketCloses, SupersededCloses,
     RunnerExits, storeVars, Terminal, NonTerminal
<1>7. CASE Restart
  <2>1. Reconciled(s) = "absent" /\ rowContainer' = rowContainer /\ rowToken' = rowToken
    BY <1>7 DEF Restart
  <2>2. status[s] = "absent"
    BY <2>1 DEF Reconciled
  <2> QED BY <2>1, <2>2
<1>8. CASE UNCHANGED vars
  BY <1>1, <1>8 DEF vars, lifeVars
<1> QED BY <1>1, <1>3, <1>4, <1>5, <1>6, <1>7, <1>8 DEF Next

\* The reconciliation of one session.
LEMMA RestartReconcilesOne ==
  ASSUME TypeInv, RowsInv, Restart, NEW s \in Sessions
  PROVE  IF s \in Active'
           THEN /\ containers'[s] = rowContainer[s] /\ life[rowContainer[s]] = "live"
                /\ sessionTokens'[s] = rowToken[s]
           ELSE containers'[s] = None /\ sessionTokens'[s] = None
<1>1. status'[s] = Reconciled(s)
  BY DEF Restart
<1>2. sessionTokens'[s] = IF s \in Active' THEN rowToken[s] ELSE None
  BY DEF Restart, Restore
<1>3. containers'[s] = IF rowContainer[s] # None /\ life[rowContainer[s]] = "live"
                         THEN rowContainer[s] ELSE None
  BY DEF Restart, Recover
<1>4. s \in Active' <=> containers'[s] # None
  <2>1. CASE containers'[s] # None
    <3>1. status[s] \in Terminal \cup NonTerminal
      BY <1>3, <2>1 DEF TypeInv, StoreTypeOK, RowsInv, HasRow
    <3> QED BY <1>1, <2>1, <3>1 DEF Reconciled, Active, NonTerminal
  <2>2. CASE containers'[s] = None
    BY <1>1, <2>2 DEF Reconciled, Active, NonTerminal
  <2> QED BY <2>1, <2>2
<1> QED BY <1>2, <1>3, <1>4

\* Wherever a crash hits, the restart makes the store, the engine and the token
\* pool agree: an active session has its recorded container running and tracked
\* and holds the token of its row, any other session has and holds nothing.
THEOREM RestartAgrees == Spec => RestartReconciles
<1> DEFINE Agrees ==
      restarts' # restarts =>
        \A s \in Sessions :
          IF s \in Active'
            THEN /\ containers'[s] = rowContainer[s] /\ life[rowContainer[s]] = "live"
                 /\ sessionTokens'[s] = rowToken[s]
            ELSE containers'[s] = None /\ sessionTokens'[s] = None
<1>1. Init => RowsInv
  BY DEF Init, StoreInit, RowsInv
<1>2. Next /\ restarts' # restarts => Restart
  BY DEF Next, Continues, Arrives, RunnerActs, Pin, EvictEnd, AssignToken, SpawnReturns,
     SpawnThrows, RowRefused, UndoEnd, ResumeAssigns, ResumeSpawned, ResumeThrows, ResumeFails,
     StopEnd, DeleteEnd, WaitTimesOut, ContainerStarts, CreateBegin, ResumeBegin, StopBegin,
     StopAgain, DeleteBegin, ReportsReady, ReportsBusy, ReportsError, ReportsSessionInit,
     ReportsSnapshot, SocketCloses, SupersededCloses, RunnerExits
<1>3. TypeInv /\ RowsInv /\ [Next]_vars => [Agrees]_vars
  BY <1>2, RestartReconcilesOne
<1> QED BY <1>1, <1>3, TypeInit, TypeStep, RowsStep, PTL DEF Spec, RestartReconciles
-----------------------------------------------------------------------------
(***************************************************************************)
(* What the requests leave behind when no two of them begin on one session *)
(* at once, whatever fails, whoever is evicted and however often the       *)
(* orchestrator crashes.  An eviction, which may hit a session another     *)
(* request works on, only takes away.                                      *)
(***************************************************************************)
OneToken(s) == sessionTokens[s] \in {None, rowToken[s]}

Spawning == {"spawning", "respawning"}

\* What is left of s while the request on it is at the given step, "free" if
\* there is none.
LeftAt(s, step, held, token) ==
  /\ step \in {"free", "waiting", "rewaiting"} \/ (step = "undoing" /\ HasRow(s)) => OneToken(s)
  /\ step = "free" /\ ~HasRow(s) => sessionTokens[s] = None /\ containers[s] = None
  /\ step \in {"evicting", "admitted", "spawning"} => ~HasRow(s) /\ containers[s] = None
  /\ step \in {"evicting", "admitted"} => sessionTokens[s] = None
  /\ step \in Spawning => sessionTokens[s] \in {None, token}
  /\ step \in {"killing", "respawning", "failing", "stopping"} \cup Waiting => HasRow(s)
  /\ step \in {"undoing", "deleting"} => held # None \/ containers[s] = None
  /\ s \in snapshotted => HasRow(s)

Left(s) ==
  /\ \A r, q \in Requests : req[r].sid = s /\ req[q].sid = s => r = q
  /\ \A r \in Requests : req[r].sid = s => LeftAt(s, req[r].pc, req[r].held, req[r].token)
  /\ (\A r \in Requests : req[r].sid # s) => LeftAt(s, "free", None, None)

LeftInv ==
  /\ \A r \in Requests : req[r].pc = "free" => req[r].sid = None
  /\ \A s \in Sessions : Left(s)

\* Its row stays, and nothing is given to t.
Loses(t) ==
  /\ (HasRow(t)' <=> HasRow(t)) /\ rowToken'[t] = rowToken[t]
  /\ sessionTokens'[t] \in {None, sessionTokens[t]}
  /\ containers'[t] \in {None, containers[t]}
  /\ t \in snapshotted' => t \in snapshotted \/ HasRow(t)

LEMMA LosesLeft ==
  ASSUME NEW t, Loses(t), NEW p, NEW h, NEW k, LeftAt(t, p, h, k)
  PROVE  LeftAt(t, p, h, k)'
<1>1. OneToken(t) => OneToken(t)'
  BY DEF OneToken, Loses
<1> QED
  BY <1>1 DEF LeftAt, Loses

\* The step of a handler that did not change.
LEMMA SameLeft ==
  ASSUME NEW t, NEW q, NEW p, NEW h, NEW k, LeftAt(t, p, h, k)',
         p = req'[q].pc, h = req'[q].held, k = req'[q].token
  PROVE  LeftAt(t, req[q].pc, req[q].held, req[q].token)'
BY DEF LeftAt, OneToken

LEMMA LeftStays ==
  ASSUME NEW t, Left(t), Loses(t),
         \A q \in Requests : req[q].sid = t \/ req'[q].sid = t => req'[q] = req[q]
  PROVE  Left(t)'
<1>1. \A q \in Requests : req'[q].sid = t => req[q].sid = t /\ req'[q] = req[q]
  OBVIOUS
<1>2. \A r, q \in Requests : req'[r].sid = t /\ req'[q].sid = t => r = q
  BY <1>1 DEF Left
<1>3. ASSUME NEW q \in Requests, req'[q].sid = t
      PROVE  LeftAt(t, req[q].pc, req[q].held, req[q].token)'
  <2>1. PICK p, h, k : p = req[q].pc /\ h = req[q].held /\ k = req[q].token
    OBVIOUS
  <2>2. LeftAt(t, p, h, k)
    BY <1>1, <1>3, <2>1 DEF Left
  <2>3. p = req'[q].pc /\ h = req'[q].held /\ k = req'[q].token
    BY <1>1, <1>3, <2>1
  <2> QED
    BY <2>2, <2>3, SameLeft, LosesLeft
<1>4. (\A q \in Requests : req'[q].sid # t) => LeftAt(t, "free", None, None)'
  BY LosesLeft DEF Left
<1> QED
  BY <1>2, <1>3, <1>4 DEF Left

\* No handler moves.
LEMMA AllLose ==
  ASSUME LeftInv, req' = req, \A t \in Sessions : Loses(t)
  PROVE  LeftInv'
BY LeftStays DEF LeftInv

\* The handler of r, the only one on s, begins, goes on or ends.
LEMMA LeftMove ==
  ASSUME TypeInv, LeftInv, NEW s \in Sessions, NEW r \in Requests, NEW x,
         req[r].sid = s \/ (req[r].sid = None /\ \A q \in Requests : req[q].sid # s),
         req' = [req EXCEPT ![r] = x],
         \/ x = Free /\ LeftAt(s, "free", None, None)'
         \/ x.sid = s /\ x.pc # "free" /\ LeftAt(s, x.pc, x.held, x.token)',
         \A t \in Sessions \ {s} : Loses(t)
  PROVE  LeftInv'
<1>1. req'[r] = x /\ \A q \in Requests \ {r} : req'[q] = req[q]
  BY DEF TypeInv, RequestsInv, ReqTypeOK
<1>2. Free.sid = None /\ Free.pc = "free"
  BY DEF Free
<1>3. \A q \in Requests : req'[q].pc = "free" => req'[q].sid = None
  BY <1>1, <1>2 DEF LeftInv
<1>4. \A q \in Requests \ {r} : req[q].sid # s
  BY DEF LeftInv, Left
<1>5. ASSUME NEW t \in Sessions, t # s
      PROVE  Left(t)'
  <2>1. \A q \in Requests : req[q].sid = t \/ req'[q].sid = t => req'[q] = req[q]
    BY <1>1, <1>2, <1>5, NoneAssumption
  <2> QED
    BY <1>5, <2>1, LeftStays DEF LeftInv
<1>6. Left(s)'
  <2>1. CASE x = Free /\ LeftAt(s, "free", None, None)'
    <3>1. \A q \in Requests : req'[q].sid # s
      BY <1>1, <1>2, <1>4, <2>1, NoneAssumption
    <3> QED
      BY <2>1, <3>1 DEF Left
  <2>2. CASE x.sid = s /\ LeftAt(s, x.pc, x.held, x.token)'
    <3>1. \A q \in Requests : req'[q].sid = s <=> q = r
      BY <1>1, <1>4, <2>2
    <3>2. PICK p, h, k : p = x.pc /\ h = x.held /\ k = x.token
      OBVIOUS
    <3>3. LeftAt(s, p, h, k)'
      BY <2>2, <3>2 DEF LeftAt, OneToken
    <3>4. LeftAt(s, req[r].pc, req[r].held, req[r].token)'
      BY <1>1, <3>2, <3>3, SameLeft
    <3> QED
      BY <3>1, <3>4 DEF Left
  <2> QED
    BY <2>1, <2>2
<1> QED
  BY <1>3, <1>5, <1>6 DEF LeftInv

LEMMA LeftGoto ==
  ASSUME TypeInv, LeftInv, NEW s \in Sessions, NEW r \in Requests, NEW step, NEW held, NEW token,
         req[r].sid = s \/ (req[r].sid = None /\ \A q \in Requests : req[q].sid # s),
         Goto(r, step, s, held, token), step # "free",
         LeftAt(s, step, held, token)', \A t \in Sessions \ {s} : Loses(t)
  PROVE  LeftInv'
<1> DEFINE x == [Free EXCEPT !.pc = step, !.sid = s, !.held = held, !.token = token]
<1>1. req' = [req EXCEPT ![r] = x]
  BY DEF Goto
<1>2. x.pc = step /\ x.sid = s /\ x.held = held /\ x.token = token
  BY DEF Free
<1> HIDE DEF x
<1>3. PICK y : y = x
  OBVIOUS
<1>4. y.pc = step /\ y.held = held /\ y.token = token
  BY <1>2, <1>3
<1>5. LeftAt(s, y.pc, y.held, y.token)'
  BY <1>4 DEF LeftAt, OneToken
<1> QED
  BY <1>1, <1>2, <1>3, <1>5, LeftMove

LEMMA LeftFinish ==
  ASSUME TypeInv, LeftInv, NEW s \in Sessions, NEW r \in Requests, req[r].sid = s, Finish(r),
         LeftAt(s, "free", None, None)', \A t \in Sessions \ {s} : Loses(t)
  PROVE  LeftInv'
BY LeftMove DEF Finish
-----------------------------------------------------------------------------
\* What the operations of the parts take away.
LEMMA StatusLoses ==
  ASSUME TypeInv, NEW v, NEW st, st # "absent", UpdateStatus(v, st) \/ UNCHANGED storeVars
  PROVE  /\ \A t \in Sessions : HasRow(t)' <=> HasRow(t)
         /\ rowToken' = rowToken /\ snapshotted' = snapshotted
BY DEF TypeInv, StoreTypeOK, UpdateStatus, WithStatus, HasRow, storeVars

LEMMA ReleaseLoses ==
  ASSUME TypeInv, NEW v, Release(v) \/ UNCHANGED poolVars
  PROVE  /\ \A t \in Sessions : sessionTokens'[t] \in {None, sessionTokens[t]}
         /\ Release(v) /\ v \in Sessions => sessionTokens'[v] = None
BY DEF TypeInv, PoolTypeOK, Release, poolVars

LEMMA AssignGives ==
  ASSUME TypeInv, NEW s \in Sessions, Assign(s)
  PROVE  sessionTokens'[s] = nextIndex /\ \A t \in Sessions \ {s} : sessionTokens'[t] = sessionTokens[t]
BY DEF TypeInv, PoolTypeOK, Assign

LEMMA KillLoses ==
  ASSUME TypeInv, NEW r \in Requests, NEW v, KillEnds(r, v)
  PROVE  /\ \A t \in Sessions : containers'[t] \in {None, containers[t]}
         /\ v \in Sessions /\ (req[r].held # None \/ containers[v] = None) => containers'[v] = None
BY DEF TypeInv, RunnersInv, DockerTypeOK, KillEnds, FinishKill

LEMMA TrackGives ==
  ASSUME TypeInv, NEW s \in Sessions, NEW c, Track(s, c)
  PROVE  \A t \in Sessions \ {s} : containers'[t] = containers[t]
BY DEF TypeInv, RunnersInv, DockerTypeOK, Track

LEMMA HandlerLeft ==
  ASSUME LeftInv, NEW s \in Sessions, NEW r \in Requests, req[r].sid = s
  PROVE  LeftAt(s, req[r].pc, req[r].held, req[r].token)
BY DEF LeftInv, Left
-----------------------------------------------------------------------------
\* A request that makes s is let in, refused, or evicts a session.
LEMMA DecisionLeft ==
  ASSUME TypeInv, LeftInv, NEW s \in Sessions, NEW r \in Requests, NEW cands, NEW count,
         req[r].sid = s \/ (req[r].sid = None /\ \A q \in Requests : req[q].sid # s),
         CapacityDecision(r, s, cands, count),
         ~HasRow(s)', containers'[s] = None, sessionTokens'[s] = None, s \notin snapshotted',
         \A t \in Sessions \ {s} : Loses(t)
  PROVE  LeftInv'
<1>1. \A h, k : \A step \in {"free", "evicting", "admitted"} : LeftAt(s, step, h, k)'
  BY DEF LeftAt, OneToken, Spawning, Waiting
<1>2. CASE Goto(r, "admitted", s, None, None)
  BY <1>1, <1>2, LeftGoto
<1>3. CASE Finish(r)
  BY <1>1, <1>3, LeftMove DEF Finish
<1>4. ASSUME NEW v \in cands,
             req' = [req EXCEPT ![r] = [Free EXCEPT !.pc = "evicting", !.sid = s, !.victim = v,
                                          !.held = containers[v], !.cands = cands \ {v}]]
      PROVE  LeftInv'
  <2>1. PICK x : x = [Free EXCEPT !.pc = "evicting", !.sid = s, !.victim = v,
                                  !.held = containers[v], !.cands = cands \ {v}]
    OBVIOUS
  <2>2. x.pc = "evicting" /\ x.sid = s /\ req' = [req EXCEPT ![r] = x]
    BY <1>4, <2>1 DEF Free
  <2>3. PICK h, k : h = x.held /\ k = x.token
    OBVIOUS
  <2>4. LeftAt(s, "evicting", h, k)'
    BY <1>1
  <2>5. LeftAt(s, x.pc, x.held, x.token)'
    BY <2>2, <2>3, <2>4 DEF LeftAt, OneToken
  <2> QED
    BY <2>2, <2>5, LeftMove
<1> QED
  BY <1>2, <1>3, <1>4 DEF CapacityDecision

LEMMA CreateBeginLeft ==
  ASSUME TypeInv, LeftInv, NEW s \in Sessions, NEW r \in Requests, CreateBegin(r, s)
  PROVE  LeftInv'
<1>1. /\ At(r, "free") /\ ~HasRow(s) /\ Quiet(s) /\ CapacityDecision(r, s, Evictable, ActiveCount)
      /\ UNCHANGED <<storeVars, poolVars, dockerVars, bridgeVars>>
  BY DEF CreateBegin, Fresh, lifeVars
<1>2. req[r].sid = None /\ \A q \in Requests : req[q].sid # s
  BY <1>1 DEF LeftInv, At, Quiet
<1>3. LeftAt(s, "free", None, None)
  BY <1>2 DEF LeftInv, Left
<1>4. containers[s] = None /\ sessionTokens[s] = None /\ s \notin snapshotted
  BY <1>1, <1>3 DEF LeftAt
<1>5. \A t \in Sessions : Loses(t)
  BY <1>1 DEF Loses, HasRow, storeVars, poolVars, dockerVars
<1>6. ~HasRow(s)' /\ containers'[s] = None /\ sessionTokens'[s] = None /\ s \notin snapshotted'
  BY <1>1, <1>4 DEF HasRow, storeVars, poolVars, dockerVars
<1> QED
  BY <1>1, <1>2, <1>5, <1>6, DecisionLeft

\* An eviction takes from its victim, whatever another request does to it.
LEMMA EvictEndLeft ==
  ASSUME TypeInv, LeftInv, NEW s \in Sessions, NEW r \in Requests, req[r].sid = s, EvictEnd(r)
  PROVE  LeftInv'
<1>1. PICK v : v = req[r].victim
  OBVIOUS
<1>2. /\ At(r, "evicting") /\ KillEnds(r, v) /\ UpdateStatus(v, "stopped") /\ Release(v)
      /\ \E count : CapacityDecision(r, s, req[r].cands, count)
  BY <1>1 DEF EvictEnd
<1>3. LeftAt(s, "evicting", req[r].held, req[r].token)
  BY <1>2, HandlerLeft DEF At
<1>4. ~HasRow(s) /\ containers[s] = None /\ sessionTokens[s] = None /\ s \notin snapshotted
  BY <1>3 DEF LeftAt
<1>5. \A t \in Sessions : Loses(t)
  BY <1>2, StatusLoses, ReleaseLoses, KillLoses DEF Loses
<1>6. ~HasRow(s)' /\ containers'[s] = None /\ sessionTokens'[s] = None /\ s \notin snapshotted'
  BY <1>4, <1>5 DEF Loses
<1> QED
  BY <1>2, <1>5, <1>6, DecisionLeft

LEMMA AssignTokenLeft ==
  ASSUME TypeInv, LeftInv, NEW s \in Sessions, NEW r \in Requests, req[r].sid = s, AssignToken(r)
  PROVE  LeftInv'
<1>1. PICK k : k = nextIndex
  OBVIOUS
<1>2. /\ At(r, "admitted") /\ Assign(s) /\ Goto(r, "spawning", s, None, k)
      /\ UNCHANGED storeVars /\ UNCHANGED dockerVars
  BY <1>1 DEF AssignToken
<1>3. LeftAt(s, "admitted", req[r].held, req[r].token)
  BY <1>2, HandlerLeft DEF At
<1>4. sessionTokens'[s] = k /\ \A t \in Sessions \ {s} : sessionTokens'[t] = sessionTokens[t]
  BY <1>1, <1>2, AssignGives
<1>5. LeftAt(s, "spawning", None, k)'
  BY <1>2, <1>3, <1>4 DEF LeftAt, HasRow, storeVars, dockerVars, Spawning, Waiting
<1>6. \A t \in Sessions \ {s} : Loses(t)
  BY <1>2, <1>4 DEF Loses, HasRow, storeVars, dockerVars
<1> QED
  BY <1>2, <1>5, <1>6, LeftGoto

LEMMA SpawnReturnsLeft ==
  ASSUME TypeInv, LeftInv, NEW s \in Sessions, NEW r \in Requests, req[r].sid = s,
         SpawnReturns(r) \/ ResumeSpawned(r)
  PROVE  LeftInv'
<1>1. PICK c, k, p : c = req[r].held /\ k = req[r].token /\ p = req[r].pc
  OBVIOUS
<1>2. /\ Track(s, c) /\ UNCHANGED poolVars
      /\ \/ /\ p = "spawning" /\ Goto(r, "waiting", s, None, None)
            /\ \E pin \in BOOLEAN : CreateRow(s, c, k, pin)
         \/ p = "respawning" /\ Goto(r, "rewaiting", s, None, None) /\ Reactivate(s, c, k)
  BY <1>1 DEF SpawnReturns, ResumeSpawned, At
<1>3. LeftAt(s, p, c, k)
  BY <1>1, HandlerLeft
<1>4. sessionTokens[s] \in {None, k} /\ (p = "respawning" => HasRow(s))
  BY <1>2, <1>3 DEF LeftAt, Spawning
<1>5. /\ HasRow(s)' /\ rowToken'[s] = k /\ snapshotted' = snapshotted
      /\ \A t \in Sessions \ {s} : (HasRow(t)' <=> HasRow(t)) /\ rowToken'[t] = rowToken[t]
  BY <1>2, <1>4 DEF TypeInv, StoreTypeOK, CreateRow, Reactivate, WithStatus, HasRow
<1>6. \A step \in Waiting : LeftAt(s, step, None, None)'
  BY <1>2, <1>4, <1>5 DEF LeftAt, OneToken, poolVars, Spawning, Waiting
<1>7. \A t \in Sessions \ {s} : Loses(t)
  BY <1>2, <1>5, TrackGives DEF Loses, poolVars
<1> QED
  BY <1>2, <1>6, <1>7, LeftGoto DEF Waiting

\* A spawn fails, or the INSERT after it.
LEMMA SpawnFailsLeft ==
  ASSUME TypeInv, LeftInv, NEW s \in Sessions, NEW r \in Requests, req[r].sid = s,
         RowRefused(r) \/ SpawnThrows(r) \/ ResumeThrows(r)
  PROVE  LeftInv'
<1>1. PICK c, h, k, p : c = req[r].held /\ h = containers[s] /\ k = req[r].token /\ p = req[r].pc
  OBVIOUS
<1>2. /\ UNCHANGED storeVars /\ (Release(s) \/ UNCHANGED poolVars)
      /\ \/ p = "spawning" /\ c # None /\ Track(s, c) /\ Goto(r, "undoing", s, c, None)
         \/ p = "spawning" /\ UNCHANGED dockerVars /\ Goto(r, "undoing", s, h, None)
         \/ p = "respawning" /\ UNCHANGED dockerVars /\ Goto(r, "failing", s, h, None)
  BY <1>1 DEF RowRefused, SpawnThrows, ResumeThrows, At, lifeVars
<1>3. LeftAt(s, p, c, k)
  BY <1>1, HandlerLeft
<1>4. \A t \in Sessions \ {s} : Loses(t)
  BY <1>2, ReleaseLoses, TrackGives DEF Loses, HasRow, storeVars, dockerVars
<1>5. p = "respawning" => LeftAt(s, "failing", h, None)'
  BY <1>2, <1>3 DEF LeftAt, HasRow, storeVars, Spawning, Waiting
<1>6. ASSUME p = "spawning", NEW x, x # None \/ containers'[s] = None
      PROVE  LeftAt(s, "undoing", x, None)'
  BY <1>2, <1>3, <1>6 DEF LeftAt, HasRow, storeVars, Spawning, Waiting
<1>7. p = "spawning" => containers[s] = None
  BY <1>3 DEF LeftAt
<1> QED
  BY <1>1, <1>2, <1>4, <1>5, <1>6, <1>7, LeftGoto DEF dockerVars

LEMMA ResumeAssignsLeft ==
  ASSUME TypeInv, LeftInv, NEW s \in Sessions, NEW r \in Requests, req[r].sid = s, ResumeAssigns(r)
  PROVE  LeftInv'
<1>1. PICK k : k = nextIndex
  OBVIOUS
<1>2. /\ At(r, "killing") /\ KillEnds(r, s) /\ Assign(s) /\ Goto(r, "respawning", s, None, k)
      /\ UNCHANGED storeVars
  BY <1>1 DEF ResumeAssigns
<1>3. LeftAt(s, "killing", req[r].held, req[r].token)
  BY <1>2, HandlerLeft DEF At
<1>4. sessionTokens'[s] = k /\ \A t \in Sessions \ {s} : sessionTokens'[t] = sessionTokens[t]
  BY <1>1, <1>2, AssignGives
<1>5. LeftAt(s, "respawning", None, k)'
  BY <1>2, <1>3, <1>4 DEF LeftAt, HasRow, storeVars, Spawning, Waiting
<1>6. \A t \in Sessions \ {s} : Loses(t)
  BY <1>2, <1>4, KillLoses DEF Loses, HasRow, storeVars
<1> QED
  BY <1>2, <1>5, <1>6, LeftGoto

\* The handlers that kill at their end.
LEMMA EndersLeft ==
  ASSUME TypeInv, LeftInv, NEW s \in Sessions, NEW r \in Requests, req[r].sid = s,
         UndoEnd(r) \/ ResumeFails(r) \/ StopEnd(r) \/ DeleteEnd(r)
  PROVE  LeftInv'
<1>1. PICK p, h, k : p = req[r].pc /\ h = req[r].held /\ k = req[r].token
  OBVIOUS
<1>2. LeftAt(s, p, h, k)
  BY <1>1, HandlerLeft
<1>3. /\ KillEnds(r, s) /\ Finish(r)
      /\ \/ p \in {"undoing", "deleting"} /\ s \notin snapshotted /\ RemoveRow(s) /\ Release(s)
         \/ p = "undoing" /\ s \in snapshotted /\ UNCHANGED storeVars /\ UNCHANGED poolVars
         \/ /\ p \in {"failing", "stopping"} \/ s \in snapshotted
            /\ Release(s) /\ \E st \in Terminal : UpdateStatus(s, st)
  BY <1>1 DEF UndoEnd, ResumeFails, StopEnd, DeleteEnd, At, Terminal
<1>4. \A t \in Sessions : containers'[t] \in {None, containers[t]}
  BY <1>3, KillLoses
<1>5. CASE p \in {"undoing", "deleting"} /\ s \notin snapshotted /\ RemoveRow(s) /\ Release(s)
  <2>1. /\ ~HasRow(s)' /\ snapshotted' = snapshotted
        /\ \A t \in Sessions \ {s} : (HasRow(t)' <=> HasRow(t)) /\ rowToken'[t] = rowToken[t]
    BY <1>5 DEF TypeInv, StoreTypeOK, RemoveRow, HasRow
  <2>2. sessionTokens'[s] = None /\ \A t \in Sessions : sessionTokens'[t] \in {None, sessionTokens[t]}
    BY <1>5, ReleaseLoses
  <2>3. containers'[s] = None
    BY <1>1, <1>2, <1>3, <1>5, KillLoses DEF LeftAt
  <2>4. LeftAt(s, "free", None, None)'
    BY <1>5, <2>1, <2>2, <2>3 DEF LeftAt, OneToken, Spawning, Waiting
  <2>5. \A t \in Sessions \ {s} : Loses(t)
    BY <1>4, <2>1, <2>2 DEF Loses
  <2> QED
    BY <1>3, <2>4, <2>5, LeftFinish
<1>6. CASE p = "undoing" /\ s \in snapshotted /\ UNCHANGED storeVars /\ UNCHANGED poolVars
  <2>1. HasRow(s) /\ OneToken(s)
    BY <1>2, <1>6 DEF LeftAt
  <2>2. LeftAt(s, "free", None, None)'
    BY <1>6, <2>1 DEF LeftAt, OneToken, HasRow, storeVars, poolVars, Spawning, Waiting
  <2>3. \A t \in Sessions : Loses(t)
    BY <1>4, <1>6 DEF Loses, HasRow, storeVars, poolVars
  <2> QED
    BY <1>3, <2>2, <2>3, LeftFinish
<1>7. CASE /\ p \in {"failing", "stopping"} \/ s \in snapshotted
           /\ Release(s) /\ \E st \in Terminal : UpdateStatus(s, st)
  <2>1. HasRow(s)
    BY <1>2, <1>7 DEF LeftAt
  <2>2. /\ \A t \in Sessions : HasRow(t)' <=> HasRow(t)
        /\ rowToken' = rowToken /\ snapshotted' = snapshotted
    BY <1>7, StatusLoses DEF Terminal
  <2>3. sessionTokens'[s] = None /\ \A t \in Sessions : sessionTokens'[t] \in {None, sessionTokens[t]}
    BY <1>7, ReleaseLoses
  <2>4. LeftAt(s, "free", None, None)'
    BY <2>1, <2>2, <2>3 DEF LeftAt, OneToken, Spawning, Waiting
  <2>5. \A t \in Sessions : Loses(t)
    BY <1>4, <2>2, <2>3 DEF Loses
  <2> QED
    BY <1>3, <2>4, <2>5, LeftFinish
<1> QED
  BY <1>3, <1>5, <1>6, <1>7

LEMMA ContainerStartsLeft ==
  ASSUME TypeInv, LeftInv, NEW s \in Sessions, NEW r \in Requests, req[r].sid = s,
         NEW c \in Containers, ContainerStarts(r, c)
  PROVE  LeftInv'
<1>1. /\ req[r].pc \in Spawning /\ req' = [req EXCEPT ![r].held = c]
      /\ UNCHANGED storeVars /\ UNCHANGED poolVars /\ containers' = containers
  BY DEF ContainerStarts, EngineStarts, Spawning
<1>2. PICK x : x = [req[r] EXCEPT !.held = c]
  OBVIOUS
<1>3. /\ x.sid = s /\ x.pc = req[r].pc /\ x.held = c /\ x.token = req[r].token
      /\ req' = [req EXCEPT ![r] = x]
  BY <1>1, <1>2 DEF TypeInv, RequestsInv, ReqTypeOK
<1>4. PICK p, h, k : p = req[r].pc /\ h = req[r].held /\ k = req[r].token
  OBVIOUS
<1>5. LeftAt(s, p, h, k)
  BY <1>4, HandlerLeft
<1>6. LeftAt(s, p, c, k)'
  BY <1>1, <1>4, <1>5 DEF LeftAt, OneToken, HasRow, storeVars, poolVars, Spawning, Waiting
<1>7. LeftAt(s, x.pc, x.held, x.token)'
  BY <1>3, <1>4, <1>6 DEF LeftAt, OneToken
<1>8. \A t \in Sessions : Loses(t)
  BY <1>1 DEF Loses, HasRow, storeVars, poolVars
<1>9. x.pc # "free"
  BY <1>1, <1>3 DEF Spawning
<1> QED
  BY <1>3, <1>7, <1>8, <1>9, LeftMove
-----------------------------------------------------------------------------
\* A wait that is rejected.
LEMMA RejectedLeft ==
  ASSUME TypeInv, LeftInv, NEW s \in Sessions, NEW r \in Requests, req[r].sid = s,
         req[r].pc \in Waiting, req' = [req EXCEPT ![r] = Rejected(r)],
         containers'[s] = containers[s], \A t \in Sessions : Loses(t)
  PROVE  LeftInv'
<1>1. PICK x : x = Rejected(r)
  OBVIOUS
<1>2. x.sid = s /\ x.pc \in {"undoing", "failing"} /\ x.held = containers[s]
  BY <1>1 DEF Rejected, TypeInv, RequestsInv, ReqTypeOK
<1>3. PICK p, h, k : p = x.pc /\ h = x.held /\ k = x.token
  OBVIOUS
<1>4. LeftAt(s, req[r].pc, req[r].held, req[r].token)
  BY HandlerLeft
<1>5. HasRow(s) /\ OneToken(s)
  BY <1>4 DEF LeftAt, Waiting
<1>6. LeftAt(s, p, h, k)'
  BY <1>2, <1>3, <1>5 DEF LeftAt, OneToken, Loses, Spawning, Waiting
<1>7. LeftAt(s, x.pc, x.held, x.token)'
  BY <1>3, <1>6 DEF LeftAt, OneToken
<1> QED
  BY <1>1, <1>2, <1>7, LeftMove

\* A request that comes while no other works on the session.
LEMMA ArrivesLeft ==
  ASSUME TypeInv, LeftInv, ~Overlap, NEW s \in Sessions, NEW r \in Requests, Arrives(r, s)
  PROVE  LeftInv'
<1>1. CASE CreateBegin(r, s)
  BY <1>1, CreateBeginLeft
<1>2. CASE StopAgain(r, s)
  <2>1. \A t \in Sessions : Loses(t)
    BY <1>2, ReleaseLoses DEF StopAgain, Loses, HasRow, storeVars, dockerVars
  <2> QED
    BY <1>2, <2>1, AllLose DEF StopAgain
<1>3. CASE ResumeBegin(r, s) \/ StopBegin(r, s) \/ DeleteBegin(r, s)
  <2>1. PICK h : h = containers[s]
    OBVIOUS
  <2>2. /\ At(r, "free") /\ Quiet(s) /\ UNCHANGED storeVars /\ UNCHANGED dockerVars
        /\ Release(s) \/ UNCHANGED poolVars
        /\ \E step \in {"killing", "stopping", "deleting"} :
             Goto(r, step, s, h, None) /\ HasRow(s)
    BY <1>3, <2>1 DEF ResumeBegin, StopBegin, DeleteBegin, MayBegin, lifeVars, HasRow, Active,
                      Terminal, NonTerminal
  <2>3. req[r].sid = None /\ \A q \in Requests : req[q].sid # s
    BY <2>2 DEF LeftInv, At, Quiet
  <2>4. \A t \in Sessions : Loses(t)
    BY <2>2, ReleaseLoses DEF Loses, HasRow, storeVars, dockerVars
  <2>5. \A step \in {"killing", "stopping", "deleting"} : LeftAt(s, step, h, None)'
    BY <2>1, <2>2 DEF LeftAt, HasRow, storeVars, dockerVars, Spawning, Waiting
  <2> QED
    BY <2>2, <2>3, <2>4, <2>5, LeftGoto
<1> QED
  BY <1>1, <1>2, <1>3 DEF Arrives

\* What a runner says, and its socket.
LEMMA RunnersLeft ==
  ASSUME TypeInv, LeftInv, NEW c \in Containers, RunnerActs(c)
  PROVE  LeftInv'
<1>1. PICK s : s = owner[c]
  OBVIOUS
<1>2. UNCHANGED poolVars /\ containers' = containers
  BY DEF RunnerActs, ReportsReady, ReportsBusy, ReportsError, ReportsSessionInit, ReportsSnapshot,
         SocketCloses, SupersededCloses, RunnerExits, dockerVars
<1>3. /\ \A t \in Sessions : HasRow(t)' <=> HasRow(t)
      /\ rowToken' = rowToken
      /\ \A t \in Sessions : t \in snapshotted' => t \in snapshotted \/ HasRow(t)
  <2>1. CASE \E st \in {"ready", "busy", "error", "stopped"} : UpdateStatus(s, st) \/ UNCHANGED storeVars
    BY <2>1, StatusLoses
  <2>2. CASE SetSdkSessionId(s)
    BY <2>2 DEF SetSdkSessionId, HasRow
  <2>3. CASE InsertSnapshot(s)
    BY <2>3 DEF InsertSnapshot, HasRow
  <2> QED
    BY <1>1, <2>1, <2>2, <2>3
       DEF RunnerActs, ReportsReady, ReportsBusy, ReportsError, ReportsSessionInit, ReportsSnapshot,
           SocketCloses, SupersededCloses, RunnerExits
<1>4. \A t \in Sessions : Loses(t)
  BY <1>2, <1>3 DEF Loses, poolVars
<1>5. CASE req' = req
  BY <1>4, <1>5, AllLose
<1>6. CASE ResolveWaiters(s) \/ RejectWaiters(s)
  <2>1. CASE \A r \in Requests : ~(req[r].sid = s /\ req[r].pc \in Waiting)
    <3>1. WaitersOf(s) = {}
      BY <2>1 DEF WaitersOf
    <3>2. req' = req
      BY <1>6, <3>1 DEF ResolveWaiters, RejectWaiters, TypeInv, RequestsInv, ReqTypeOK
    <3> QED
      BY <1>5, <3>2
  <2>2. ASSUME NEW r \in Requests, req[r].sid = s, req[r].pc \in Waiting
        PROVE  LeftInv'
    <3>1. s \in Sessions
      BY <2>2 DEF TypeInv, RequestsInv, Waiting
    <3>2. WaitersOf(s) = {r}
      BY <2>2, <3>1 DEF WaitersOf, LeftInv, Left
    <3>3. req \in [Requests -> {req[q] : q \in Requests}]
      BY DEF TypeInv, RequestsInv, ReqTypeOK
    <3>4. CASE RejectWaiters(s)
      <4>1. req' = [req EXCEPT ![r] = Rejected(r)]
        BY <3>2, <3>3, <3>4 DEF RejectWaiters
      <4> QED
        BY <1>2, <1>4, <2>2, <3>1, <4>1, RejectedLeft
    <3>5. CASE ResolveWaiters(s)
      <4>1. req' = [req EXCEPT ![r] = Free]
        BY <3>2, <3>3, <3>5 DEF ResolveWaiters
      <4>2. LeftAt(s, req[r].pc, req[r].held, req[r].token)
        BY <2>2, <3>1, HandlerLeft
      <4>3. LeftAt(s, "free", None, None)
        BY <2>2, <4>2 DEF LeftAt, Spawning, Waiting
      <4>4. LeftAt(s, "free", None, None)'
        BY <1>4, <3>1, <4>3, LosesLeft
      <4> QED
        BY <1>4, <2>2, <3>1, <4>1, <4>4, LeftMove
    <3> QED
      BY <1>6, <3>4, <3>5
  <2> QED
    BY <2>1, <2>2
<1> QED
  BY <1>1, <1>5, <1>6 DEF RunnerActs, ReportsReady, ReportsBusy, ReportsError, ReportsSessionInit,
         ReportsSnapshot, SocketCloses, SupersededCloses, RunnerExits

\* A new process knows what the rows say.
LEMMA RestartLeft ==
  ASSUME TypeInv, RowsInv, LeftInv, Restart
  PROVE  LeftInv'
<1>1. \A r \in Requests : req'[r] = Free
  BY DEF Restart
<1>2. Free.sid = None /\ Free.pc = "free"
  BY DEF Free
<1>3. ASSUME NEW s \in Sessions
      PROVE  Left(s)'
  <2>1. sessionTokens'[s] \in {None, rowToken[s]} /\ (s \notin Active' => sessionTokens'[s] = None)
    BY DEF Restart, Restore
  <2>2. rowContainer[s] = None => containers'[s] = None
    BY DEF Restart, Recover
  <2>3. status'[s] = Reconciled(s) /\ rowToken' = rowToken /\ snapshotted' = snapshotted
    BY DEF Restart
  <2>4. ~HasRow(s) => containers'[s] = None /\ ~HasRow(s)'
    BY <2>2, <2>3 DEF RowsInv, Reconciled, HasRow, Active, NonTerminal
  <2>5. HasRow(s) => HasRow(s)'
    BY <2>3 DEF Reconciled, HasRow, Terminal
  <2>6. s \in snapshotted => HasRow(s)
    BY DEF LeftInv, Left, LeftAt
  <2>7. ~HasRow(s)' => s \notin Active'
    BY DEF HasRow, Active, NonTerminal
  <2>8. LeftAt(s, "free", None, None)'
    BY <2>1, <2>3, <2>4, <2>5, <2>6, <2>7 DEF LeftAt, OneToken, Spawning, Waiting
  <2> QED
    BY <1>1, <1>2, <2>8, NoneAssumption DEF Left
<1> QED
  BY <1>1, <1>2, <1>3 DEF LeftInv

LEMMA LeftInit == Init => LeftInv
<1> SUFFICES ASSUME Init PROVE LeftInv
  OBVIOUS
<1>1. /\ \A s \in Sessions : status[s] = "absent" /\ sessionTokens[s] = None /\ containers[s] = None
      /\ \A r \in Requests : req[r] = Free
      /\ snapshotted = {}
  BY DEF Init, PoolInit, StoreInit, DockerInit
<1>2. Free.pc = "free" /\ Free.sid = None
  BY DEF Free
<1>3. ASSUME NEW s \in Sessions
      PROVE  Left(s)
  <2>1. LeftAt(s, "free", None, None)
    BY <1>1 DEF LeftAt, OneToken, Spawning, Waiting
  <2> QED
    BY <1>1, <1>2, <2>1, NoneAssumption DEF Left
<1> QED
  BY <1>1, <1>2, <1>3 DEF LeftInv

LEMMA LeftStep == ~Overlap /\ TypeInv /\ RowsInv /\ LeftInv /\ [Next]_vars => LeftInv'
<1> SUFFICES ASSUME ~Overlap, TypeInv, RowsInv, LeftInv, [Next]_vars PROVE LeftInv'
  OBVIOUS
<1>1. ASSUME NEW r \in Requests, Continues(r)
      PROVE  LeftInv'
  <2>1. req[r].pc # "free"
    BY <1>1 DEF Continues, EvictEnd, AssignToken, SpawnReturns, SpawnThrows, RowRefused,
                UndoEnd, ResumeAssigns, ResumeSpawned, ResumeThrows, ResumeFails, StopEnd,
                DeleteEnd, WaitTimesOut, ContainerStarts, At, Waiting
  <2>2. PICK s \in Sessions : req[r].sid = s
    BY <2>1 DEF TypeInv, RequestsInv
  <2>3. CASE WaitTimesOut(r)
    <3>1. \A t \in Sessions : Loses(t)
      BY <2>3 DEF WaitTimesOut, Loses, HasRow, lifeVars, storeVars, poolVars, dockerVars
    <3>2. containers'[s] = containers[s]
      BY <2>3 DEF WaitTimesOut, lifeVars, dockerVars
    <3> QED
      BY <2>2, <2>3, <3>1, <3>2, RejectedLeft DEF WaitTimesOut
  <2> QED
    BY <1>1, <2>2, <2>3, EvictEndLeft, AssignTokenLeft, SpawnReturnsLeft, SpawnFailsLeft,
       ResumeAssignsLeft, EndersLeft, ContainerStartsLeft DEF Continues
<1>2. ASSUME req' = req, \A t \in Sessions : Loses(t)
      PROVE  LeftInv'
  BY <1>2, AllLose
<1>3. CASE UNCHANGED vars
  BY <1>2, <1>3 DEF vars, lifeVars, storeVars, poolVars, dockerVars, Loses, HasRow
<1>4. ASSUME NEW s \in Sessions, Pin(s)
      PROVE  LeftInv'
  BY <1>2, <1>4 DEF Pin, SetPinned, poolVars, dockerVars, Loses, HasRow
<1> QED
  BY <1>1, <1>3, <1>4, ArrivesLeft, RunnersLeft, RestartLeft DEF Next

LEMMA LeftInvariant ==
  ASSUME ~Overlap
  PROVE  Spec => []LeftInv
<1>1. Init => TypeInv /\ RowsInv /\ LeftInv
  BY TypeInit, LeftInit DEF Init, StoreInit, RowsInv
<1>2. TypeInv /\ RowsInv /\ LeftInv /\ [Next]_vars => TypeInv' /\ RowsInv' /\ LeftInv'
  BY TypeStep, RowsStep, LeftStep
<1> QED
  BY <1>1, <1>2, PTL DEF Spec

LEMMA SettledLeft ==
  ASSUME LeftInv, NEW s \in Sessions, Quiet(s)
  PROVE  LeftAt(s, "free", None, None)
BY DEF LeftInv, Left, Quiet

\* rollbackSession() and DELETE undo everything a session had, evictions of it,
\* kills that fail and crashes included, when requests on it do not overlap.
THEOREM GoneIsReleasedInOrder ==
  ASSUME ~Overlap
  PROVE  Spec => []GoneIsReleased
<1>1. LeftInv => GoneIsReleased
  BY SettledLeft DEF GoneIsReleased, LeftAt
<1> QED
  BY <1>1, LeftInvariant, PTL

\* Between the requests on a session the token the pool holds for it is the one
\* in its row, although resume assigns it several awaits before it is written.
THEOREM TokenMatchesRowInOrder ==
  ASSUME ~Overlap
  PROVE  Spec => []TokenMatchesRow
<1>1. LeftInv => TokenMatchesRow
  BY SettledLeft DEF TokenMatchesRow, LeftAt, OneToken
<1> QED
  BY <1>1, LeftInvariant, PTL
-----------------------------------------------------------------------------
(***************************************************************************)
(* One request at a time: what the requests leave behind when no two of    *)
(* them work on one session, every kill succeeds, no capacity is           *)
(* configured and the orchestrator stays up.                               *)
(***************************************************************************)
Serial ==
  /\ ~Overlap /\ MaxActive = 0 /\ MaxRestarts = 0
  /\ "killFails" \notin Faults

\* The containers started for s.
Of(s) == {c \in Containers : owner[c] = s}

Up(c) == life[c] = "live" \/ c \in sockets

\* Store and pool agree on the token of s, which only the second stop of an
\* ended session drops.
TokenAgrees(s) ==
  sessionTokens[s] = rowToken[s] \/ ("restop" \in Ops /\ sessionTokens[s] = None)

\* Store, pool and container manager agree on what the session s has.
Backed(s) ==
  /\ HasRow(s) /\ TokenAgrees(s)
  /\ containers[s] # None /\ containers[s] = rowContainer[s]

\* If it is shown as active, its runner can still be heard.
IsHeard(s) == s \in Active => \E c \in Of(s) : c \in sockets

\* It has nothing, or only the row and the token that its snapshots kept: none
\* but the late word of its last runner may show it as active.
Dropped(s) ==
  /\ sessionTokens[s] = None \/ (s \in snapshotted /\ TokenAgrees(s))
  /\ containers[s] = None /\ IsHeard(s)

Killing  == {"killing", "undoing", "failing", "stopping", "deleting"}

\* What the request that works on s finds at the given step, "free" if none does.
AtStep(s, step, held, token) ==
  /\ step = "free" => Backed(s) \/ Dropped(s)
  /\ step \in {"admitted", "spawning"} => ~HasRow(s) /\ Of(s) \subseteq {held}
  /\ step = "admitted" => held = None /\ containers[s] = None
  /\ step \in Spawning => /\ containers[s] = None /\ token = sessionTokens[s]
                          /\ held # None => held \in Of(s)
  /\ step \in {"killing", "respawning"} => HasRow(s)
  /\ step \in Waiting => Backed(s)
  /\ step \in Killing => held = containers[s]
  /\ step = "undoing" /\ HasRow(s) => TokenAgrees(s)
  /\ step \in {"waiting", "undoing"} /\ s \in snapshotted => IsHeard(s)
  /\ s \in snapshotted => HasRow(s)
  /\ \A c \in Of(s) : life[c] = "live" => c = containers[s] \/ (step \in Spawning /\ c = held)

\* One runner of s is up, the manager tracks a container of s, and the socket
\* of a runner is the one commands go to.
OneUp(s) ==
  /\ \A c, d \in Of(s) : Up(c) /\ Up(d) => c = d
  /\ \A c \in Of(s) : c \in sockets => connections[s] = c
  /\ containers[s] # None => containers[s] \in Of(s)

Worked(s) ==
  /\ \A r, q \in Requests : req[r].sid = s /\ req[q].sid = s => r = q
  /\ \A r \in Requests : req[r].sid = s => AtStep(s, req[r].pc, req[r].held, req[r].token)
  /\ (\A r \in Requests : req[r].sid # s) => AtStep(s, "free", None, None)

SerialInv ==
  /\ \A r \in Requests : /\ req[r].victim = None /\ req[r].pc # "evicting"
                         /\ req[r].pc = "free" <=> req[r].sid = None
  /\ \A c \in Containers : life[c] = "unused" => owner[c] = None
  /\ \A s \in Sessions : OneUp(s) /\ Worked(s)

\* A step that concerns the session s leaves what belongs to the others alone.
RowsApart(s) ==
  /\ snapshotted' = snapshotted
  /\ \A t \in Sessions \ {s} : /\ status'[t] = status[t]
                               /\ rowToken'[t] = rowToken[t] /\ rowContainer'[t] = rowContainer[t]

PoolApart(s) == \A t \in Sessions \ {s} : sessionTokens'[t] = sessionTokens[t]

DocksApart(s) ==
  /\ \A t \in Sessions \ {s} : containers'[t] = containers[t] /\ connections'[t] = connections[t]
  /\ \A c \in Containers : /\ owner'[c] = owner[c] \/ (owner[c] = None /\ owner'[c] = s)
                           /\ owner'[c] # s => life'[c] = life[c] /\ (c \in sockets' <=> c \in sockets)
                           /\ life'[c] = "unused" => life[c] = "unused" /\ owner'[c] = owner[c]

Apart(s) == RowsApart(s) /\ PoolApart(s) /\ DocksApart(s)

LEMMA ApartKeepsUp ==
  ASSUME SerialInv, NEW s \in Sessions, Apart(s), NEW t \in Sessions, t # s
  PROVE  OneUp(t)'
<1>1. OneUp(t)
  BY DEF SerialInv
<1>2. \A c \in Containers : owner'[c] = t <=> owner[c] = t
  BY NoneAssumption DEF Apart, RowsApart, PoolApart, DocksApart
<1>3. \A c \in Containers : owner'[c] = t => life'[c] = life[c] /\ (c \in sockets' <=> c \in sockets)
  BY DEF Apart, RowsApart, PoolApart, DocksApart
<1>4. containers'[t] = containers[t] /\ connections'[t] = connections[t]
  BY DEF Apart, RowsApart, PoolApart, DocksApart
<1> QED
  BY <1>1, <1>2, <1>3, <1>4 DEF OneUp, Of, Up

LEMMA ApartKeepsStep ==
  ASSUME NEW s \in Sessions, Apart(s), NEW t \in Sessions, t # s, NEW p, NEW h, NEW k,
         AtStep(t, p, h, k)
  PROVE  AtStep(t, p, h, k)'
<1>1. Of(t)' = Of(t)
  BY NoneAssumption DEF Apart, DocksApart, Of
<1>2. \A c \in Of(t) : life'[c] = life[c] /\ (c \in sockets' <=> c \in sockets)
  BY <1>1 DEF Apart, DocksApart, Of
<1>3. /\ status'[t] = status[t] /\ sessionTokens'[t] = sessionTokens[t]
      /\ rowToken'[t] = rowToken[t] /\ rowContainer'[t] = rowContainer[t]
      /\ containers'[t] = containers[t] /\ snapshotted' = snapshotted
  BY DEF Apart, RowsApart, PoolApart, DocksApart
<1>4. /\ IsHeard(t) => IsHeard(t)'
      /\ HasRow(t) <=> HasRow(t)'
  BY <1>1, <1>2, <1>3 DEF IsHeard, HasRow, Active
<1>5. /\ Backed(t) => Backed(t)'
      /\ Dropped(t) => Dropped(t)'
      /\ TokenAgrees(t) => TokenAgrees(t)'
  BY <1>3, <1>4 DEF Backed, TokenAgrees, Dropped
<1> QED
  BY <1>1, <1>2, <1>3, <1>4, <1>5 DEF AtStep

\* The step of a handler that did not change.
LEMMA SameStep ==
  ASSUME NEW t, NEW q, NEW p, NEW h, NEW k, AtStep(t, p, h, k)',
         p = req'[q].pc, h = req'[q].held, k = req'[q].token
  PROVE  AtStep(t, req[q].pc, req[q].held, req[q].token)'
BY DEF AtStep

\* A session none of whose handlers moved.
LEMMA WorkedStays ==
  ASSUME NEW t, Worked(t),
         \A q \in Requests : req[q].sid = t \/ req'[q].sid = t => req'[q] = req[q],
         \A p, h, k : AtStep(t, p, h, k) => AtStep(t, p, h, k)'
  PROVE  Worked(t)'
<1>1. \A q \in Requests : req'[q].sid = t => req[q].sid = t /\ req'[q] = req[q]
  OBVIOUS
<1>2. \A r, q \in Requests : req'[r].sid = t /\ req'[q].sid = t => r = q
  BY <1>1 DEF Worked
<1>3. ASSUME NEW q \in Requests, req'[q].sid = t
      PROVE  AtStep(t, req[q].pc, req[q].held, req[q].token)'
  <2>1. PICK p, h, k : p = req[q].pc /\ h = req[q].held /\ k = req[q].token
    OBVIOUS
  <2>2. AtStep(t, p, h, k)
    BY <1>1, <1>3, <2>1 DEF Worked
  <2>3. p = req'[q].pc /\ h = req'[q].held /\ k = req'[q].token
    BY <1>1, <1>3, <2>1
  <2> QED
    BY <2>2, <2>3, SameStep
<1>4. (\A q \in Requests : req'[q].sid # t) => AtStep(t, "free", None, None)'
  BY DEF Worked
<1> QED
  BY <1>2, <1>3, <1>4 DEF Worked

\* The handler of r, the only one that works on s, begins, goes on or ends.
LEMMA SerialMove ==
  ASSUME TypeInv, SerialInv, NEW s \in Sessions, NEW r \in Requests, NEW x,
         req[r].sid = s \/ (req[r].sid = None /\ \A q \in Requests : req[q].sid # s),
         req' = [req EXCEPT ![r] = x],
         \/ x = Free /\ AtStep(s, "free", None, None)'
         \/ /\ x.sid = s /\ x.victim = None /\ x.pc \notin {"free", "evicting"}
            /\ AtStep(s, x.pc, x.held, x.token)',
         OneUp(s)', Apart(s)
  PROVE  SerialInv'
<1>1. /\ req' \in [Requests -> {req[q] : q \in Requests} \cup {x}]
      /\ req'[r] = x /\ \A q \in Requests \ {r} : req'[q] = req[q]
  BY DEF TypeInv, RequestsInv, ReqTypeOK
<1>2. Free.sid = None /\ Free.victim = None /\ Free.pc = "free"
  BY DEF Free
<1>3. \A q \in Requests : /\ req'[q].victim = None /\ req'[q].pc # "evicting"
                          /\ req'[q].pc = "free" <=> req'[q].sid = None
  BY <1>1, <1>2, NoneAssumption DEF SerialInv
<1>4. \A c \in Containers : life'[c] = "unused" => owner'[c] = None
  BY DEF SerialInv, Apart, RowsApart, DocksApart
<1>5. \A q \in Requests \ {r} : req[q].sid # s
  BY DEF SerialInv, Worked
<1>6. ASSUME NEW t \in Sessions, t # s
      PROVE  OneUp(t)' /\ Worked(t)'
  <2>1. OneUp(t)'
    BY <1>6, ApartKeepsUp
  <2>2. \A q \in Requests : req[q].sid = t \/ req'[q].sid = t => req'[q] = req[q]
    BY <1>1, <1>2, <1>6, NoneAssumption
  <2>3. \A p, h, k : AtStep(t, p, h, k) => AtStep(t, p, h, k)'
    BY <1>6, ApartKeepsStep
  <2>4. Worked(t)
    BY DEF SerialInv
  <2> QED
    BY <2>1, <2>2, <2>3, <2>4, WorkedStays
<1>7. Worked(s)'
  <2>1. CASE x = Free /\ AtStep(s, "free", None, None)'
    <3>1. \A q \in Requests : req'[q].sid # s
      BY <1>1, <1>2, <1>5, <2>1, NoneAssumption
    <3> QED
      BY <2>1, <3>1 DEF Worked
  <2>2. CASE x.sid = s /\ AtStep(s, x.pc, x.held, x.token)'
    <3>1. \A q \in Requests : req'[q].sid = s <=> q = r
      BY <1>1, <1>5, <2>2
    <3>2. PICK p, h, k : p = x.pc /\ h = x.held /\ k = x.token
      OBVIOUS
    <3>3. AtStep(s, req[r].pc, req[r].held, req[r].token)'
      BY <1>1, <2>2, <3>2, SameStep
    <3> QED
      BY <3>1, <3>3 DEF Worked
  <2> QED
    BY <2>1, <2>2
<1> QED
  BY <1>3, <1>4, <1>6, <1>7 DEF SerialInv

\* No handler moves.
LEMMA SerialStay ==
  ASSUME TypeInv, SerialInv, NEW s \in Sessions, req' = req, Apart(s), OneUp(s)',
         \A p, h, k : AtStep(s, p, h, k) => AtStep(s, p, h, k)'
  PROVE  SerialInv'
<1>1. \A c \in Containers : life'[c] = "unused" => owner'[c] = None
  BY DEF SerialInv, Apart, RowsApart, DocksApart
<1>2. ASSUME NEW t \in Sessions
      PROVE  OneUp(t)' /\ Worked(t)'
  <2>1. OneUp(t)'
    BY <1>2, ApartKeepsUp
  <2>2. \A p, h, k : AtStep(t, p, h, k) => AtStep(t, p, h, k)'
    BY <1>2, ApartKeepsStep
  <2> QED
    BY <2>1, <2>2, WorkedStays DEF SerialInv
<1> QED
  BY <1>1, <1>2 DEF SerialInv

\* What the operations of the parts do to the session s, and to no other.
LEMMA StatusMoves ==
  ASSUME TypeInv, NEW s \in Sessions, NEW st, UpdateStatus(s, st)
  PROVE  /\ RowsApart(s) /\ rowToken'[s] = rowToken[s] /\ rowContainer'[s] = rowContainer[s]
         /\ status'[s] = IF status[s] = "absent" THEN "absent" ELSE st
BY DEF TypeInv, StoreTypeOK, UpdateStatus, WithStatus, HasRow, RowsApart

LEMMA RowGoes ==
  ASSUME TypeInv, NEW s \in Sessions, RemoveRow(s)
  PROVE  RowsApart(s) /\ status'[s] = "absent"
BY DEF TypeInv, StoreTypeOK, RemoveRow, RowsApart

LEMMA TokenMoves ==
  ASSUME TypeInv, NEW s \in Sessions
  PROVE  /\ Release(s) => PoolApart(s) /\ sessionTokens'[s] = None
         /\ Assign(s) => PoolApart(s) /\ sessionTokens'[s] = nextIndex
BY DEF TypeInv, PoolTypeOK, Release, Assign, PoolApart

LEMMA StoreStays ==
  ASSUME NEW s \in Sessions, UNCHANGED storeVars
  PROVE  RowsApart(s) /\ status'[s] = status[s] /\ rowToken'[s] = rowToken[s]
         /\ rowContainer'[s] = rowContainer[s]
BY DEF storeVars, RowsApart

LEMMA PoolStays ==
  ASSUME NEW s \in Sessions, UNCHANGED poolVars
  PROVE  PoolApart(s) /\ sessionTokens'[s] = sessionTokens[s]
BY DEF poolVars, PoolApart

LEMMA DocksStay ==
  ASSUME SerialInv, NEW s \in Sessions, UNCHANGED <<dockerVars, bridgeVars>>
  PROVE  DocksApart(s) /\ OneUp(s)' /\ Of(s)' = Of(s) /\ life' = life /\ containers'[s] = containers[s]
<1>1. OneUp(s)
  BY DEF SerialInv
<1> QED
  BY <1>1 DEF dockerVars, bridgeVars, DocksApart, OneUp, Of, Up

LEMMA TrackMoves ==
  ASSUME TypeInv, SerialInv, NEW s \in Sessions, NEW c \in Of(s), Track(s, c), UNCHANGED bridgeVars
  PROVE  DocksApart(s) /\ OneUp(s)' /\ Of(s)' = Of(s) /\ life' = life /\ containers'[s] = c
<1>1. OneUp(s)
  BY DEF SerialInv
<1>2. containers'[s] = c /\ \A t \in Sessions \ {s} : containers'[t] = containers[t]
  BY DEF TypeInv, RunnersInv, DockerTypeOK, Track
<1> QED
  BY <1>1, <1>2 DEF Track, bridgeVars, DocksApart, OneUp, Of, Up

\* After the kill no runner of the session is left.
LEMMA KillSerial ==
  ASSUME TypeInv, SerialInv, Serial, NEW s \in Sessions, NEW r \in Requests,
         req[r].sid = s, req[r].pc \in Killing, KillEnds(r, s), UNCHANGED bridgeVars
  PROVE  /\ DocksApart(s) /\ OneUp(s)' /\ containers'[s] = None
         /\ \A c \in Containers : owner'[c] = s => life'[c] # "live"
<1>1. AtStep(s, req[r].pc, req[r].held, req[r].token) /\ OneUp(s)
  BY DEF SerialInv, Worked
<1>2. FinishKill(s, req[r].held, TRUE)
  BY DEF KillEnds, Serial
<1>3. req[r].held = containers[s] /\ \A c \in Of(s) : life[c] = "live" => c = containers[s]
  BY <1>1 DEF AtStep, Killing, Spawning
<1>4. /\ containers \in [Sessions -> Containers \cup {None}]
      /\ life \in [Containers -> {"unused", "live", "dead"}]
  BY DEF TypeInv, RunnersInv, DockerTypeOK
<1>5. owner' = owner /\ Of(s)' = Of(s)
  BY <1>2 DEF FinishKill, Of
<1>6. CASE containers[s] = None
  <2>1. containers' = containers /\ life' = life
    BY <1>2, <1>3, <1>6 DEF FinishKill
  <2>2. \A c \in Of(s) : life[c] # "live"
    BY <1>3, <1>6, NoneAssumption DEF Of
  <2> QED
    BY <1>1, <1>5, <1>6, <2>1, <2>2 DEF DocksApart, OneUp, Of, Up, bridgeVars
<1>7. CASE containers[s] # None
  <2> DEFINE d == containers[s]
  <2>1. containers' = [containers EXCEPT ![s] = None] /\ life' = [life EXCEPT ![d] = "dead"]
    BY <1>2, <1>3, <1>7 DEF FinishKill
  <2>2. d \in Of(s) /\ d \in Containers /\ owner[d] = s
    BY <1>1, <1>7 DEF OneUp, Of
  <2> HIDE DEF d
  <2>3. /\ containers'[s] = None /\ \A t \in Sessions \ {s} : containers'[t] = containers[t]
        /\ life'[d] = "dead" /\ \A c \in Containers \ {d} : life'[c] = life[c]
    BY <1>4, <2>1, <2>2
  <2>4. \A c \in Containers : owner[c] = s => life'[c] # "live"
    BY <1>3, <2>3 DEF Of, d
  <2>5. \A c \in Containers : Up(c)' => Up(c)
    BY <2>2, <2>3 DEF Up, bridgeVars
  <2>6. OneUp(s)'
    BY <1>1, <1>5, <2>3, <2>5 DEF OneUp, Of, bridgeVars
  <2>7. DocksApart(s)
    BY <1>5, <2>2, <2>3 DEF DocksApart, bridgeVars
  <2> QED
    BY <1>5, <2>3, <2>4, <2>6, <2>7
<1> QED
  BY <1>6, <1>7

\* A session that is left with nothing.
LEMMA EndsDropped ==
  ASSUME NEW s \in Sessions, containers'[s] = None, sessionTokens'[s] = None,
         status'[s] \in Terminal \cup {"absent"}, s \in snapshotted' => HasRow(s)',
         \A c \in Containers : owner'[c] = s => life'[c] # "live"
  PROVE  AtStep(s, "free", None, None)'
BY DEF AtStep, TokenAgrees, Dropped, IsHeard, Active, NonTerminal, Terminal, Of, Spawning, Killing, Waiting
-----------------------------------------------------------------------------
(***************************************************************************)
(* The steps of a handler, one request at a time.                          *)
(***************************************************************************)
\* The handler of r goes on to another await.
LEMMA SerialGoto ==
  ASSUME TypeInv, SerialInv, NEW s \in Sessions, NEW r \in Requests, NEW step, NEW held, NEW token,
         req[r].sid = s \/ (req[r].sid = None /\ \A q \in Requests : req[q].sid # s),
         Goto(r, step, s, held, token), step \notin {"free", "evicting"},
         AtStep(s, step, held, token)', OneUp(s)', Apart(s)
  PROVE  SerialInv'
<1> DEFINE x == [Free EXCEPT !.pc = step, !.sid = s, !.held = held, !.token = token]
<1>1. req' = [req EXCEPT ![r] = x]
  BY DEF Goto
<1>2. x.pc = step /\ x.sid = s /\ x.held = held /\ x.token = token /\ x.victim = None
  BY DEF Free
<1> HIDE DEF x
<1>3. PICK y : y = x
  OBVIOUS
<1>4. y.pc = step /\ y.held = held /\ y.token = token
  BY <1>2, <1>3
<1>5. AtStep(s, y.pc, y.held, y.token)'
  BY <1>4 DEF AtStep
<1> QED
  BY <1>1, <1>2, <1>3, <1>5, SerialMove

\* It ends.
LEMMA SerialFinish ==
  ASSUME TypeInv, SerialInv, NEW s \in Sessions, NEW r \in Requests, req[r].sid = s, Finish(r),
         AtStep(s, "free", None, None)', OneUp(s)', Apart(s)
  PROVE  SerialInv'
<1>1. req' = [req EXCEPT ![r] = Free]
  BY DEF Finish
<1> QED
  BY <1>1, SerialMove

\* The step a handler is at.
LEMMA HandlerAt ==
  ASSUME SerialInv, NEW s \in Sessions, NEW r \in Requests, req[r].sid = s
  PROVE  AtStep(s, req[r].pc, req[r].held, req[r].token) /\ OneUp(s)
BY DEF SerialInv, Worked

LEMMA AssignTokenSerial ==
  ASSUME TypeInv, SerialInv, NEW s \in Sessions, NEW r \in Requests, req[r].sid = s, AssignToken(r)
  PROVE  SerialInv'
<1>1. PICK k : k = nextIndex
  OBVIOUS
<1>2. /\ At(r, "admitted") /\ Assign(s) /\ Goto(r, "spawning", s, None, k)
      /\ UNCHANGED <<storeVars, dockerVars, bridgeVars>>
  BY <1>1 DEF AssignToken
<1>3. AtStep(s, "admitted", req[r].held, req[r].token)
  BY <1>2, HandlerAt DEF At
<1>4. DocksApart(s) /\ OneUp(s)' /\ Of(s)' = Of(s) /\ life' = life /\ containers'[s] = containers[s]
  BY <1>2, DocksStay
<1>5. RowsApart(s) /\ PoolApart(s) /\ status'[s] = status[s] /\ sessionTokens'[s] = k
  BY <1>1, <1>2, StoreStays, TokenMoves
<1>6. AtStep(s, "spawning", None, k)'
  BY <1>3, <1>4, <1>5 DEF AtStep, HasRow, RowsApart, Spawning, Killing, Waiting
<1> QED
  BY <1>2, <1>4, <1>5, <1>6, SerialGoto DEF Apart

LEMMA SpawnReturnsSerial ==
  ASSUME TypeInv, SerialInv, NEW s \in Sessions, NEW r \in Requests, req[r].sid = s, SpawnReturns(r)
  PROVE  SerialInv'
<1>1. PICK c, k : c = req[r].held /\ k = req[r].token
  OBVIOUS
<1>2. /\ At(r, "spawning") /\ c # None /\ Track(s, c) /\ Goto(r, "waiting", s, None, None)
      /\ UNCHANGED <<poolVars, bridgeVars>>
  BY <1>1 DEF SpawnReturns
<1>3. PICK pin \in BOOLEAN : CreateRow(s, c, k, pin)
  BY <1>1 DEF SpawnReturns
<1>4. AtStep(s, "spawning", c, k)
  BY <1>1, <1>2, HandlerAt DEF At
<1>5. c \in Of(s) /\ k = sessionTokens[s] /\ s \notin snapshotted /\ \A d \in Of(s) : d = c
  BY <1>2, <1>4 DEF AtStep, Spawning
<1>6. DocksApart(s) /\ OneUp(s)' /\ Of(s)' = Of(s) /\ life' = life /\ containers'[s] = c
  BY <1>2, <1>5, TrackMoves
<1>7. RowsApart(s) /\ status'[s] = "starting" /\ rowToken'[s] = k /\ rowContainer'[s] = c
  BY <1>3 DEF TypeInv, StoreTypeOK, CreateRow, RowsApart
<1>8. PoolApart(s) /\ sessionTokens'[s] = k
  BY <1>2, <1>5, PoolStays
<1>9. AtStep(s, "waiting", None, None)'
  BY <1>2, <1>5, <1>6, <1>7, <1>8 DEF AtStep, TokenAgrees, Backed, HasRow, RowsApart, Spawning, Killing, Waiting
<1> QED
  BY <1>2, <1>6, <1>7, <1>8, <1>9, SerialGoto DEF Apart

LEMMA RowRefusedSerial ==
  ASSUME TypeInv, SerialInv, NEW s \in Sessions, NEW r \in Requests, req[r].sid = s, RowRefused(r)
  PROVE  SerialInv'
<1>1. PICK c, k : c = req[r].held /\ k = req[r].token
  OBVIOUS
<1>2. /\ At(r, "spawning") /\ c # None /\ Track(s, c) /\ Goto(r, "undoing", s, c, None)
      /\ UNCHANGED <<poolVars, storeVars, bridgeVars>>
  BY <1>1 DEF RowRefused
<1>3. AtStep(s, "spawning", c, k)
  BY <1>1, <1>2, HandlerAt DEF At
<1>4. c \in Of(s) /\ s \notin snapshotted /\ ~HasRow(s) /\ \A d \in Of(s) : d = c
  BY <1>2, <1>3 DEF AtStep, Spawning
<1>5. DocksApart(s) /\ OneUp(s)' /\ Of(s)' = Of(s) /\ life' = life /\ containers'[s] = c
  BY <1>2, <1>4, TrackMoves
<1>6. AtStep(s, "undoing", c, None)'
  BY <1>2, <1>4, <1>5 DEF AtStep, HasRow, storeVars, Spawning, Killing, Waiting
<1> QED
  BY <1>2, <1>5, <1>6, SerialGoto, StoreStays, PoolStays DEF Apart

LEMMA SpawnThrowsSerial ==
  ASSUME TypeInv, SerialInv, NEW s \in Sessions, NEW r \in Requests, req[r].sid = s,
         SpawnThrows(r) \/ ResumeThrows(r)
  PROVE  SerialInv'
<1>1. PICK h, p, k : h = containers[s] /\ p = req[r].pc /\ k = req[r].token
  OBVIOUS
<1>2. /\ p \in Spawning /\ req[r].held = None
      /\ \/ p = "spawning" /\ Goto(r, "undoing", s, h, None)
         \/ Goto(r, "failing", s, h, None)
      /\ UNCHANGED <<storeVars, dockerVars, bridgeVars>> /\ (Release(s) \/ UNCHANGED poolVars)
  BY <1>1 DEF SpawnThrows, ResumeThrows, At, Spawning, lifeVars
<1>3. AtStep(s, p, None, k)
  BY <1>1, <1>2, HandlerAt
<1>4. DocksApart(s) /\ OneUp(s)' /\ Of(s)' = Of(s) /\ life' = life /\ containers'[s] = containers[s]
  BY <1>2, DocksStay
<1>5. RowsApart(s) /\ PoolApart(s) /\ status'[s] = status[s]
  BY <1>2, StoreStays, PoolStays, TokenMoves
<1>6. ASSUME NEW step \in {"undoing", "failing"}, step = "failing" \/ p = "spawning"
      PROVE  AtStep(s, step, h, None)'
  BY <1>1, <1>2, <1>3, <1>4, <1>5, <1>6, NoneAssumption
     DEF AtStep, RowsApart, HasRow, Spawning, Killing, Waiting, Of
<1> QED
  BY <1>2, <1>4, <1>5, <1>6, SerialGoto DEF Apart

LEMMA ResumeAssignsSerial ==
  ASSUME TypeInv, SerialInv, Serial, NEW s \in Sessions, NEW r \in Requests, req[r].sid = s,
         ResumeAssigns(r)
  PROVE  SerialInv'
<1>1. PICK k : k = nextIndex
  OBVIOUS
<1>2. /\ At(r, "killing") /\ KillEnds(r, s) /\ Assign(s) /\ Goto(r, "respawning", s, None, k)
      /\ UNCHANGED <<storeVars, bridgeVars>>
  BY <1>1 DEF ResumeAssigns
<1>3. HasRow(s)
  BY <1>2, HandlerAt DEF At, AtStep
<1>4. /\ DocksApart(s) /\ OneUp(s)' /\ containers'[s] = None
      /\ \A c \in Containers : owner'[c] = s => life'[c] # "live"
  BY <1>2, KillSerial DEF At, Killing
<1>5. RowsApart(s) /\ PoolApart(s) /\ status'[s] = status[s] /\ sessionTokens'[s] = k
  BY <1>1, <1>2, StoreStays, TokenMoves
<1>6. AtStep(s, "respawning", None, k)'
  BY <1>3, <1>4, <1>5 DEF AtStep, HasRow, RowsApart, Spawning, Killing, Waiting, Of
<1> QED
  BY <1>2, <1>4, <1>5, <1>6, SerialGoto DEF Apart

LEMMA ResumeSpawnedSerial ==
  ASSUME TypeInv, SerialInv, NEW s \in Sessions, NEW r \in Requests, req[r].sid = s, ResumeSpawned(r)
  PROVE  SerialInv'
<1>1. PICK c, k : c = req[r].held /\ k = req[r].token
  OBVIOUS
<1>2. /\ At(r, "respawning") /\ c # None /\ Track(s, c) /\ Reactivate(s, c, k)
      /\ Goto(r, "rewaiting", s, None, None) /\ UNCHANGED <<poolVars, bridgeVars>>
  BY <1>1 DEF ResumeSpawned
<1>3. AtStep(s, "respawning", c, k)
  BY <1>1, <1>2, HandlerAt DEF At
<1>4. /\ c \in Of(s) /\ k = sessionTokens[s] /\ HasRow(s)
      /\ \A d \in Of(s) : life[d] = "live" => d = c
  BY <1>2, <1>3, NoneAssumption DEF AtStep, Spawning, Of
<1>5. DocksApart(s) /\ OneUp(s)' /\ Of(s)' = Of(s) /\ life' = life /\ containers'[s] = c
  BY <1>2, <1>4, TrackMoves
<1>6. RowsApart(s) /\ status'[s] = "starting" /\ rowToken'[s] = k /\ rowContainer'[s] = c
  BY <1>2, <1>4 DEF TypeInv, StoreTypeOK, Reactivate, WithStatus, HasRow, RowsApart
<1>7. PoolApart(s) /\ sessionTokens'[s] = k
  BY <1>2, <1>4, PoolStays
<1>8. AtStep(s, "rewaiting", None, None)'
  BY <1>2, <1>4, <1>5, <1>6, <1>7 DEF AtStep, TokenAgrees, Backed, HasRow, RowsApart, Spawning, Killing, Waiting
<1> QED
  BY <1>2, <1>5, <1>6, <1>7, <1>8, SerialGoto DEF Apart

\* Every handler that kills at its end leaves the session with nothing, but for
\* a rollback that the snapshots refuse.
LEMMA KillersSerial ==
  ASSUME TypeInv, SerialInv, Serial, NEW s \in Sessions, NEW r \in Requests, req[r].sid = s,
         UndoEnd(r) \/ ResumeFails(r) \/ StopEnd(r) \/ DeleteEnd(r)
  PROVE  SerialInv'
<1>1. /\ req[r].pc \in Killing /\ KillEnds(r, s) /\ Finish(r) /\ UNCHANGED bridgeVars
      /\ \/ /\ Release(s)
            /\ (s \notin snapshotted /\ RemoveRow(s)) \/ \E st \in Terminal : UpdateStatus(s, st)
         \/ /\ req[r].pc = "undoing" /\ s \in snapshotted
            /\ UNCHANGED storeVars /\ UNCHANGED poolVars
  BY DEF UndoEnd, ResumeFails, StopEnd, DeleteEnd, At, Killing, Terminal
<1>2. /\ DocksApart(s) /\ OneUp(s)' /\ containers'[s] = None
      /\ \A c \in Containers : owner'[c] = s => life'[c] # "live"
  BY <1>1, KillSerial
<1>3. PICK p, h, k : p = req[r].pc /\ h = req[r].held /\ k = req[r].token
  OBVIOUS
<1>4. AtStep(s, p, h, k)
  BY <1>3, HandlerAt
<1>5. CASE /\ Release(s)
           /\ (s \notin snapshotted /\ RemoveRow(s)) \/ \E st \in Terminal : UpdateStatus(s, st)
  <2>1. /\ RowsApart(s) /\ status'[s] \in Terminal \cup {"absent"}
        /\ s \in snapshotted => status'[s] # "absent"
    BY <1>4, <1>5, StatusMoves, RowGoes DEF AtStep, HasRow, Terminal
  <2>2. PoolApart(s) /\ sessionTokens'[s] = None
    BY <1>5, TokenMoves
  <2>3. s \in snapshotted' => HasRow(s)'
    BY <2>1 DEF RowsApart, HasRow
  <2>4. AtStep(s, "free", None, None)'
    BY <1>2, <2>1, <2>2, <2>3, EndsDropped
  <2> QED
    BY <1>1, <1>2, <2>1, <2>2, <2>4, SerialFinish DEF Apart
<1>6. CASE /\ req[r].pc = "undoing" /\ s \in snapshotted
           /\ UNCHANGED storeVars /\ UNCHANGED poolVars
  <2>1. HasRow(s) /\ TokenAgrees(s) /\ IsHeard(s)
    BY <1>3, <1>4, <1>6 DEF AtStep
  <2>2. Of(s)' = Of(s) /\ sockets' = sockets
    BY <1>1 DEF KillEnds, FinishKill, Of, bridgeVars
  <2>3. Dropped(s)' /\ HasRow(s)'
    BY <1>2, <1>6, <2>1, <2>2 DEF TokenAgrees, Dropped, IsHeard, Active, HasRow, storeVars, poolVars
  <2>4. AtStep(s, "free", None, None)'
    BY <1>2, <2>3 DEF AtStep, Of, Spawning, Killing, Waiting
  <2> QED
    BY <1>1, <1>2, <1>6, <2>4, SerialFinish, StoreStays, PoolStays DEF Apart
<1> QED
  BY <1>1, <1>5, <1>6

\* A request whose wait is rejected is the one that works on the session.
LEMMA RejectedSerial ==
  ASSUME TypeInv, SerialInv, NEW s \in Sessions, NEW r \in Requests, req[r].sid = s,
         req[r].pc \in Waiting, req' = [req EXCEPT ![r] = Rejected(r)],
         DocksApart(s), OneUp(s)', Of(s)' = Of(s), life' = life, containers'[s] = containers[s],
         RowsApart(s), PoolApart(s), HasRow(s) <=> HasRow(s)', rowToken'[s] = rowToken[s],
         sessionTokens'[s] = sessionTokens[s], IsHeard(s) => IsHeard(s)'
  PROVE  SerialInv'
<1>1. PICK x : x = Rejected(r)
  OBVIOUS
<1>2. /\ x.sid = s /\ x.victim = None /\ x.pc \in {"undoing", "failing"} /\ x.held = containers[s]
      /\ x.pc = "undoing" => req[r].pc = "waiting"
  BY <1>1 DEF Rejected, TypeInv, RequestsInv, ReqTypeOK, SerialInv
<1>3. PICK p, h, k : p = x.pc /\ h = x.held /\ k = x.token
  OBVIOUS
<1>4. AtStep(s, req[r].pc, req[r].held, req[r].token)
  BY HandlerAt
<1>5. /\ \A c \in Of(s) : life[c] = "live" => c = containers[s]
      /\ TokenAgrees(s) /\ HasRow(s)
      /\ x.pc = "undoing" /\ s \in snapshotted => IsHeard(s)
  BY <1>2, <1>4 DEF AtStep, TokenAgrees, Backed, Waiting, Spawning
<1>6. AtStep(s, p, h, k)'
  BY <1>2, <1>3, <1>5 DEF AtStep, TokenAgrees, RowsApart, Spawning, Killing, Waiting
<1>7. AtStep(s, x.pc, x.held, x.token)'
  BY <1>3, <1>6 DEF AtStep
<1> QED
  BY <1>1, <1>2, <1>7, SerialMove DEF Apart

LEMMA WaitTimesOutSerial ==
  ASSUME TypeInv, SerialInv, NEW s \in Sessions, NEW r \in Requests, req[r].sid = s, WaitTimesOut(r)
  PROVE  SerialInv'
<1>1. /\ req[r].pc \in Waiting /\ req' = [req EXCEPT ![r] = Rejected(r)]
      /\ UNCHANGED storeVars /\ UNCHANGED poolVars /\ UNCHANGED <<dockerVars, bridgeVars>>
  BY DEF WaitTimesOut, lifeVars
<1>2. (HasRow(s) <=> HasRow(s)') /\ (IsHeard(s) => IsHeard(s)')
  BY <1>1 DEF HasRow, IsHeard, Active, Of, storeVars, dockerVars, bridgeVars
<1> QED
  BY <1>1, <1>2, DocksStay, StoreStays, PoolStays, RejectedSerial

\* No runner of the session is up when another container is started for it.
LEMMA ContainerStartsSerial ==
  ASSUME TypeInv, SerialInv, NEW s \in Sessions, NEW r \in Requests, req[r].sid = s,
         NEW c \in Containers, ContainerStarts(r, c)
  PROVE  SerialInv'
<1>1. /\ req[r].pc \in Spawning /\ req[r].held = None /\ EngineStarts(s, c)
      /\ \A d \in Containers : owner[d] = s /\ life[d] = "dead" => d \notin sockets
      /\ req' = [req EXCEPT ![r].held = c] /\ UNCHANGED <<poolVars, storeVars, bridgeVars>>
  BY DEF ContainerStarts, Spawning
<1>2. PICK x : x = [req[r] EXCEPT !.held = c]
  OBVIOUS
<1>3. /\ x.sid = s /\ x.victim = None /\ x.pc = req[r].pc /\ x.held = c /\ x.token = req[r].token
      /\ req' = [req EXCEPT ![r] = x]
  BY <1>1, <1>2 DEF TypeInv, RequestsInv, ReqTypeOK, SerialInv
<1>4. PICK p, k : p = req[r].pc /\ k = req[r].token
  OBVIOUS
<1>5. AtStep(s, p, None, k) /\ OneUp(s)
  BY <1>1, <1>4, HandlerAt
<1>6. life \in [Containers -> {"unused", "live", "dead"}] /\ owner \in [Containers -> Sessions \cup {None}]
  BY DEF TypeInv, RunnersInv, DockerTypeOK
<1>7. /\ life[c] = "unused" /\ owner[c] = None /\ c \notin sockets
      /\ life'[c] = "live" /\ owner'[c] = s /\ containers' = containers
      /\ \A d \in Containers \ {c} : life'[d] = life[d] /\ owner'[d] = owner[d]
  BY <1>1, <1>6 DEF EngineStarts, SerialInv, TypeInv, RunnersInv, Started
<1>8. containers[s] = None
  BY <1>1, <1>4, <1>5 DEF AtStep
<1>9. \A d \in Of(s) : ~Up(d) /\ life[d] # "live"
  <2> SUFFICES ASSUME NEW d \in Of(s)
               PROVE  ~Up(d) /\ life[d] # "live"
    OBVIOUS
  <2>1. d \in Containers /\ owner[d] = s
    BY DEF Of
  <2>2. life[d] # "live"
    BY <1>5, <1>8, <2>1, NoneAssumption DEF AtStep
  <2>3. d \in sockets => life[d] # "unused"
    BY DEF TypeInv, RunnersInv, Started
  <2> QED
    BY <1>1, <1>6, <2>1, <2>2, <2>3 DEF Up
<1>10. Of(s)' = Of(s) \cup {c}
  BY <1>7 DEF Of
<1>11. OneUp(s)'
  <2>1. \A d \in Of(s) : ~Up(d)'
    BY <1>1, <1>7, <1>9, NoneAssumption DEF Up, bridgeVars, Of
  <2>2. \A d \in Of(s) : d \notin sockets'
    BY <2>1 DEF Up
  <2> QED
    BY <1>1, <1>5, <1>7, <1>10, <2>1, <2>2 DEF OneUp, bridgeVars
<1>12. DocksApart(s)
  BY <1>1, <1>7 DEF DocksApart, bridgeVars
<1>13. /\ RowsApart(s) /\ status'[s] = status[s] /\ PoolApart(s)
       /\ sessionTokens'[s] = sessionTokens[s]
  BY <1>1, StoreStays, PoolStays
<1>14. p \in Spawning => AtStep(s, p, c, k)'
  <2>1. \A d \in Of(s)' : life'[d] = "live" => d = c
    BY <1>7, <1>9, <1>10 DEF Of
  <2>2. p = "spawning" => Of(s)' \subseteq {c}
    BY <1>5, <1>10, NoneAssumption DEF AtStep, Of
  <2> QED
    BY <1>5, <1>7, <1>8, <1>10, <1>13, <2>1, <2>2 DEF AtStep, RowsApart, Spawning, Killing, Waiting, HasRow
<1>15. AtStep(s, x.pc, x.held, x.token)'
  BY <1>1, <1>3, <1>4, <1>14 DEF AtStep
<1>16. x.pc \notin {"free", "evicting"}
  BY <1>1, <1>3 DEF Spawning
<1> QED
  BY <1>3, <1>11, <1>12, <1>13, <1>15, <1>16, SerialMove DEF Apart
-----------------------------------------------------------------------------
\* A stop of a session that has ended and that no request works on.
LEMMA StopAgainSerial ==
  ASSUME TypeInv, SerialInv, Serial, NEW s \in Sessions, NEW r \in Requests, StopAgain(r, s)
  PROVE  SerialInv'
<1>1. /\ "restop" \in Ops /\ Quiet(s) /\ Release(s) /\ req' = req
      /\ UNCHANGED storeVars /\ UNCHANGED <<dockerVars, bridgeVars>>
  BY DEF StopAgain, MayBegin, Serial
<1>2. DocksApart(s) /\ OneUp(s)' /\ Of(s)' = Of(s) /\ life' = life /\ containers'[s] = containers[s]
  BY <1>1, DocksStay
<1>3. RowsApart(s) /\ PoolApart(s) /\ sessionTokens'[s] = None
  BY <1>1, StoreStays, TokenMoves
<1>4. \A q \in Requests : req[q].sid # s
  BY <1>1 DEF Quiet
<1>5. AtStep(s, "free", None, None)
  BY <1>4 DEF SerialInv, Worked
<1>6. AtStep(s, "free", None, None)'
  <2>1. IsHeard(s) => IsHeard(s)'
    BY <1>1 DEF IsHeard, Active, Of, storeVars, dockerVars, bridgeVars
  <2>2. /\ Backed(s) => Backed(s)'
        /\ Dropped(s) => Dropped(s)'
    BY <1>1, <1>2, <1>3, <2>1 DEF TokenAgrees, Backed, Dropped, HasRow, storeVars
  <2> QED
    BY <1>1, <1>2, <1>5, <2>2 DEF AtStep, HasRow, storeVars, Spawning, Killing, Waiting
<1>7. \A t \in Sessions \ {s} : Worked(t)'
  BY <1>1, <1>2, <1>3, ApartKeepsStep, WorkedStays DEF SerialInv, Apart
<1>8. \A t \in Sessions \ {s} : OneUp(t)'
  BY <1>2, <1>3, ApartKeepsUp DEF Apart
<1>9. Worked(s)'
  BY <1>1, <1>4, <1>6 DEF Worked
<1>10. \A c \in Containers : life'[c] = "unused" => owner'[c] = None
  BY <1>1 DEF SerialInv, dockerVars
<1> QED
  BY <1>1, <1>2, <1>7, <1>8, <1>9, <1>10 DEF SerialInv

\* A request arrives, on a session no other works on.
LEMMA ArrivesSerial ==
  ASSUME TypeInv, SerialInv, Serial, NEW s \in Sessions, NEW r \in Requests, Arrives(r, s),
         ~StopAgain(r, s)
  PROVE  SerialInv'
<1>1. PICK h : h = containers[s]
  OBVIOUS
<1>2. /\ At(r, "free") /\ Quiet(s) /\ UNCHANGED <<storeVars, dockerVars, bridgeVars>>
      /\ \/ /\ \A c \in Containers : owner[c] # s
            /\ ~HasRow(s) /\ UNCHANGED poolVars /\ Goto(r, "admitted", s, None, None)
         \/ HasRow(s) /\ Release(s) /\ Goto(r, "killing", s, h, None)
         \/ UNCHANGED poolVars /\ \E step \in {"stopping", "deleting"} : Goto(r, step, s, h, None)
  <2>1. CASE CreateBegin(r, s)
    BY <2>1 DEF CreateBegin, CapacityDecision, Serial, Fresh, lifeVars
  <2>2. CASE ResumeBegin(r, s)
    BY <1>1, <2>2 DEF ResumeBegin, MayBegin, Serial, HasRow, Terminal
  <2>3. CASE StopBegin(r, s)
    BY <1>1, <2>3 DEF StopBegin, MayBegin, Serial, lifeVars
  <2>4. CASE DeleteBegin(r, s)
    BY <1>1, <2>4 DEF DeleteBegin, MayBegin, Serial, lifeVars
  <2> QED
    BY <2>1, <2>2, <2>3, <2>4 DEF Arrives
<1>3. req[r].sid = None /\ \A q \in Requests : req[q].sid # s
  BY <1>2 DEF At, Quiet, SerialInv
<1>4. AtStep(s, "free", None, None) /\ OneUp(s)
  BY <1>3 DEF SerialInv, Worked
<1>5. DocksApart(s) /\ OneUp(s)' /\ Of(s)' = Of(s) /\ life' = life /\ containers'[s] = containers[s]
  BY <1>2, DocksStay
<1>6. RowsApart(s) /\ PoolApart(s) /\ status'[s] = status[s]
  BY <1>2, StoreStays, PoolStays, TokenMoves
<1>7. (s \in snapshotted => HasRow(s)) /\ \A c \in Of(s) : life[c] = "live" => c = containers[s]
  BY <1>4 DEF AtStep, Spawning
<1>8. CASE /\ \A c \in Containers : owner[c] # s
           /\ ~HasRow(s) /\ Goto(r, "admitted", s, None, None)
  <2>1. Of(s) = {} /\ containers[s] = None
    BY <1>4, <1>8 DEF Of, OneUp
  <2>2. AtStep(s, "admitted", None, None)'
    BY <1>5, <1>6, <1>7, <1>8, <2>1 DEF AtStep, HasRow, RowsApart, Spawning, Killing, Waiting
  <2> QED
    BY <1>3, <1>5, <1>6, <1>8, <2>2, SerialGoto DEF Apart
<1>9. CASE HasRow(s) /\ Goto(r, "killing", s, h, None)
  <2>1. AtStep(s, "killing", h, None)'
    BY <1>1, <1>5, <1>6, <1>7, <1>9 DEF AtStep, HasRow, RowsApart, Spawning, Killing, Waiting
  <2> QED
    BY <1>3, <1>5, <1>6, <1>9, <2>1, SerialGoto DEF Apart
<1>10. ASSUME NEW step \in {"stopping", "deleting"}, Goto(r, step, s, h, None)
       PROVE  SerialInv'
  <2>1. AtStep(s, step, h, None)'
    BY <1>1, <1>5, <1>6, <1>7, <1>10 DEF AtStep, HasRow, RowsApart, Spawning, Killing, Waiting
  <2> QED
    BY <1>3, <1>5, <1>6, <1>10, <2>1, SerialGoto DEF Apart
<1> QED
  BY <1>2, <1>8, <1>9, <1>10
-----------------------------------------------------------------------------
(***************************************************************************)
(* What the runner in c does to the session it works for.                  *)
(***************************************************************************)
\* It speaks, on its first or on its registered socket.
LEMMA HeardSerial ==
  ASSUME TypeInv, SerialInv, NEW s \in Sessions, NEW c \in Of(s), UNCHANGED dockerVars,
         FirstMessage(c) \/ (Heard(c) /\ Registered(c))
  PROVE  /\ DocksApart(s) /\ OneUp(s)' /\ Of(s)' = Of(s) /\ life' = life /\ containers'[s] = containers[s]
         /\ c \in sockets'
<1>1. c \in Containers /\ owner[c] = s
  BY DEF Of
<1>2. CASE UNCHANGED bridgeVars /\ c \in sockets
  BY <1>2, DocksStay DEF bridgeVars
<1>3. CASE life[c] = "live" /\ Register(s, c)
  <2>1. OneUp(s)
    BY DEF SerialInv
  <2>2. /\ connections'[s] = c /\ sockets' = sockets \cup {c}
        /\ \A t \in Sessions \ {s} : connections'[t] = connections[t]
    BY <1>3 DEF TypeInv, RunnersInv, BridgeTypeOK, Register
  <2>3. \A d \in Containers : Up(d)' <=> Up(d)
    BY <1>3, <2>2 DEF Up, dockerVars
  <2>4. \A d \in Of(s) : d \in sockets' => d = c
    BY <1>3, <2>1, <2>2 DEF OneUp, Up
  <2>5. OneUp(s)'
    BY <2>1, <2>2, <2>3, <2>4 DEF OneUp, Of, dockerVars
  <2>6. DocksApart(s)
    BY <1>1, <2>2 DEF DocksApart, dockerVars
  <2> QED
    BY <2>2, <2>5, <2>6 DEF dockerVars, Of
<1> QED
  BY <1>1, <1>2, <1>3 DEF FirstMessage, Registered

\* What is left to the session when it has spoken.
LEMMA SpokenSettles ==
  ASSUME NEW s \in Sessions, NEW c \in Of(s), Of(s)' = Of(s), c \in sockets',
         HasRow(s) => HasRow(s)', sessionTokens'[s] = sessionTokens[s], rowToken'[s] = rowToken[s],
         rowContainer'[s] = rowContainer[s], containers'[s] = containers[s],
         s \in snapshotted => s \in snapshotted', Backed(s) \/ Dropped(s)
  PROVE  Backed(s)' \/ Dropped(s)'
BY DEF Backed, TokenAgrees, Dropped, IsHeard

\* A word of its runner changes nothing a handler relies on.
LEMMA SpokenStep ==
  ASSUME NEW s \in Sessions, NEW c \in Of(s), Of(s)' = Of(s), c \in sockets', life' = life,
         HasRow(s) <=> HasRow(s)', sessionTokens'[s] = sessionTokens[s], rowToken'[s] = rowToken[s],
         rowContainer'[s] = rowContainer[s], containers'[s] = containers[s],
         s \in snapshotted => s \in snapshotted', s \in snapshotted' => HasRow(s) \/ s \in snapshotted
  PROVE  \A p, h, k : AtStep(s, p, h, k) => AtStep(s, p, h, k)'
<1>1. (Backed(s) => Backed(s)') /\ (TokenAgrees(s) => TokenAgrees(s)') /\ IsHeard(s)'
  BY DEF TokenAgrees, Backed, IsHeard
<1>2. Backed(s) \/ Dropped(s) => Backed(s)' \/ Dropped(s)'
  BY SpokenSettles
<1> QED
  BY <1>1, <1>2 DEF AtStep

\* It reports a status; the request that waits for it may be answered.
LEMMA ReportsSerial ==
  ASSUME TypeInv, SerialInv, NEW s \in Sessions, NEW c \in Of(s),
         ReportsReady(c) \/ ReportsBusy(c) \/ ReportsError(c) \/ ReportsSessionInit(c)
  PROVE  SerialInv'
<1>1. owner[c] = s /\ c \in Containers
  BY DEF Of
<1>2. /\ FirstMessage(c) \/ (Heard(c) /\ Registered(c))
      /\ UNCHANGED poolVars /\ UNCHANGED dockerVars
      /\ (\E st \in {"ready", "busy", "error"} : UpdateStatus(s, st)) \/ SetSdkSessionId(s)
      /\ req' = req \/ ResolveWaiters(s) \/ RejectWaiters(s)
  BY <1>1 DEF ReportsReady, ReportsBusy, ReportsError, ReportsSessionInit
<1>3. /\ DocksApart(s) /\ OneUp(s)' /\ Of(s)' = Of(s) /\ life' = life /\ containers'[s] = containers[s]
      /\ c \in sockets'
  BY <1>2, HeardSerial
<1>4. /\ RowsApart(s) /\ rowToken'[s] = rowToken[s] /\ rowContainer'[s] = rowContainer[s]
      /\ HasRow(s) <=> HasRow(s)'
  <2>1. CASE \E st \in {"ready", "busy", "error"} : UpdateStatus(s, st)
    BY <2>1, StatusMoves DEF HasRow
  <2>2. CASE SetSdkSessionId(s)
    BY <2>2 DEF SetSdkSessionId, RowsApart, HasRow
  <2> QED
    BY <1>2, <2>1, <2>2
<1>5. PoolApart(s) /\ sessionTokens'[s] = sessionTokens[s]
  BY <1>2, PoolStays
<1>6. \A p, h, k : AtStep(s, p, h, k) => AtStep(s, p, h, k)'
  BY <1>3, <1>4, <1>5, SpokenStep DEF RowsApart
<1>7. CASE req' = req
  BY <1>3, <1>4, <1>5, <1>6, <1>7, SerialStay DEF Apart
<1>8. CASE \A r \in Requests : ~(req[r].sid = s /\ req[r].pc \in Waiting)
  <2>1. WaitersOf(s) = {}
    BY <1>8 DEF WaitersOf
  <2>2. req' = req
    BY <1>2, <2>1 DEF ResolveWaiters, RejectWaiters, TypeInv, RequestsInv, ReqTypeOK
  <2> QED
    BY <1>7, <2>2
<1>9. ASSUME NEW r \in Requests, req[r].sid = s, req[r].pc \in Waiting
      PROVE  SerialInv'
  <2>1. \A q \in Requests \ {r} : req[q].sid # s
    BY <1>9 DEF SerialInv, Worked
  <2>2. WaitersOf(s) = {r}
    BY <1>9, <2>1 DEF WaitersOf
  <2>3. req \in [Requests -> {req[q] : q \in Requests}]
    BY DEF TypeInv, RequestsInv, ReqTypeOK
  <2>4. CASE ResolveWaiters(s)
    <3>1. req' = [req EXCEPT ![r] = Free]
      BY <2>2, <2>3, <2>4 DEF ResolveWaiters
    <3>2. AtStep(s, req[r].pc, req[r].held, req[r].token)
      BY <1>9, HandlerAt
    <3>3. AtStep(s, "free", None, None)
      BY <1>9, <3>2 DEF AtStep, Waiting, Spawning, Killing
    <3> QED
      BY <1>3, <1>4, <1>5, <1>6, <1>9, <3>1, <3>3, SerialMove DEF Apart
  <2>5. CASE RejectWaiters(s)
    <3>1. req' = [req EXCEPT ![r] = Rejected(r)]
      BY <2>2, <2>3, <2>5 DEF RejectWaiters
    <3>2. IsHeard(s)'
      BY <1>3 DEF IsHeard
    <3> QED
      BY <1>3, <1>4, <1>5, <1>9, <3>1, <3>2, RejectedSerial
  <2> QED
    BY <1>2, <1>7, <2>4, <2>5
<1> QED
  BY <1>8, <1>9

\* It sends a snapshot: the row is there, and from now on it is kept.
LEMMA SnapshotSerial ==
  ASSUME SerialInv, NEW s \in Sessions, NEW c \in Of(s), ReportsSnapshot(c)
  PROVE  SerialInv'
<1>1. /\ c \in sockets /\ owner[c] = s /\ InsertSnapshot(s) /\ req' = req
      /\ UNCHANGED <<poolVars, dockerVars, bridgeVars>>
  BY DEF ReportsSnapshot, Registered, Of
<1>2. /\ UNCHANGED <<status, rowToken, rowContainer, sessionTokens, containers, life, owner, sockets,
                     connections>>
      /\ \A t \in Sessions \ {s} : t \in snapshotted' <=> t \in snapshotted
      /\ s \in snapshotted => s \in snapshotted'
      /\ s \in snapshotted' => HasRow(s) \/ s \in snapshotted
  BY <1>1 DEF InsertSnapshot, poolVars, dockerVars, bridgeVars
<1>3. \A t \in Sessions : OneUp(t) => OneUp(t)'
  BY <1>2 DEF OneUp, Of, Up
<1>4. ASSUME NEW t \in Sessions, t # s
      PROVE  \A p, h, k : AtStep(t, p, h, k) => AtStep(t, p, h, k)'
  BY <1>2, <1>4 DEF AtStep, Backed, TokenAgrees, Dropped, IsHeard, HasRow, Active, Of
<1>5. \A p, h, k : AtStep(s, p, h, k) => AtStep(s, p, h, k)'
  BY <1>1, <1>2, SpokenStep DEF Of, HasRow
<1>6. \A t \in Sessions : Worked(t)'
  BY <1>1, <1>4, <1>5, WorkedStays DEF SerialInv
<1> QED
  BY <1>1, <1>2, <1>3, <1>6 DEF SerialInv

\* A socket closes: a session that has nothing else is stopped with it.
LEMMA SocketClosesSerial ==
  ASSUME TypeInv, SerialInv, NEW s \in Sessions, NEW c \in Of(s), SocketCloses(c)
  PROVE  SerialInv'
<1>1. owner[c] = s /\ c \in Containers
  BY DEF Of
<1>2. /\ c \in sockets /\ CloseSocket(s, c) /\ UNCHANGED poolVars /\ UNCHANGED dockerVars /\ req' = req
      /\ \/ connections[s] = c /\ s \in Active /\ UpdateStatus(s, "stopped")
         \/ ~(connections[s] = c /\ s \in Active) /\ UNCHANGED storeVars
  BY <1>1 DEF SocketCloses, IsActiveConnection
<1>3. OneUp(s)
  BY DEF SerialInv
<1>4. connections[s] = c
  BY <1>2, <1>3 DEF OneUp
<1>5. /\ sockets' = sockets \ {c} /\ \A t \in Sessions \ {s} : connections'[t] = connections[t]
      /\ \A d \in Of(s) : d \notin sockets'
  BY <1>2, <1>3 DEF CloseSocket, IsActiveConnection, TypeInv, RunnersInv, BridgeTypeOK, OneUp, Up
<1>6. \A d \in Containers : Up(d)' => Up(d)
  BY <1>2, <1>5 DEF Up, dockerVars
<1>7. OneUp(s)' /\ Of(s)' = Of(s) /\ life' = life /\ containers'[s] = containers[s]
  BY <1>2, <1>3, <1>5, <1>6 DEF OneUp, Of, dockerVars
<1>8. DocksApart(s)
  BY <1>1, <1>2, <1>5 DEF DocksApart, dockerVars
<1>9. /\ RowsApart(s) /\ rowToken'[s] = rowToken[s] /\ rowContainer'[s] = rowContainer[s]
      /\ HasRow(s) <=> HasRow(s)'
  BY <1>2, StatusMoves, StoreStays DEF HasRow
<1>10. s \notin Active'
  BY <1>2, <1>4, StatusMoves, StoreStays DEF Active, NonTerminal
<1>11. PoolApart(s) /\ sessionTokens'[s] = sessionTokens[s]
  BY <1>2, PoolStays
<1>12. /\ Backed(s) => Backed(s)'
       /\ Dropped(s) => Dropped(s)'
       /\ TokenAgrees(s) => TokenAgrees(s)'
       /\ IsHeard(s)'
  BY <1>7, <1>9, <1>10, <1>11 DEF Backed, TokenAgrees, Dropped, IsHeard, RowsApart
<1>13. \A p, h, k : AtStep(s, p, h, k) => AtStep(s, p, h, k)'
  BY <1>7, <1>9, <1>11, <1>12 DEF AtStep, RowsApart
<1> QED
  BY <1>2, <1>7, <1>8, <1>9, <1>11, <1>13, SerialStay DEF Apart

\* The runner is gone: its container stays tracked until somebody kills it.
LEMMA RunnerExitsSerial ==
  ASSUME TypeInv, SerialInv, NEW s \in Sessions, NEW c \in Of(s), RunnerExits(c)
  PROVE  SerialInv'
<1>1. c \in Containers /\ owner[c] = s
  BY DEF Of
<1>2. /\ life'[c] = "dead" /\ \A d \in Containers \ {c} : life'[d] = life[d]
      /\ UNCHANGED <<containers, owner>> /\ UNCHANGED poolVars /\ UNCHANGED storeVars
      /\ UNCHANGED bridgeVars /\ req' = req
  BY <1>1 DEF RunnerExits, TypeInv, RunnersInv, DockerTypeOK
<1>3. OneUp(s) /\ life[c] = "live"
  BY DEF SerialInv, RunnerExits
<1>4. \A d \in Containers : Up(d)' => Up(d)
  BY <1>2, <1>3 DEF Up, bridgeVars
<1>5. OneUp(s)' /\ Of(s)' = Of(s)
  BY <1>2, <1>3, <1>4 DEF OneUp, Of, bridgeVars
<1>6. DocksApart(s)
  BY <1>1, <1>2, <1>3 DEF DocksApart, bridgeVars
<1>7. RowsApart(s) /\ PoolApart(s)
  BY <1>2, StoreStays, PoolStays
<1>8. \A p, h, k : AtStep(s, p, h, k) => AtStep(s, p, h, k)'
  <2>1. /\ Backed(s) => Backed(s)'
        /\ Dropped(s) => Dropped(s)'
        /\ TokenAgrees(s) => TokenAgrees(s)'
        /\ IsHeard(s) => IsHeard(s)'
        /\ HasRow(s) <=> HasRow(s)'
    BY <1>2, <1>5 DEF Backed, TokenAgrees, Dropped, IsHeard, HasRow, Active, storeVars, poolVars, bridgeVars
  <2>2. \A d \in Of(s) : life'[d] = "live" => life[d] = "live"
    BY <1>2 DEF Of
  <2> QED
    BY <1>2, <1>5, <2>1, <2>2 DEF AtStep, poolVars, storeVars
<1> QED
  BY <1>2, <1>5, <1>6, <1>7, <1>8, SerialStay DEF Apart
-----------------------------------------------------------------------------
LEMMA SerialUnchanged ==
  ASSUME SerialInv,
         UNCHANGED <<sessionTokens, status, rowToken, rowContainer, snapshotted, dockerVars,
                     connections, sockets, req>>
  PROVE  SerialInv'
BY DEF SerialInv, OneUp, Worked, AtStep, Of, Up, Backed, TokenAgrees, Dropped, IsHeard, HasRow, Active, dockerVars

LEMMA SerialInit == Init => SerialInv
<1> SUFFICES ASSUME Init PROVE SerialInv
  OBVIOUS
<1>1. /\ \A s \in Sessions : /\ status[s] = "absent" /\ sessionTokens[s] = None /\ containers[s] = None
      /\ \A c \in Containers : owner[c] = None
      /\ \A r \in Requests : req[r] = Free
      /\ snapshotted = {}
  BY DEF Init, PoolInit, StoreInit, DockerInit
<1>2. Free.pc = "free" /\ Free.sid = None /\ Free.victim = None
  BY DEF Free
<1>3. ASSUME NEW s \in Sessions
      PROVE  OneUp(s) /\ Worked(s)
  <2>1. Of(s) = {}
    BY <1>1, NoneAssumption DEF Of
  <2>2. AtStep(s, "free", None, None)
    BY <1>1, <2>1 DEF AtStep, TokenAgrees, Dropped, IsHeard, Active, NonTerminal, Spawning, Killing, Waiting
  <2>3. \A r \in Requests : req[r].sid # s
    BY <1>1, <1>2, NoneAssumption
  <2> QED
    BY <1>1, <2>1, <2>2, <2>3 DEF OneUp, Worked
<1> QED
  BY <1>1, <1>2, <1>3 DEF SerialInv

LEMMA SerialStep == Serial /\ TypeInv /\ SerialInv /\ [Next]_vars => SerialInv'
<1> SUFFICES ASSUME Serial, TypeInv, SerialInv, [Next]_vars PROVE SerialInv'
  OBVIOUS
<1>1. CASE UNCHANGED vars
  BY <1>1, SerialUnchanged DEF vars, lifeVars, poolVars, storeVars, bridgeVars
<1>2. ASSUME NEW r \in Requests, Continues(r)
      PROVE  SerialInv'
  <2>1. req[r].pc # "free" /\ ~EvictEnd(r)
    BY <1>2 DEF SerialInv, Continues, EvictEnd, AssignToken, SpawnReturns, SpawnThrows, RowRefused,
                UndoEnd, ResumeAssigns, ResumeSpawned, ResumeThrows, ResumeFails, StopEnd,
                DeleteEnd, WaitTimesOut, ContainerStarts, At, Waiting
  <2>2. PICK s \in Sessions : req[r].sid = s
    BY <2>1 DEF TypeInv, RequestsInv
  <2> QED
    BY <1>2, <2>1, <2>2, AssignTokenSerial, SpawnReturnsSerial, RowRefusedSerial, SpawnThrowsSerial,
       ResumeAssignsSerial, ResumeSpawnedSerial, KillersSerial, WaitTimesOutSerial,
       ContainerStartsSerial DEF Continues
<1>3. ASSUME NEW s \in Sessions, Pin(s)
      PROVE  SerialInv'
  BY <1>3, SerialUnchanged DEF Pin, SetPinned, poolVars, bridgeVars
<1>4. ASSUME NEW c \in Containers, RunnerActs(c)
      PROVE  SerialInv'
  <2>1. CASE SupersededCloses(c)
    BY <2>1, SerialUnchanged DEF SupersededCloses, poolVars, storeVars
  <2>2. CASE ~SupersededCloses(c)
    <3>1. life[c] # "unused"
      BY <1>4, <2>2 DEF RunnerActs, ReportsReady, ReportsBusy, ReportsError, ReportsSessionInit,
                        ReportsSnapshot, SocketCloses, RunnerExits, FirstMessage, Heard,
                        TypeInv, RunnersInv, Started
    <3>2. PICK s \in Sessions : owner[c] = s
      BY <3>1 DEF TypeInv, RunnersInv, Started
    <3>3. c \in Of(s)
      BY <3>2 DEF Of
    <3> QED
      BY <1>4, <2>2, <3>3, ReportsSerial, SnapshotSerial, SocketClosesSerial, RunnerExitsSerial DEF RunnerActs
  <2> QED
    BY <2>1, <2>2
<1>5. ~Restart
  BY DEF Restart, Serial, TypeInv
<1> QED
  BY <1>1, <1>2, <1>3, <1>4, <1>5, ArrivesSerial, StopAgainSerial DEF Next

LEMMA SerialInvariant ==
  ASSUME Serial
  PROVE  Spec => [](TypeInv /\ SerialInv)
<1>1. Init => TypeInv /\ SerialInv
  BY TypeInit, SerialInit
<1>2. TypeInv /\ SerialInv /\ [Next]_vars => TypeInv' /\ SerialInv'
  BY TypeStep, SerialStep
<1> QED
  BY <1>1, <1>2, PTL DEF Spec

\* What follows for one session.
LEMMA SettledSession ==
  ASSUME SerialInv, NEW s \in Sessions, Quiet(s)
  PROVE  (Backed(s) \/ Dropped(s)) /\ OneUp(s)
BY DEF SerialInv, Worked, Quiet, AtStep

\* One runner at a time: neither a resume that failed half-way nor a stop, a
\* rollback or a lost connection ever leaves a second one running for the same
\* session.
THEOREM SingleRunnerWhenSerial ==
  ASSUME Serial
  PROVE  Spec => []SingleRunner
<1>1. TypeInv /\ SerialInv => SingleRunner
  <2> SUFFICES ASSUME TypeInv, SerialInv, NEW c \in Containers, NEW d \in Containers,
                      life[c] = "live", life[d] = "live", owner[c] = owner[d]
               PROVE  c = d
    BY DEF SingleRunner
  <2>1. owner[c] \in Sessions
    BY DEF TypeInv, RunnersInv, Started
  <2> QED
    BY <2>1 DEF SerialInv, OneUp, Of, Up
<1> QED
  BY <1>1, SerialInvariant, PTL

\* No container runs that neither the manager nor the spawn or the kill under
\* way knows: every one that was started can still be stopped.
THEOREM NoRunnerIsLostWhenSerial ==
  ASSUME Serial
  PROVE  Spec => []NoLostRunner
<1>1. TypeInv /\ SerialInv => NoLostRunner
  <2> SUFFICES ASSUME TypeInv, SerialInv, NEW c \in Containers, life[c] = "live",
                      \A r \in Requests : req[r].held # c
               PROVE  containers[owner[c]] = c
    BY DEF NoLostRunner
  <2>1. PICK s \in Sessions : owner[c] = s
    BY DEF TypeInv, RunnersInv, Started
  <2>2. c \in Of(s) /\ Worked(s)
    BY <2>1 DEF Of, SerialInv
  <2>3. CASE \E r \in Requests : req[r].sid = s
    BY <2>1, <2>2, <2>3 DEF Worked, AtStep
  <2>4. CASE \A r \in Requests : req[r].sid # s
    BY <2>1, <2>2, <2>4, NoneAssumption DEF Worked, AtStep
  <2> QED
    BY <2>3, <2>4
<1> QED
  BY <1>1, SerialInvariant, PTL

\* What is shown as active has a container a stop can reach and the token of
\* its row, unless only the last words of a runner that is gone made it active,
\* or a second stop dropped the token of a session whose runner lives on.
THEOREM ActiveIsBackedWhenSerial ==
  ASSUME Serial, "restop" \notin Ops
  PROVE  Spec => []ActiveIsBacked
<1>1. SerialInv => ActiveIsBacked
  <2> SUFFICES ASSUME SerialInv, NEW s \in Active, Quiet(s), Dropped(s)
               PROVE  Untracked(s)
    BY SettledSession DEF ActiveIsBacked, TokenAgrees, Backed, Active
  <2> QED
    BY NoneAssumption DEF TokenAgrees, Dropped, IsHeard, Untracked, Of
<1> QED
  BY <1>1, SerialInvariant, PTL
-----------------------------------------------------------------------------
(***************************************************************************)
(* The capacity, when sessions are only created and ended: no resume       *)
(* brings a session back, every kill succeeds, and a session ends with its *)
(* runner (no connection is lost, no error reported and no status read     *)
(* late).  Requests overlap as they like, and the orchestrator may crash   *)
(* at any of their steps.                                                  *)
(***************************************************************************)
Counted ==
  /\ "resume" \notin Ops
  /\ {"killFails", "disconnect", "late", "error"} \cap Faults = {}

\* A request that has not made the row of its session yet.
Making == {"evicting", "admitted", "spawning"}
Ending == {"evicting", "undoing", "stopping", "deleting"}

\* The session the kill of r is meant for.
Target(r) == IF At(r, "evicting") THEN req[r].victim ELSE req[r].sid

\* The session of r is nobody else's until r has started a container for it.
MakingAlone(r) ==
  LET s == req[r].sid
  IN  /\ ~HasRow(s) /\ containers[s] = None
      /\ \A q \in Requests : /\ q # r => req[q].sid # s
                             /\ req[q].victim # s /\ s \notin req[q].cands
      /\ IF At(r, "spawning") /\ req[r].held # None THEN req[r].held \in Of(s) ELSE Of(s) = {}

\* The kill will stop the runner of the session it is meant for.
KillReaches(r) ==
  /\ Target(r) \in Sessions
  /\ req[r].held \in Of(Target(r)) \cup {None}
  /\ \A c \in Of(Target(r)) : life[c] = "live" => c = req[r].held

\* The runner of s, if it lives, can be found: a crash may leave one that cannot.
InHand(s) ==
  \A c \in Of(s) : life[c] = "live" =>
    containers[s] = c \/ \E r \in Requests : At(r, "spawning") /\ req[r].sid = s

\* A session has one container in its life, which is found while the session has
\* a row and does not run when the session has ended.
OneLife(s) ==
  /\ \A c, d \in Of(s) : c = d
  /\ containers[s] # None => containers[s] \in Of(s)
  /\ HasRow(s) => Of(s) # {} /\ InHand(s)
  /\ \A c \in Of(s) : life[c] = "live" => status[s] \notin Terminal

\* The sessions the handler of r works on or may come to.
Names(r) == ({req[r].sid, req[r].victim} \cup req[r].cands) \cap Sessions

Admitted == {req[r].sid : r \in {q \in Requests : req[q].pc \in {"admitted", "spawning"}}}

CountInv ==
  /\ \A r \in Requests :
       /\ req[r].pc \in {"free", "waiting"} \cup Making \cup Ending
       /\ req[r].pc \in Making => MakingAlone(r)
       /\ req[r].pc \in Ending => KillReaches(r)
       /\ \A v \in req[r].cands : Of(v) # {}
       /\ req[r].victim # None => Of(req[r].victim) # {}
       /\ \A t \in Names(r) : InHand(t)
  /\ \A c \in Containers : life[c] = "unused" => owner[c] = None
  /\ \A s \in Sessions : OneLife(s)

\* The row of a session names its container.
RowsOwned == \A s \in Sessions : HasRow(s) => rowContainer[s] \in Of(s)

\* What a step does to s: it keeps its one life, and finds what was found.
Lives(s) == OneLife(s)' /\ (InHand(s) => InHand(s)')

\* Containers are neither started nor given away; they may die.
Fading ==
  /\ owner' = owner
  /\ \A c \in Containers : /\ life'[c] = "live" => life[c] = "live"
                           /\ life'[c] = "unused" => life[c] = "unused"

\* Nobody spawns for a session that has a row, or that another request names.
LEMMA TrackedAlone ==
  ASSUME CountInv, NEW s \in Sessions, NEW r \in Requests, ~At(r, "spawning"),
         HasRow(s) \/ req[r].sid = s \/ req[r].victim = s \/ s \in req[r].cands
  PROVE  /\ \A c \in Of(s) : life[c] = "live" => c = containers[s]
         /\ containers[s] \in Of(s) \cup {None}
<1>1. OneLife(s)
  BY DEF CountInv
<1>2. ASSUME NEW q \in Requests, At(q, "spawning"), req[q].sid = s
      PROVE  FALSE
  <2>1. MakingAlone(q) /\ q # r
    BY <1>2 DEF CountInv, At, Making
  <2> QED
    BY <1>2, <2>1 DEF MakingAlone
<1>3. InHand(s)
  BY <1>1 DEF CountInv, OneLife, Names
<1> QED
  BY <1>1, <1>2, <1>3 DEF OneLife, InHand

\* A session whose row and container stay.
LEMMA LifeStays ==
  ASSUME NEW s, OneLife(s), Fading, HasRow(s)' => HasRow(s), containers'[s] \in {containers[s], None},
         \A c \in Of(s) : life'[c] = "live" =>
           status'[s] \notin Terminal /\ containers'[s] = containers[s],
         \A q \in Requests : At(q, "spawning") /\ req[q].sid = s => req'[q] = req[q]
  PROVE  Lives(s)
<1>1. Of(s)' = Of(s)
  BY DEF Of, Fading
<1>2. \A c \in Of(s) : life'[c] = "live" => life[c] = "live"
  BY DEF Of, Fading
<1>3. \A q \in Requests : At(q, "spawning") /\ req[q].sid = s => At(q, "spawning")' /\ req'[q].sid = s
  BY DEF At
<1>4. InHand(s) => InHand(s)'
  BY <1>1, <1>2, <1>3 DEF InHand
<1> QED
  BY <1>1, <1>2, <1>4 DEF OneLife, Lives

\* A request that makes a session does not see what the others do.
LEMMA AloneStays ==
  ASSUME NEW q \in Requests, NEW s, s = req[q].sid, MakingAlone(q), Fading, req'[q] = req[q],
         ~HasRow(s)', containers'[s] = None,
         \A p \in Requests : p # q => /\ req'[p].sid # s
                                      /\ req'[p].victim # s /\ s \notin req'[p].cands
  PROVE  MakingAlone(q)'
<1>1. Of(s)' = Of(s)
  BY DEF Of, Fading
<1> QED
  BY <1>1 DEF MakingAlone, At, HasRow

LEMMA ReachStays ==
  ASSUME NEW q \in Requests, KillReaches(q), Fading, req'[q] = req[q]
  PROVE  KillReaches(q)'
<1>1. PICK s : s = Target(q)
  OBVIOUS
<1>2. Target(q)' = s
  BY <1>1 DEF Target, At
<1>3. Of(s)' = Of(s) /\ \A c \in Of(s) : life'[c] = "live" => life[c] = "live"
  BY DEF Of, Fading
<1> QED
  BY <1>1, <1>2, <1>3 DEF KillReaches

\* The handler of r goes on or ends.
LEMMA CountMove ==
  ASSUME TypeInv, CountInv, NEW r \in Requests, NEW x, req' = [req EXCEPT ![r] = x], Fading,
         \A t \in Sessions : t # req[r].sid /\ ~HasRow(t) /\ containers[t] = None
                               => ~HasRow(t)' /\ containers'[t] = None,
         \/ x.sid \in {req[r].sid, None}
         \/ HasRow(x.sid)
         \/ Of(x.sid) = {} /\ \A q \in Requests : req[q].sid # x.sid,
         \A v \in x.cands \cup {x.victim} :
           v = None \/ HasRow(v) \/ v \in req[r].cands \cup {req[r].victim},
         None \notin x.cands, x.cands \cup {x.victim} \subseteq Sessions \cup {None},
         x.pc \in {"free", "waiting"} \cup Making \cup Ending,
         x.pc \in Making => MakingAlone(r)', x.pc \in Ending => KillReaches(r)',
         \A s \in Sessions : Lives(s)
  PROVE  CountInv'
<1>1. req'[r] = x /\ \A q \in Requests \ {r} : req'[q] = req[q]
  BY DEF TypeInv, RequestsInv, ReqTypeOK
<1>2. \A v \in Sessions : Of(v)' = Of(v)
  BY DEF Of, Fading
<1>3. \A v \in Sessions : HasRow(v) \/ v \in req[r].cands \cup {req[r].victim} => Of(v) # {}
  BY NoneAssumption DEF CountInv, OneLife
<1>4. \A v \in x.cands \cup {x.victim} : v # None => v \in Sessions /\ Of(v) # {}
  BY <1>3
<1>5. \A q \in Requests : \A v \in req[q].cands \cup {req[q].victim} : v # None => v \in Sessions /\ Of(v) # {}
  BY DEF CountInv, TypeInv, RequestsInv, ReqTypeOK
<1>6. ASSUME NEW q \in Requests, q # r, req'[q].pc \in Making
      PROVE  MakingAlone(q)'
  <2>1. req'[q] = req[q] /\ MakingAlone(q)
    BY <1>1, <1>6 DEF CountInv
  <2>2. PICK s \in Sessions : s = req[q].sid
    BY <1>6, <2>1 DEF TypeInv, RequestsInv, Making
  <2>3. /\ ~HasRow(s) /\ containers[s] = None
        /\ \A p \in Requests : /\ p # q => req[p].sid # s
                               /\ req[p].victim # s /\ s \notin req[p].cands
    BY <2>1, <2>2 DEF MakingAlone
  <2>4. ~HasRow(s)' /\ containers'[s] = None
    BY <1>6, <2>3
  <2>5. x.sid # s /\ x.victim # s /\ s \notin x.cands
    BY <1>6, <2>2, <2>3, NoneAssumption
  <2> QED
    BY <1>1, <2>1, <2>2, <2>3, <2>4, <2>5, AloneStays
<1>7. ASSUME NEW q \in Requests, q # r, req'[q].pc \in Ending
      PROVE  KillReaches(q)'
  BY <1>1, <1>7, ReachStays DEF CountInv
<1>8. \A c \in Containers : life'[c] = "unused" => owner'[c] = None
  BY DEF Fading, CountInv
<1>9. ASSUME NEW q \in Requests
      PROVE  /\ \A v \in req'[q].cands : {c \in Containers : owner'[c] = v} # {}
             /\ req'[q].victim # None => {c \in Containers : owner'[c] = req'[q].victim} # {}
  <2>1. /\ None \notin req'[q].cands
        /\ \A v \in req'[q].cands \cup {req'[q].victim} : v # None => v \in Sessions /\ Of(v) # {}
    BY <1>1, <1>4, <1>5, NoneAssumption DEF TypeInv, RequestsInv, ReqTypeOK
  <2> QED
    BY <2>1 DEF Fading, Of
<1>10. ASSUME NEW q \in Requests
       PROVE  req'[q].pc \in {"free", "waiting"} \cup Making \cup Ending
  BY <1>1 DEF CountInv
<1>11. ASSUME NEW q \in Requests, NEW t \in Names(q)'
       PROVE  InHand(t)'
  <2>1. t \in Sessions /\ t \in {req'[q].sid, req'[q].victim} \cup req'[q].cands
    BY DEF Names
  <2>2. CASE HasRow(t) \/ \E p \in Requests : t \in Names(p)
    BY <2>1, <2>2 DEF CountInv, OneLife, Lives
  <2>3. CASE Of(t) = {}
    BY <1>2, <2>1, <2>3 DEF InHand
  <2>4. CASE q # r
    <3>1. t \in Names(q)
      BY <1>1, <2>1, <2>4 DEF Names
    <3> QED
      BY <2>2, <3>1
  <2>5. CASE q = r
    <3>1. t = x.sid \/ t \in x.cands \cup {x.victim}
      BY <1>1, <2>1, <2>5
    <3>2. t # None
      BY <2>1, NoneAssumption
    <3>3. HasRow(t) \/ Of(t) = {} \/ t \in {req[r].sid, req[r].victim} \cup req[r].cands
      BY <3>1, <3>2
    <3> QED
      BY <2>1, <2>2, <2>3, <3>3 DEF Names
  <2> QED
    BY <2>4, <2>5
<1> QED
  BY <1>1, <1>6, <1>7, <1>8, <1>9, <1>10, <1>11 DEF CountInv, Of, Lives

\* A handler may be answered; no row and no tracked container comes or goes.
LEMMA CountStay ==
  ASSUME TypeInv, CountInv, Fading, containers' = containers,
         \A q \in Requests : req'[q] = req[q] \/ (req[q].pc = "waiting" /\ req'[q] = Free),
         \A s \in Sessions : /\ HasRow(s)' <=> HasRow(s)
                             /\ \A c \in Of(s) : life'[c] = "live" => status'[s] \notin Terminal
  PROVE  CountInv'
<1>1. Free.pc = "free" /\ Free.sid = None /\ Free.victim = None /\ Free.cands = {}
  BY DEF Free
<1>2. ASSUME NEW q \in Requests, req'[q].pc # "free"
      PROVE  req'[q] = req[q]
  BY <1>1, <1>2
<1>3. ASSUME NEW q \in Requests, req'[q].pc \in Making
      PROVE  MakingAlone(q)'
  <2>1. req'[q] = req[q] /\ MakingAlone(q)
    BY <1>2, <1>3 DEF CountInv, Making
  <2>2. PICK s \in Sessions : s = req[q].sid
    BY <1>3, <2>1 DEF TypeInv, RequestsInv, Making
  <2>3. /\ ~HasRow(s) /\ containers[s] = None
        /\ \A p \in Requests : p # q => /\ req[p].sid # s
                                        /\ req[p].victim # s /\ s \notin req[p].cands
    BY <2>1, <2>2 DEF MakingAlone
  <2>4. ~HasRow(s)' /\ containers'[s] = None
    BY <2>3
  <2>5. \A p \in Requests : p # q => /\ req'[p].sid # s
                                     /\ req'[p].victim # s /\ s \notin req'[p].cands
    BY <1>1, <2>2, <2>3, NoneAssumption
  <2> QED
    BY <2>1, <2>2, <2>4, <2>5, AloneStays
<1>4. ASSUME NEW q \in Requests, req'[q].pc \in Ending
      PROVE  KillReaches(q)'
  BY <1>2, <1>4, ReachStays DEF CountInv, Ending
<1>5. ASSUME NEW s \in Sessions
      PROVE  Lives(s)
  BY LifeStays DEF CountInv, At
<1>6. \A c \in Containers : life'[c] = "unused" => owner'[c] = None
  BY DEF Fading, CountInv
<1>7. ASSUME NEW q \in Requests
      PROVE  /\ req'[q].pc \in {"free", "waiting"} \cup Making \cup Ending
             /\ \A v \in req'[q].cands : {c \in Containers : owner'[c] = v} # {}
             /\ req'[q].victim # None => {c \in Containers : owner'[c] = req'[q].victim} # {}
  BY <1>1 DEF Fading, Of, CountInv
<1>8. ASSUME NEW q \in Requests, NEW t \in Names(q)'
      PROVE  InHand(t)'
  <2>1. t \in Sessions /\ t \in Names(q)
    BY <1>1, <1>8, NoneAssumption DEF Names
  <2> QED
    BY <1>5, <2>1 DEF CountInv, Lives
<1> QED
  BY <1>3, <1>4, <1>5, <1>6, <1>7, <1>8 DEF CountInv, Of, Lives

\* The kill of a request ends: the runner of its target is gone.
LEMMA CountKill ==
  ASSUME TypeInv, CountInv, Counted, NEW r \in Requests, NEW t \in Sessions, t = Target(r),
         req[r].pc \in Ending, KillEnds(r, t), HasRow(t)' => HasRow(t),
         \A s \in Sessions \ {t} : status'[s] = status[s],
         \A q \in Requests : At(q, "spawning") => req'[q] = req[q]
  PROVE  /\ Fading /\ \A c \in Of(t) : life'[c] # "live"
         /\ \A s \in Sessions \ {t} : containers'[s] = containers[s]
         /\ containers'[t] \in {containers[t], None}
         /\ \A s \in Sessions : Lives(s)
<1>1. /\ FinishKill(t, req[r].held, TRUE)
      /\ req[r].held \in Of(t) \cup {None} /\ \A c \in Of(t) : life[c] = "live" => c = req[r].held
  BY DEF KillEnds, Counted, CountInv, KillReaches
<1>2. PICK h : h = req[r].held
  OBVIOUS
<1>3. /\ containers \in [Sessions -> Containers \cup {None}]
      /\ life \in [Containers -> {"unused", "live", "dead"}]
  BY DEF TypeInv, RunnersInv, DockerTypeOK
<1>4. /\ owner' = owner /\ \A s \in Sessions \ {t} : containers'[s] = containers[s]
      /\ containers'[t] \in {containers[t], None}
      /\ \A c \in Containers : life'[c] = life[c] \/ (c = h /\ life'[c] = "dead")
      /\ \A c \in Of(t) : life'[c] # "live"
  <2>1. CASE h = None
    BY <1>1, <1>2, <1>3, <2>1, NoneAssumption DEF FinishKill, Of
  <2>2. CASE h \in Of(t)
    <3>1. h # None /\ h \in Containers
      BY <2>2, NoneAssumption DEF Of
    <3> QED
      BY <1>1, <1>2, <1>3, <3>1 DEF FinishKill, Of
  <2> QED
    BY <1>1, <1>2, <2>1, <2>2
<1>5. Fading
  BY <1>4 DEF Fading
<1>6. ASSUME NEW s \in Sessions
      PROVE  Lives(s)
  <2>1. OneLife(s)
    BY DEF CountInv
  <2>2. CASE s = t
    BY <1>4, <1>5, <2>1, <2>2, LifeStays
  <2>3. CASE s # t
    <3>1. \A c \in Of(s) : life'[c] = "live" => life[c] = "live"
      BY <1>5 DEF Fading, Of
    <3>2. \A c \in Of(s) : life'[c] = "live" => status'[s] \notin Terminal /\ containers'[s] = containers[s]
      BY <1>4, <2>1, <2>3, <3>1 DEF OneLife
    <3>3. HasRow(s)' => HasRow(s)
      BY <2>3 DEF HasRow
    <3> QED
      BY <1>4, <1>5, <2>1, <2>3, <3>2, <3>3, LifeStays
  <2> QED
    BY <2>2, <2>3
<1> QED
  BY <1>4, <1>5, <1>6

\* A capacity decision: the session to be made is nobody else's.
LEMMA CountDecision ==
  ASSUME TypeInv, CountInv, NEW r \in Requests, NEW s \in Sessions, NEW cands \in SUBSET Sessions,
         NEW count, CapacityDecision(r, s, cands, count), Fading, req[r].pc \in {"free", "evicting"},
         \A t \in Sessions : t # req[r].sid /\ ~HasRow(t) /\ containers[t] = None
                               => ~HasRow(t)' /\ containers'[t] = None,
         ~HasRow(s)', containers'[s] = None, Of(s) = {},
         \A q \in Requests \ {r} : req[q].sid # s /\ req[q].victim # s /\ s \notin req[q].cands,
         s = req[r].sid \/ \A q \in Requests : req[q].sid # s,
         \A v \in cands : HasRow(v) \/ v \in req[r].cands,
         \A t \in Sessions : Lives(t)
  PROVE  CountInv'
<1>1. Of(s)' = {}
  BY DEF Of, Fading
<1>2. \A v \in cands : Of(v) # {} /\ v # s
  BY DEF CountInv, OneLife
<1>3. ~At(r, "spawning")
  BY DEF At
<1>4. CASE Goto(r, "admitted", s, None, None)
  <2>1. PICK x : x = [Free EXCEPT !.pc = "admitted", !.sid = s, !.held = None, !.token = None]
    OBVIOUS
  <2>2. /\ req' = [req EXCEPT ![r] = x]
        /\ x.pc = "admitted" /\ x.sid = s /\ x.victim = None /\ x.cands = {}
    BY <1>4, <2>1 DEF Goto, Free
  <2>3. req'[r] = x /\ \A q \in Requests \ {r} : req'[q] = req[q]
    BY <2>2 DEF TypeInv, RequestsInv, ReqTypeOK
  <2>4. MakingAlone(r)'
    BY <1>1, <2>2, <2>3, NoneAssumption DEF MakingAlone, At, HasRow
  <2> QED
    BY <2>2, <2>4, CountMove DEF Making, Ending
<1>5. CASE Finish(r)
  <2>1. req' = [req EXCEPT ![r] = Free]
    BY <1>5 DEF Finish
  <2>2. Free.pc = "free" /\ Free.sid = None /\ Free.victim = None /\ Free.cands = {}
    BY DEF Free
  <2> QED
    BY <2>1, <2>2, CountMove DEF Making, Ending
<1>6. ASSUME NEW v \in cands,
             req' = [req EXCEPT ![r] = [Free EXCEPT !.pc = "evicting", !.sid = s, !.victim = v,
                                          !.held = containers[v], !.cands = cands \ {v}]]
      PROVE  CountInv'
  <2>1. PICK x : x = [Free EXCEPT !.pc = "evicting", !.sid = s, !.victim = v,
                                  !.held = containers[v], !.cands = cands \ {v}]
    OBVIOUS
  <2>2. /\ req' = [req EXCEPT ![r] = x] /\ x.held = containers[v]
        /\ x.pc = "evicting" /\ x.sid = s /\ x.victim = v /\ x.cands = cands \ {v}
    BY <1>6, <2>1 DEF Free
  <2>3. req'[r] = x /\ \A q \in Requests \ {r} : req'[q] = req[q]
    BY <2>2 DEF TypeInv, RequestsInv, ReqTypeOK
  <2>4. MakingAlone(r)'
    <3>1. req'[r].victim # s /\ s \notin req'[r].cands
      BY <1>2, <2>2, <2>3
    <3> QED
      BY <1>1, <2>2, <2>3, <3>1 DEF MakingAlone, At, HasRow
  <2>5. KillReaches(r)'
    <3>1. /\ \A c \in Of(v) : life[c] = "live" => c = containers[v]
          /\ containers[v] \in Of(v) \cup {None}
      BY <1>3, TrackedAlone
    <3>2. Of(v)' = Of(v) /\ \A c \in Of(v) : life'[c] = "live" => life[c] = "live"
      BY DEF Of, Fading
    <3>3. PICK h : h = containers[v]
      OBVIOUS
    <3>4. Target(r)' = v /\ req'[r].held = h
      BY <2>2, <2>3, <3>3 DEF Target, At
    <3> QED
      BY <3>1, <3>2, <3>3, <3>4 DEF KillReaches
  <2>6. \A w \in x.cands \cup {x.victim} : w \in cands
    BY <2>2
  <2> QED
    BY <2>2, <2>4, <2>5, <2>6, NoneAssumption, CountMove DEF Making, Ending
<1> QED
  BY <1>4, <1>5, <1>6 DEF CapacityDecision

LEMMA CreateBeginCount ==
  ASSUME TypeInv, CountInv, NEW r \in Requests, NEW s \in Sessions, CreateBegin(r, s)
  PROVE  CountInv'
<1>1. /\ At(r, "free") /\ ~HasRow(s) /\ Quiet(s) /\ \A c \in Containers : owner[c] # s
      /\ CapacityDecision(r, s, Evictable, ActiveCount) /\ UNCHANGED lifeVars
  BY DEF CreateBegin, Fresh
<1>2. /\ Fading /\ containers' = containers /\ \A t \in Sessions : HasRow(t)' <=> HasRow(t)
      /\ status' = status
  BY <1>1 DEF Fading, lifeVars, dockerVars, storeVars, HasRow
<1>3. Of(s) = {} /\ containers[s] = None
  BY <1>1 DEF Of, CountInv, OneLife
<1>4. \A q \in Requests : req[q].sid # s /\ req[q].victim # s /\ s \notin req[q].cands
  BY <1>1, <1>3 DEF Quiet, CountInv
<1>5. ASSUME NEW t \in Sessions
      PROVE  Lives(t)
  <2>1. OneLife(t)
    BY DEF CountInv
  <2>2. \A q \in Requests : At(q, "spawning") => req'[q] = req[q]
    <3>1. \A q \in Requests \ {r} : req'[q] = req[q]
      BY <1>1 DEF CapacityDecision, Goto, Finish, TypeInv, RequestsInv, ReqTypeOK
    <3> QED
      BY <1>1, <3>1 DEF At
  <2>3. \A c \in Of(t) : life'[c] = "live" => status'[t] \notin Terminal
    BY <1>1, <1>2, <2>1 DEF OneLife, lifeVars, dockerVars
  <2> QED
    BY <1>2, <2>1, <2>2, <2>3, LifeStays
<1>6. \A v \in Evictable : HasRow(v)
  BY DEF Evictable, HasRow
<1>7. Evictable \in SUBSET Sessions
  BY DEF Evictable
<1> QED
  BY <1>1, <1>2, <1>3, <1>4, <1>5, <1>6, <1>7, CountDecision DEF At

LEMMA EvictEndCount ==
  ASSUME TypeInv, CountInv, Counted, NEW r \in Requests, EvictEnd(r)
  PROVE  CountInv'
<1>1. PICK v : v = req[r].victim
  OBVIOUS
<1>2. PICK s \in Sessions : s = req[r].sid
  BY DEF EvictEnd, At, TypeInv, RequestsInv
<1>3. PICK cands : cands = req[r].cands
  OBVIOUS
<1>4. PICK count : count = ActiveCount'
  OBVIOUS
<1>5. /\ At(r, "evicting") /\ KillEnds(r, v) /\ UpdateStatus(v, "stopped")
      /\ CapacityDecision(r, s, cands, count)
  BY <1>1, <1>2, <1>3, <1>4 DEF EvictEnd
<1>6. MakingAlone(r) /\ KillReaches(r) /\ req[r].pc \in Ending
  BY <1>5 DEF CountInv, At, Making, Ending
<1>7. v = Target(r) /\ v \in Sessions
  BY <1>1, <1>5, <1>6 DEF Target, KillReaches
<1>8. /\ Of(s) = {} /\ ~HasRow(s) /\ containers[s] = None
      /\ \A q \in Requests \ {r} : req[q].sid # s /\ req[q].victim # s /\ s \notin req[q].cands
  BY <1>2, <1>5, <1>6 DEF MakingAlone, At
<1>9. v # s
  BY <1>1, <1>7, <1>8, NoneAssumption DEF CountInv
<1>10. /\ \A t \in Sessions \ {v} : status'[t] = status[t]
       /\ \A t \in Sessions : HasRow(t)' <=> HasRow(t)
  BY <1>5, <1>7, StatusMoves DEF RowsApart, HasRow
<1>11. \A q \in Requests : At(q, "spawning") => req'[q] = req[q]
  <2>1. \A q \in Requests \ {r} : req'[q] = req[q]
    BY <1>5 DEF CapacityDecision, Goto, Finish, TypeInv, RequestsInv, ReqTypeOK
  <2> QED
    BY <1>5, <2>1 DEF At
<1>12. /\ Fading /\ \A t \in Sessions \ {v} : containers'[t] = containers[t]
       /\ containers'[v] \in {containers[v], None} /\ \A t \in Sessions : Lives(t)
  BY <1>5, <1>6, <1>7, <1>10, <1>11, CountKill
<1>13. /\ ~HasRow(s)' /\ containers'[s] = None
       /\ \A t \in Sessions : ~HasRow(t) /\ containers[t] = None => ~HasRow(t)' /\ containers'[t] = None
  BY <1>8, <1>9, <1>10, <1>12
<1>14. cands \in SUBSET Sessions
  BY <1>3 DEF TypeInv, RequestsInv, ReqTypeOK
<1>15. req[r].pc \in {"free", "evicting"}
  BY <1>5 DEF At
<1> QED
  BY <1>2, <1>3, <1>5, <1>8, <1>12, <1>13, <1>14, <1>15, CountDecision

\* The handler of r goes on at a step where it kills nothing it does not own.
LEMMA CountGoto ==
  ASSUME TypeInv, CountInv, NEW r \in Requests, NEW s \in Sessions, NEW step, NEW held, NEW token,
         Goto(r, step, s, held, token), Fading,
         \A t \in Sessions : t # req[r].sid /\ ~HasRow(t) /\ containers[t] = None
                               => ~HasRow(t)' /\ containers'[t] = None,
         s = req[r].sid \/ HasRow(s), step \in {"waiting", "undoing", "stopping", "deleting"},
         step # "waiting" => /\ held \in Of(s) \cup {None}
                             /\ \A c \in Of(s) : life[c] = "live" => c = held,
         \A t \in Sessions : Lives(t)
  PROVE  CountInv'
<1>1. PICK x : x = [Free EXCEPT !.pc = step, !.sid = s, !.held = held, !.token = token]
  OBVIOUS
<1>2. /\ req' = [req EXCEPT ![r] = x] /\ x.held = held
      /\ x.pc = step /\ x.sid = s /\ x.victim = None /\ x.cands = {}
  BY <1>1 DEF Goto, Free
<1>3. req'[r] = x
  BY <1>2 DEF TypeInv, RequestsInv, ReqTypeOK
<1>4. x.pc \in Ending => KillReaches(r)'
  <2>1. Of(s)' = Of(s) /\ \A c \in Of(s) : life'[c] = "live" => life[c] = "live"
    BY DEF Of, Fading
  <2>2. Target(r)' = s /\ req'[r].held = held
    BY <1>2, <1>3 DEF Target, At
  <2> QED
    BY <1>2, <2>1, <2>2 DEF KillReaches, Ending
<1> QED
  BY <1>2, <1>4, CountMove DEF Making, Ending

LEMMA CountFinish ==
  ASSUME TypeInv, CountInv, NEW r \in Requests, Finish(r), Fading,
         \A t \in Sessions : t # req[r].sid /\ ~HasRow(t) /\ containers[t] = None
                               => ~HasRow(t)' /\ containers'[t] = None,
         \A t \in Sessions : Lives(t)
  PROVE  CountInv'
<1>1. req' = [req EXCEPT ![r] = Free]
  BY DEF Finish
<1>2. Free.pc = "free" /\ Free.sid = None /\ Free.victim = None /\ Free.cands = {}
  BY DEF Free
<1> QED
  BY <1>1, <1>2, CountMove DEF Making, Ending

LEMMA AssignTokenCount ==
  ASSUME TypeInv, CountInv, NEW r \in Requests, AssignToken(r)
  PROVE  CountInv'
<1>1. PICK s \in Sessions : s = req[r].sid
  BY DEF AssignToken, At, TypeInv, RequestsInv
<1>2. PICK x : x = [Free EXCEPT !.pc = "spawning", !.sid = s, !.held = None, !.token = nextIndex]
  OBVIOUS
<1>3. /\ At(r, "admitted") /\ req' = [req EXCEPT ![r] = x]
      /\ status' = status /\ containers' = containers /\ owner' = owner /\ life' = life
      /\ x.pc = "spawning" /\ x.sid = s /\ x.held = None /\ x.victim = None /\ x.cands = {}
  BY <1>1, <1>2 DEF AssignToken, Goto, Free, storeVars, dockerVars
<1>4. req'[r] = x /\ \A q \in Requests \ {r} : req'[q] = req[q]
  BY <1>3 DEF TypeInv, RequestsInv, ReqTypeOK
<1>5. Fading /\ Of(s)' = Of(s)
  BY <1>3 DEF Fading, Of
<1>6. MakingAlone(r)
  BY <1>3 DEF CountInv, At, Making
<1>7. Of(s) = {} /\ ~HasRow(s) /\ containers[s] = None
      /\ \A q \in Requests : q # r => /\ req[q].sid # s
                                      /\ req[q].victim # s /\ s \notin req[q].cands
  BY <1>1, <1>3, <1>6 DEF MakingAlone, At
<1>8. MakingAlone(r)'
  BY <1>3, <1>4, <1>5, <1>7, NoneAssumption DEF MakingAlone, At, HasRow
<1>9. ASSUME NEW t \in Sessions
      PROVE  Lives(t)
  <2>1. OneLife(t)
    BY DEF CountInv
  <2>2. \A q \in Requests : At(q, "spawning") => req'[q] = req[q]
    BY <1>3, <1>4 DEF At
  <2> QED
    BY <1>3, <1>5, <2>1, <2>2, LifeStays DEF HasRow, OneLife
<1>10. \A t \in Sessions : HasRow(t)' <=> HasRow(t)
  BY <1>3 DEF HasRow
<1> QED
  BY <1>1, <1>3, <1>5, <1>8, <1>9, <1>10, CountMove DEF Making, Ending

\* spawn() returned: the container it started is the only one of the session.
LEMMA SpawnedCount ==
  ASSUME TypeInv, CountInv, NEW r \in Requests, NEW s \in Sessions, s = req[r].sid, At(r, "spawning"),
         req[r].held # None, Track(s, req[r].held), NEW h, h = req[r].held,
         \A t \in Sessions \ {s} : status'[t] = status[t], status'[s] \notin Terminal,
         \A q \in Requests \ {r} : req'[q] = req[q]
  PROVE  /\ Fading /\ \A t \in Sessions \ {s} : HasRow(t)' = HasRow(t) /\ containers'[t] = containers[t]
         /\ h \in Of(s) /\ \A c \in Of(s) : life[c] = "live" => c = h
         /\ \A t \in Sessions : Lives(t)
<1>1. MakingAlone(r)
  BY DEF CountInv, At, Making
<1>2. h \in Of(s)
  BY <1>1 DEF MakingAlone
<1>3. /\ owner' = owner /\ life' = life /\ containers'[s] = h
      /\ \A t \in Sessions \ {s} : containers'[t] = containers[t]
  BY DEF Track, TypeInv, RunnersInv, DockerTypeOK
<1>4. Fading /\ \A t \in Sessions : Of(t)' = Of(t)
  BY <1>3 DEF Fading, Of
<1>5. OneLife(s) /\ \A c \in Of(s) : c = h
  BY <1>2 DEF CountInv, OneLife
<1>6. InHand(s)'
  BY <1>3, <1>4, <1>5 DEF InHand
<1>7. Lives(s)
  BY <1>2, <1>3, <1>4, <1>5, <1>6 DEF OneLife, Lives
<1>8. ASSUME NEW t \in Sessions, t # s
      PROVE  Lives(t)
  <2>1. OneLife(t)
    BY DEF CountInv
  <2>2. \A q \in Requests : At(q, "spawning") /\ req[q].sid = t => req'[q] = req[q]
    BY <1>8
  <2> QED
    BY <1>3, <1>4, <1>8, <2>1, <2>2, LifeStays DEF HasRow, OneLife
<1> QED
  BY <1>2, <1>3, <1>4, <1>5, <1>7, <1>8 DEF HasRow

LEMMA SpawnEndsCount ==
  ASSUME TypeInv, CountInv, NEW r \in Requests, SpawnReturns(r) \/ RowRefused(r)
  PROVE  CountInv'
<1>1. PICK s \in Sessions : s = req[r].sid
  BY DEF SpawnReturns, RowRefused, At, TypeInv, RequestsInv
<1>2. PICK h : h = req[r].held
  OBVIOUS
<1>3. /\ At(r, "spawning") /\ req[r].held # None /\ Track(s, req[r].held)
      /\ \/ /\ Goto(r, "waiting", s, None, None)
            /\ \E k, pin : CreateRow(s, h, k, pin)
         \/ Goto(r, "undoing", s, h, None) /\ UNCHANGED storeVars
  BY <1>1, <1>2 DEF SpawnReturns, RowRefused
<1>4. /\ \A t \in Sessions \ {s} : status'[t] = status[t]
      /\ status'[s] \notin Terminal
  <2>1. ~HasRow(s)
    BY <1>1, <1>3 DEF CountInv, At, Making, MakingAlone
  <2> QED
    BY <1>3, <2>1 DEF CreateRow, TypeInv, StoreTypeOK, storeVars, Terminal, HasRow
<1>5. \A q \in Requests \ {r} : req'[q] = req[q]
  BY <1>3 DEF Goto, TypeInv, RequestsInv, ReqTypeOK
<1>6. /\ Fading /\ \A t \in Sessions \ {s} : HasRow(t)' = HasRow(t) /\ containers'[t] = containers[t]
      /\ h \in Of(s) /\ \A c \in Of(s) : life[c] = "live" => c = h
      /\ \A t \in Sessions : Lives(t)
  BY <1>1, <1>2, <1>3, <1>4, <1>5, SpawnedCount
<1>7. CASE Goto(r, "waiting", s, None, None)
  BY <1>1, <1>6, <1>7, CountGoto
<1>8. CASE Goto(r, "undoing", s, h, None)
  BY <1>1, <1>6, <1>8, CountGoto
<1> QED
  BY <1>3, <1>7, <1>8

LEMMA SpawnThrowsCount ==
  ASSUME TypeInv, CountInv, NEW r \in Requests, SpawnThrows(r)
  PROVE  CountInv'
<1>1. PICK s \in Sessions : s = req[r].sid
  BY DEF SpawnThrows, At, TypeInv, RequestsInv
<1>2. PICK h : h = containers[s]
  OBVIOUS
<1>3. /\ At(r, "spawning") /\ req[r].held = None /\ Goto(r, "undoing", s, h, None)
      /\ status' = status /\ containers' = containers /\ owner' = owner /\ life' = life
  BY <1>1, <1>2 DEF SpawnThrows, storeVars, dockerVars
<1>4. Of(s) = {} /\ h = None
  BY <1>1, <1>2, <1>3 DEF CountInv, At, Making, MakingAlone
<1>5. Fading /\ \A t \in Sessions : HasRow(t)' <=> HasRow(t)
  BY <1>3 DEF Fading, HasRow
<1>6. ASSUME NEW t \in Sessions
      PROVE  Lives(t)
  <2>1. OneLife(t)
    BY DEF CountInv
  <2>2. CASE t = s
    BY <1>3, <1>4, <2>1, <2>2 DEF OneLife, Of, HasRow, InHand, Lives
  <2>3. CASE t # s
    <3>1. \A q \in Requests : At(q, "spawning") /\ req[q].sid = t => req'[q] = req[q]
      BY <1>1, <1>3, <2>3 DEF Goto, TypeInv, RequestsInv, ReqTypeOK
    <3> QED
      BY <1>3, <1>5, <2>1, <3>1, LifeStays DEF OneLife
  <2> QED
    BY <2>2, <2>3
<1> QED
  BY <1>1, <1>3, <1>4, <1>5, <1>6, CountGoto

LEMMA KillersCount ==
  ASSUME TypeInv, CountInv, Counted, NEW r \in Requests, UndoEnd(r) \/ StopEnd(r) \/ DeleteEnd(r)
  PROVE  CountInv'
<1>1. PICK s \in Sessions : s = req[r].sid
  BY DEF UndoEnd, StopEnd, DeleteEnd, At, TypeInv, RequestsInv
<1>2. /\ req[r].pc \in {"undoing", "stopping", "deleting"} /\ KillEnds(r, s) /\ Finish(r)
      /\ RemoveRow(s) \/ UNCHANGED storeVars \/ UpdateStatus(s, "stopped")
  BY <1>1 DEF UndoEnd, StopEnd, DeleteEnd, At
<1>3. s = Target(r) /\ req[r].pc \in Ending /\ ~At(r, "spawning")
  BY <1>1, <1>2 DEF Target, At, Ending
<1>4. /\ \A t \in Sessions \ {s} : status'[t] = status[t]
      /\ HasRow(s)' => HasRow(s)
  BY <1>2, StatusMoves, RowGoes DEF RowsApart, HasRow, storeVars
<1>5. \A q \in Requests : At(q, "spawning") => req'[q] = req[q]
  BY <1>2, <1>3 DEF Finish, TypeInv, RequestsInv, ReqTypeOK
<1>6. /\ Fading /\ \A t \in Sessions \ {s} : containers'[t] = containers[t]
      /\ \A t \in Sessions : Lives(t)
  BY <1>2, <1>3, <1>4, <1>5, CountKill
<1>7. \A t \in Sessions \ {s} : HasRow(t)' <=> HasRow(t)
  BY <1>4 DEF HasRow
<1> QED
  BY <1>1, <1>2, <1>6, <1>7, CountFinish

\* A wait is rejected, or a stop or a delete begins: the kill that is to follow
\* names the container of the session.
LEMMA KillBeginsCount ==
  ASSUME TypeInv, CountInv, NEW r \in Requests,
         WaitTimesOut(r) \/ \E s \in Sessions : StopBegin(r, s) \/ DeleteBegin(r, s)
  PROVE  CountInv'
<1>1. /\ UNCHANGED lifeVars /\ req[r].pc \in {"free", "waiting"}
      /\ \A q \in Requests \ {r} : req'[q] = req[q]
  BY DEF WaitTimesOut, StopBegin, DeleteBegin, MayBegin, At, Goto, Waiting, CountInv, Making, Ending,
         TypeInv, RequestsInv, ReqTypeOK
<1>2. /\ Fading /\ containers' = containers /\ status' = status
      /\ \A t \in Sessions : HasRow(t)' <=> HasRow(t)
  BY <1>1 DEF lifeVars, dockerVars, storeVars, Fading, HasRow
<1>3. ~At(r, "spawning")
  BY <1>1 DEF At
<1>4. ASSUME NEW t \in Sessions
      PROVE  Lives(t)
  <2>1. OneLife(t)
    BY DEF CountInv
  <2>2. \A q \in Requests : At(q, "spawning") => req'[q] = req[q]
    BY <1>1, <1>3
  <2>3. \A c \in Of(t) : life'[c] = "live" => status'[t] \notin Terminal
    BY <1>1, <1>2, <2>1 DEF OneLife, lifeVars, dockerVars
  <2> QED
    BY <1>2, <2>1, <2>2, <2>3, LifeStays
<1>5. CASE WaitTimesOut(r)
  <2>1. PICK s \in Sessions : s = req[r].sid
    BY <1>5 DEF WaitTimesOut, Waiting, TypeInv, RequestsInv
  <2>2. PICK x : x = Rejected(r)
    OBVIOUS
  <2>3. req[r].pc = "waiting"
    BY <1>1, <1>5 DEF WaitTimesOut, Waiting
  <2>4. /\ req' = [req EXCEPT ![r] = x] /\ x.pc = "undoing" /\ x.sid = s /\ x.held = containers[s]
        /\ x.victim = req[r].victim /\ x.cands = req[r].cands
    BY <1>5, <2>1, <2>2, <2>3 DEF WaitTimesOut, Rejected, TypeInv, RequestsInv, ReqTypeOK
  <2>5. req'[r] = x
    BY <2>4 DEF TypeInv, RequestsInv, ReqTypeOK
  <2>6. /\ \A c \in Of(s) : life[c] = "live" => c = containers[s]
        /\ containers[s] \in Of(s) \cup {None}
    BY <1>3, <2>1, TrackedAlone
  <2>7. KillReaches(r)'
    <3>1. PICK h : h = containers[s]
      OBVIOUS
    <3>2. Target(r)' = s /\ req'[r].held = h
      BY <2>4, <2>5, <3>1 DEF Target, At
    <3>3. Of(s)' = Of(s) /\ \A c \in Of(s) : life'[c] = "live" => life[c] = "live"
      BY <1>2 DEF Of, Fading
    <3> QED
      BY <2>6, <3>1, <3>2, <3>3 DEF KillReaches
  <2>8. /\ None \notin x.cands /\ x.cands \cup {x.victim} \subseteq Sessions \cup {None}
        /\ \A v \in x.cands \cup {x.victim} : v \in req[r].cands \cup {req[r].victim}
    BY <2>4, NoneAssumption DEF TypeInv, RequestsInv, ReqTypeOK
  <2> QED
    BY <1>2, <1>4, <2>1, <2>4, <2>7, <2>8, CountMove DEF Making, Ending
<1>6. ASSUME NEW s \in Sessions, StopBegin(r, s) \/ DeleteBegin(r, s)
      PROVE  CountInv'
  <2>1. PICK h : h = containers[s]
    OBVIOUS
  <2>2. HasRow(s) /\ \E step \in {"stopping", "deleting"} : Goto(r, step, s, h, None)
    BY <1>6, <2>1 DEF StopBegin, DeleteBegin, HasRow, Active, NonTerminal
  <2>3. /\ \A c \in Of(s) : life[c] = "live" => c = h
        /\ h \in Of(s) \cup {None}
    BY <1>3, <2>1, <2>2, TrackedAlone
  <2> QED
    BY <1>2, <1>4, <2>2, <2>3, CountGoto
<1> QED
  BY <1>5, <1>6

LEMMA ContainerStartsCount ==
  ASSUME TypeInv, CountInv, NEW r \in Requests, NEW c \in Containers, ContainerStarts(r, c)
  PROVE  CountInv'
<1>1. At(r, "spawning")
  BY DEF ContainerStarts, At, CountInv, Making, Ending
<1>2. PICK s \in Sessions : s = req[r].sid
  BY <1>1 DEF At, TypeInv, RequestsInv
<1>3. PICK x : x = [req[r] EXCEPT !.held = c]
  OBVIOUS
<1>4. /\ req[r].held = None /\ EngineStarts(s, c) /\ req' = [req EXCEPT ![r] = x]
      /\ status' = status /\ containers' = containers
      /\ x.pc = "spawning" /\ x.sid = s /\ x.held = c
      /\ x.victim = req[r].victim /\ x.cands = req[r].cands
  BY <1>1, <1>2, <1>3 DEF ContainerStarts, EngineStarts, storeVars, At, TypeInv, RequestsInv, ReqTypeOK
<1>5. req'[r] = x /\ \A q \in Requests \ {r} : req'[q] = req[q]
  BY <1>4 DEF TypeInv, RequestsInv, ReqTypeOK
<1>6. /\ owner[c] = None /\ life'[c] = "live" /\ owner'[c] = s
      /\ \A d \in Containers \ {c} : life'[d] = life[d] /\ owner'[d] = owner[d]
  BY <1>4 DEF EngineStarts, CountInv, TypeInv, RunnersInv, DockerTypeOK
<1>7. /\ Of(s) = {} /\ ~HasRow(s) /\ containers[s] = None
      /\ \A q \in Requests : /\ q # r => req[q].sid # s
                             /\ req[q].victim # s /\ s \notin req[q].cands
  BY <1>1, <1>2, <1>4 DEF CountInv, Making, MakingAlone, At
<1>8. Of(s)' = {c} /\ \A t \in Sessions \ {s} : Of(t)' = Of(t) /\ c \notin Of(t)
  BY <1>6, <1>7, NoneAssumption DEF Of
<1>9. \A t \in Sessions \ {s} : \A d \in Of(t) : life'[d] = life[d]
  BY <1>6, <1>8 DEF Of
<1>10. \A q \in Requests : /\ req'[q].pc = req[q].pc /\ req'[q].sid = req[q].sid
                           /\ req'[q].victim = req[q].victim /\ req'[q].cands = req[q].cands
  BY <1>1, <1>2, <1>4, <1>5 DEF At
<1>11. ASSUME NEW q \in Requests, req'[q].pc \in Making
       PROVE  MakingAlone(q)'
  <2>1. PICK t \in Sessions : t = req[q].sid
    BY <1>10, <1>11 DEF TypeInv, RequestsInv, Making
  <2>2. MakingAlone(q)
    BY <1>10, <1>11 DEF CountInv
  <2>3. CASE q = r
    BY <1>2, <1>4, <1>5, <1>7, <1>8, <1>10, <2>3, NoneAssumption DEF MakingAlone, At, HasRow
  <2>4. CASE q # r
    <3>1. t # s /\ req'[q] = req[q]
      BY <1>5, <1>7, <2>1, <2>4
    <3> QED
      BY <1>4, <1>8, <1>10, <2>1, <2>2, <3>1 DEF MakingAlone, At, HasRow
  <2> QED
    BY <2>3, <2>4
<1>12. ASSUME NEW q \in Requests, req'[q].pc \in Ending
       PROVE  KillReaches(q)'
  <2>1. q # r /\ KillReaches(q) /\ req'[q] = req[q]
    BY <1>1, <1>4, <1>5, <1>12 DEF CountInv, At, Ending
  <2>2. PICK t \in Sessions : t = Target(q)
    BY <2>1 DEF KillReaches
  <2>3. Target(q)' = t /\ t # s
    BY <1>7, <2>1, <2>2 DEF Target, At
  <2> QED
    BY <1>8, <1>9, <2>1, <2>2, <2>3 DEF KillReaches
<1>13. ASSUME NEW t \in Sessions
       PROVE  Lives(t)
  <2>1. OneLife(t)
    BY DEF CountInv
  <2>2. At(r, "spawning")'
    BY <1>4, <1>5 DEF At
  <2>3. CASE t = s
    BY <1>4, <1>5, <1>7, <1>8, <2>2, <2>3 DEF OneLife, HasRow, Terminal, InHand, Lives
  <2>4. CASE t # s
    <3>1. \A q \in Requests : At(q, "spawning") => At(q, "spawning")'
      BY <1>10 DEF At
    <3> QED
      BY <1>4, <1>8, <1>9, <1>10, <2>1, <2>4, <3>1 DEF OneLife, HasRow, InHand, Lives
  <2> QED
    BY <2>3, <2>4
<1>14. \A d \in Containers : life'[d] = "unused" => owner'[d] = None
  BY <1>6 DEF CountInv
<1>15. ASSUME NEW q \in Requests
       PROVE  /\ req'[q].pc \in {"free", "waiting"} \cup Making \cup Ending
              /\ \A v \in req'[q].cands : {d \in Containers : owner'[d] = v} # {}
              /\ req'[q].victim # None => {d \in Containers : owner'[d] = req'[q].victim} # {}
  <2>1. \A v \in Sessions : Of(v) # {} => {d \in Containers : owner'[d] = v} # {}
    BY <1>8 DEF Of
  <2> QED
    BY <1>10, <2>1 DEF CountInv, TypeInv, RequestsInv, ReqTypeOK
<1>16. ASSUME NEW q \in Requests, NEW t \in Names(q)'
       PROVE  InHand(t)'
  <2>1. t \in Sessions /\ t \in Names(q)
    BY <1>10 DEF Names
  <2> QED
    BY <1>13, <2>1 DEF CountInv, Lives
<1> QED
  BY <1>11, <1>12, <1>13, <1>14, <1>15, <1>16 DEF CountInv, Of, Lives

\* What a runner says, and its end.
LEMMA RunnersCount ==
  ASSUME TypeInv, CountInv, Counted, NEW c \in Containers, RunnerActs(c)
  PROVE  CountInv'
<1>1. life \in [Containers -> {"unused", "live", "dead"}]
  BY DEF TypeInv, RunnersInv, DockerTypeOK
<1>2. \A s \in Sessions : \A d \in Of(s) : life[d] = "live" => status[s] \notin Terminal
  BY DEF CountInv, OneLife
<1>3. CASE UNCHANGED dockerVars /\ UNCHANGED status /\ req' = req
  <2>1. Fading /\ containers' = containers /\ \A s \in Sessions : HasRow(s)' <=> HasRow(s)
    BY <1>3 DEF Fading, dockerVars, HasRow
  <2> QED
    BY <1>2, <1>3, <2>1, CountStay DEF dockerVars
<1>4. CASE RunnerExits(c)
  <2>1. /\ containers' = containers /\ status' = status /\ req' = req /\ owner' = owner
        /\ \A d \in Containers : life'[d] = life[d] \/ (life'[d] = "dead" /\ life[d] = "live")
    BY <1>1, <1>4 DEF RunnerExits, storeVars
  <2>2. Fading /\ \A s \in Sessions : HasRow(s)' <=> HasRow(s)
    BY <2>1 DEF Fading, HasRow
  <2>3. \A s \in Sessions : \A d \in Of(s) : life'[d] = "live" => status'[s] \notin Terminal
    BY <1>2, <2>1 DEF Of
  <2> QED
    BY <2>1, <2>2, <2>3, CountStay
<1>5. CASE ReportsReady(c) \/ ReportsBusy(c)
  <2>1. life[c] = "live"
    BY <1>5 DEF ReportsReady, ReportsBusy, FirstMessage, Heard, Counted
  <2>2. PICK s \in Sessions : s = owner[c]
    BY <2>1 DEF TypeInv, RunnersInv, Started
  <2>3. /\ containers' = containers /\ owner' = owner /\ life' = life
        /\ \E st \in {"ready", "busy"} : UpdateStatus(s, st)
        /\ req' = req \/ ResolveWaiters(s)
    BY <1>5, <2>2 DEF ReportsReady, ReportsBusy, dockerVars
  <2>4. /\ \A t \in Sessions \ {s} : status'[t] = status[t]
        /\ status'[s] \notin Terminal /\ \A t \in Sessions : HasRow(t)' <=> HasRow(t)
    BY <2>3, StatusMoves DEF RowsApart, HasRow, Terminal
  <2>5. Fading
    BY <2>3 DEF Fading
  <2>6. \A t \in Sessions : \A d \in Of(t) : life'[d] = "live" => status'[t] \notin Terminal
    BY <1>2, <2>3, <2>4
  <2>7. \A q \in Requests : req'[q] = req[q] \/ (req[q].pc = "waiting" /\ req'[q] = Free)
    BY <2>3 DEF ResolveWaiters, WaitersOf, Waiting, CountInv, Making, Ending
  <2> QED
    BY <2>3, <2>4, <2>5, <2>6, <2>7, CountStay
<1>6. CASE SocketCloses(c)
  <2>1. life[c] = "dead" /\ c \in Started
    BY <1>6 DEF SocketCloses, Counted, TypeInv, RunnersInv
  <2>2. PICK s \in Sessions : s = owner[c]
    BY <2>1 DEF TypeInv, RunnersInv
  <2>3. /\ containers' = containers /\ owner' = owner /\ life' = life /\ req' = req
        /\ UpdateStatus(s, "stopped") \/ UNCHANGED storeVars
    BY <1>6, <2>2 DEF SocketCloses, dockerVars
  <2>4. /\ \A t \in Sessions \ {s} : status'[t] = status[t]
        /\ \A t \in Sessions : HasRow(t)' <=> HasRow(t)
    BY <2>3, StatusMoves DEF RowsApart, HasRow, storeVars
  <2>5. Fading
    BY <2>3 DEF Fading
  <2>6. \A d \in Of(s) : life[d] # "live"
    <3>1. c \in Of(s)
      BY <2>2 DEF Of
    <3> QED
      BY <2>1, <3>1 DEF CountInv, OneLife
  <2>7. \A t \in Sessions : \A d \in Of(t) : life'[d] = "live" => status'[t] \notin Terminal
    BY <1>2, <2>3, <2>4, <2>6
  <2> QED
    BY <2>3, <2>4, <2>5, <2>7, CountStay
<1>7. ReportsError(c) \/ ReportsSessionInit(c) => FALSE
  BY DEF ReportsError, ReportsSessionInit, Counted
<1>8. ReportsSnapshot(c) \/ SupersededCloses(c) => UNCHANGED dockerVars /\ UNCHANGED status /\ req' = req
  BY DEF ReportsSnapshot, SupersededCloses, InsertSnapshot, storeVars
<1> QED
  BY <1>3, <1>4, <1>5, <1>6, <1>7, <1>8 DEF RunnerActs
-----------------------------------------------------------------------------
LEMMA CountInit == Init => CountInv
<1> SUFFICES ASSUME Init PROVE CountInv
  OBVIOUS
<1>1. /\ \A s \in Sessions : status[s] = "absent" /\ containers[s] = None
      /\ \A c \in Containers : life[c] = "unused" /\ owner[c] = None
      /\ \A r \in Requests : req[r] = Free
  BY DEF Init, StoreInit, DockerInit
<1>2. Free.pc = "free" /\ Free.victim = None /\ Free.cands = {}
  BY DEF Free
<1>3. \A s \in Sessions : Of(s) = {}
  BY <1>1, NoneAssumption DEF Of
<1> QED
  BY <1>1, <1>2, <1>3 DEF CountInv, OneLife, HasRow, Making, Ending, InHand, Names

\* A new process finds the container of every row; what was being spawned when
\* the old one died is never named again.
LEMMA RestartCount ==
  ASSUME TypeInv, RowsInv, RowsOwned, CountInv, Restart
  PROVE  CountInv' /\ \A s \in Sessions : status'[s] \in NonTerminal => s \in Active
<1>1. /\ \A r \in Requests : req'[r] = Free
      /\ owner' = owner /\ life' = life
      /\ \A s \in Sessions :
           containers'[s] = IF rowContainer[s] # None /\ life[rowContainer[s]] = "live"
                              THEN rowContainer[s] ELSE None
      /\ \A s \in Sessions : status'[s] = Reconciled(s)
  BY DEF Restart, Recover
<1>2. Free.pc = "free" /\ Free.sid = None /\ Free.victim = None /\ Free.cands = {}
  BY DEF Free
<1>3. \A s \in Sessions : Of(s)' = Of(s)
  BY <1>1 DEF Of
<1>4. ASSUME NEW s \in Sessions
      PROVE  OneLife(s)' /\ (status'[s] \in NonTerminal => s \in Active)
  <2>1. OneLife(s)
    BY DEF CountInv
  <2>2. containers'[s] # None =>
          HasRow(s) /\ containers'[s] \in Of(s) /\ life[containers'[s]] = "live"
    BY <1>1 DEF RowsInv, RowsOwned
  <2>3. status[s] \in Terminal => containers'[s] = None
    BY <2>1, <2>2 DEF OneLife
  <2>4. status'[s] \in Terminal => containers'[s] = None
    BY <1>1 DEF Reconciled, Terminal
  <2>5. /\ HasRow(s)' => HasRow(s)
        /\ status'[s] \in NonTerminal => s \in Active
    BY <1>1, <2>2, <2>3 DEF Reconciled, HasRow, Active, NonTerminal
  <2>6. HasRow(s) => \A c \in Of(s) : life[c] = "live" => containers'[s] = c
    BY <1>1, <2>1, NoneAssumption DEF OneLife, RowsOwned, Of
  <2>7. \A c \in Of(s) : life[c] = "live" => status'[s] \notin Terminal
    <3>1. CASE HasRow(s)
      BY <2>4, <2>6, <3>1, NoneAssumption DEF Of
    <3>2. CASE ~HasRow(s)
      BY <1>1, <2>2, <3>2 DEF Reconciled, HasRow, Terminal, Active, NonTerminal
    <3> QED
      BY <3>1, <3>2
  <2>8. HasRow(s)' => InHand(s)'
    BY <1>1, <1>3, <2>5, <2>6 DEF InHand
  <2> QED
    BY <1>1, <1>3, <2>1, <2>2, <2>5, <2>7, <2>8 DEF OneLife
<1>5. \A r \in Requests : Names(r)' = {}
  BY <1>1, <1>2, NoneAssumption DEF Names
<1> QED
  BY <1>1, <1>2, <1>4, <1>5 DEF CountInv, Making, Ending

\* The row of a session is made with the container that was started for it.
LEMMA OwnedStep ==
  ASSUME Counted, TypeInv, RowsInv, RowsOwned, CountInv, [Next]_vars
  PROVE  RowsOwned'
<1>1. ASSUME NEW s \in Sessions
      PROVE  Of(s) \subseteq Of(s)'
  <2>1. CASE owner' = owner
    BY <2>1 DEF Of
  <2>2. ASSUME NEW r \in Requests, NEW c \in Containers, ContainerStarts(r, c)
        PROVE  Of(s) \subseteq Of(s)'
    <3>1. owner[c] = None /\ \A d \in Containers \ {c} : owner'[d] = owner[d]
      BY <2>2 DEF ContainerStarts, EngineStarts, CountInv, TypeInv, RunnersInv, DockerTypeOK
    <3> QED
      BY <3>1, NoneAssumption DEF Of
  <2> QED
    BY <2>1, <2>2 DEF Next, Continues, Arrives, RunnerActs, Pin, EvictEnd, AssignToken, SpawnReturns,
       SpawnThrows, RowRefused, UndoEnd, ResumeAssigns, ResumeSpawned, ResumeThrows, ResumeFails,
       StopEnd, DeleteEnd, WaitTimesOut, CreateBegin, ResumeBegin, StopBegin, StopAgain, DeleteBegin,
       ReportsReady, ReportsBusy, ReportsError, ReportsSessionInit, ReportsSnapshot, SocketCloses,
       SupersededCloses, RunnerExits, Restart, Recover, KillEnds, FinishKill, Track, lifeVars, vars,
       dockerVars
<1>2. ASSUME NEW s \in Sessions, HasRow(s)' => HasRow(s), rowContainer'[s] = rowContainer[s] \/ ~HasRow(s)'
      PROVE  HasRow(s)' => rowContainer'[s] \in Of(s)'
  BY <1>1, <1>2 DEF RowsOwned
<1>3. ASSUME NEW r \in Requests, SpawnReturns(r)
      PROVE  RowsOwned'
  <2>1. PICK t \in Sessions : t = req[r].sid
    BY <1>3 DEF SpawnReturns, At, TypeInv, RequestsInv
  <2>2. PICK h : h = req[r].held
    OBVIOUS
  <2>3. At(r, "spawning") /\ h # None /\ \E k, pin : CreateRow(t, h, k, pin)
    BY <1>3, <2>1, <2>2 DEF SpawnReturns
  <2>4. h \in Of(t)
    BY <2>1, <2>2, <2>3 DEF CountInv, MakingAlone, Making, At
  <2>5. /\ rowContainer'[t] = h
        /\ \A s \in Sessions \ {t} : rowContainer'[s] = rowContainer[s] /\ status'[s] = status[s]
    BY <2>3 DEF CreateRow, TypeInv, StoreTypeOK
  <2> QED
    BY <1>1, <1>2, <2>4, <2>5 DEF RowsOwned, HasRow
<1>4. CASE UNCHANGED storeVars
  BY <1>2, <1>4 DEF RowsOwned, storeVars, HasRow
<1>5. ASSUME NEW v, NEW st, st # "absent", UpdateStatus(v, st)
      PROVE  RowsOwned'
  BY <1>2, <1>5 DEF RowsOwned, UpdateStatus, WithStatus, HasRow, TypeInv, StoreTypeOK
<1>6. ASSUME NEW v, RemoveRow(v)
      PROVE  RowsOwned'
  BY <1>2, <1>6 DEF RowsOwned, RemoveRow, HasRow, TypeInv, StoreTypeOK
<1>7. CASE Restart
  <2>1. \A s \in Sessions : ~HasRow(s) => containers'[s] = None
    BY <1>7 DEF Restart, Recover, RowsInv
  <2>2. \A s \in Sessions : HasRow(s)' => HasRow(s)
    BY <1>7, <2>1 DEF Restart, Reconciled, HasRow, Active, NonTerminal
  <2> QED
    BY <1>2, <1>7, <2>2 DEF RowsOwned, Restart
<1>8. ASSUME status' = status, rowContainer' = rowContainer
      PROVE  RowsOwned'
  BY <1>2, <1>8 DEF RowsOwned, HasRow
<1>9. ASSUME NEW r \in Requests, Continues(r), ~SpawnReturns(r)
      PROVE  RowsOwned'
  <2>1. req[r].pc \in {"free", "waiting"} \cup Making \cup Ending
    BY DEF CountInv
  <2>2. ~ResumeAssigns(r) /\ ~ResumeSpawned(r) /\ ~ResumeThrows(r) /\ ~ResumeFails(r)
    BY <2>1 DEF ResumeAssigns, ResumeSpawned, ResumeThrows, ResumeFails, At, Making, Ending
  <2> QED
    BY <1>4, <1>5, <1>6, <1>9, <2>2 DEF Continues, EvictEnd, AssignToken, SpawnThrows, RowRefused,
       UndoEnd, StopEnd, DeleteEnd, WaitTimesOut, ContainerStarts, lifeVars
<1> QED
  <2>1. CASE \E r \in Requests, s \in Sessions : Arrives(r, s)
    BY <1>4, <2>1 DEF Arrives, CreateBegin, ResumeBegin, StopBegin, StopAgain, DeleteBegin, lifeVars
  <2>2. CASE \E c \in Containers : RunnerActs(c)
    BY <1>4, <1>5, <1>8, <2>2 DEF RunnerActs, ReportsReady, ReportsBusy, ReportsError, ReportsSessionInit,
       ReportsSnapshot, SocketCloses, SupersededCloses, RunnerExits, Counted, InsertSnapshot
  <2>3. CASE \E s \in Sessions : Pin(s)
    BY <1>8, <2>3 DEF Pin, SetPinned
  <2>4. CASE UNCHANGED vars
    BY <1>4, <2>4 DEF vars, lifeVars
  <2> QED
    BY <1>3, <1>7, <1>9, <2>1, <2>2, <2>3, <2>4 DEF Next

LEMMA CountStep == Counted /\ TypeInv /\ RowsInv /\ RowsOwned /\ CountInv /\ [Next]_vars => CountInv'
<1> SUFFICES ASSUME Counted, TypeInv, RowsInv, RowsOwned, CountInv, [Next]_vars PROVE CountInv'
  OBVIOUS
<1>1. CASE UNCHANGED dockerVars /\ UNCHANGED status /\ req' = req
  <2>1. Fading /\ containers' = containers /\ \A s \in Sessions : HasRow(s)' <=> HasRow(s)
    BY <1>1 DEF Fading, dockerVars, HasRow
  <2>2. \A s \in Sessions : \A d \in Of(s) : life'[d] = "live" => status'[s] \notin Terminal
    BY <1>1 DEF CountInv, OneLife, dockerVars
  <2> QED
    BY <1>1, <2>1, <2>2, CountStay
<1>2. ASSUME NEW r \in Requests, Continues(r)
      PROVE  CountInv'
  <2>1. req[r].pc \in {"free", "waiting"} \cup Making \cup Ending
    BY DEF CountInv
  <2>2. ~ResumeAssigns(r) /\ ~ResumeSpawned(r) /\ ~ResumeThrows(r) /\ ~ResumeFails(r)
    BY <2>1 DEF ResumeAssigns, ResumeSpawned, ResumeThrows, ResumeFails, At, Making, Ending
  <2> QED
    BY <1>2, <2>2, EvictEndCount, AssignTokenCount, SpawnEndsCount, SpawnThrowsCount, KillersCount,
       KillBeginsCount, ContainerStartsCount DEF Continues
<1>3. ASSUME NEW r \in Requests, NEW s \in Sessions, Arrives(r, s)
      PROVE  CountInv'
  <2>1. ~ResumeBegin(r, s)
    BY DEF ResumeBegin, Counted
  <2>2. StopAgain(r, s) => UNCHANGED dockerVars /\ UNCHANGED status /\ req' = req
    BY DEF StopAgain, storeVars
  <2> QED
    BY <1>1, <1>3, <2>1, <2>2, CreateBeginCount, KillBeginsCount DEF Arrives
<1>4. ASSUME NEW s \in Sessions, Pin(s)
      PROVE  CountInv'
  BY <1>1, <1>4 DEF Pin, SetPinned
<1>5. UNCHANGED vars => UNCHANGED dockerVars /\ UNCHANGED status /\ req' = req
  BY DEF vars, lifeVars, storeVars
<1> QED
  BY <1>1, <1>2, <1>3, <1>4, <1>5, RunnersCount, RestartCount DEF Next
-----------------------------------------------------------------------------
\* What the capacity counts, and what has been let in beyond it.
Room == MaxActive # 0 => Cardinality(Active \cup Admitted) < MaxActive + Cardinality(Requests)
\* No request lets in more than one session.
LEMMA CountsFinite ==
  ASSUME IsFiniteSet(Sessions), IsFiniteSet(Requests), NEW active \in SUBSET Sessions,
         NEW rq, NEW admitted,
         admitted = {rq[r].sid : r \in {q \in Requests : rq[q].pc \in {"admitted", "spawning"}}}
  PROVE  /\ IsFiniteSet(active \cup admitted)
         /\ Cardinality(active) \in Nat /\ Cardinality(active \cup admitted) \in Nat
         /\ Cardinality(Requests) \in Nat
         /\ Cardinality(active \cup admitted) <= Cardinality(active) + Cardinality(Requests)
<1> DEFINE Q == {q \in Requests : rq[q].pc \in {"admitted", "spawning"}}
           f == [q \in Q |-> rq[q].sid]
<1>1. Q \in SUBSET Requests
  OBVIOUS
<1>2. IsFiniteSet(active) /\ IsFiniteSet(Q) /\ Cardinality(Q) <= Cardinality(Requests)
  BY <1>1, FS_Subset
<1>3. f \in [Q -> admitted] /\ \A s \in admitted : \E q \in Q : f[q] = s
  OBVIOUS
<1>4. f \in Surjection(Q, admitted)
  BY <1>3 DEF Surjection
<1>5. IsFiniteSet(admitted) /\ Cardinality(admitted) <= Cardinality(Q)
  BY <1>2, <1>4, FS_Surjection
<1> HIDE DEF Q
<1>6. IsFiniteSet(active \cup admitted) /\ IsFiniteSet(active \cap admitted)
      /\ Cardinality(active \cup admitted)
           = Cardinality(active) + Cardinality(admitted) - Cardinality(active \cap admitted)
  <2>1. active \cap admitted \in SUBSET active
    OBVIOUS
  <2> QED
    BY <1>2, <1>5, <2>1, FS_Union, FS_Subset
<1>7. /\ Cardinality(active) \in Nat /\ Cardinality(admitted) \in Nat
      /\ Cardinality(Q) \in Nat /\ Cardinality(Requests) \in Nat
      /\ Cardinality(active \cap admitted) \in Nat /\ Cardinality(active \cup admitted) \in Nat
  BY <1>2, <1>5, <1>6, FS_CardinalityType
<1> QED
  BY <1>2, <1>5, <1>6, <1>7

LEMMA CountedNow ==
  ASSUME IsFiniteSet(Sessions), IsFiniteSet(Requests)
  PROVE  /\ IsFiniteSet(Active \cup Admitted) /\ Cardinality(Active \cup Admitted) \in Nat
         /\ Cardinality(Requests) \in Nat
<1>1. PICK active, rq, admitted : active = Active /\ rq = req /\ admitted = Admitted
  OBVIOUS
<1>2. active \in SUBSET Sessions
      /\ admitted = {rq[q].sid : q \in {p \in Requests : rq[p].pc \in {"admitted", "spawning"}}}
  BY <1>1 DEF Active, Admitted
<1>3. /\ IsFiniteSet(active \cup admitted) /\ Cardinality(active \cup admitted) \in Nat
      /\ Cardinality(Requests) \in Nat
  BY <1>2, CountsFinite
<1> QED
  BY <1>1, <1>3

\* A step that lets no session in.
LEMMA RoomStays ==
  ASSUME TypeInv, Room, IsFiniteSet(Sessions), IsFiniteSet(Requests),
         \A t \in Sessions : status'[t] \in NonTerminal => t \in Active \cup Admitted,
         \A q \in Requests : req'[q].pc \in {"admitted", "spawning"} =>
           req[q].pc \in {"admitted", "spawning"} /\ req'[q].sid = req[q].sid
  PROVE  Room'
<1>1. PICK now, next : now = Active \cup Admitted /\ next = (Active \cup Admitted)'
  OBVIOUS
<1>2. next \in SUBSET now
  <2>1. Active' \subseteq Active \cup Admitted
    BY DEF Active
  <2>2. Admitted' \subseteq Admitted
    BY DEF Admitted
  <2> QED
    BY <1>1, <2>1, <2>2
<1>3. IsFiniteSet(now) /\ Cardinality(now) \in Nat /\ Cardinality(Requests) \in Nat
  BY <1>1, CountedNow
<1>4. IsFiniteSet(next) /\ Cardinality(next) <= Cardinality(now) /\ Cardinality(next) \in Nat
  BY <1>2, <1>3, FS_Subset, FS_CardinalityType
<1>5. MaxActive # 0 => Cardinality(now) < MaxActive + Cardinality(Requests)
  BY <1>1 DEF Room
<1>6. MaxActive # 0 => Cardinality(next) < MaxActive + Cardinality(Requests)
  BY <1>3, <1>4, <1>5, ConfigAssumption
<1> QED
  BY <1>1, <1>6 DEF Room

\* A capacity decision lets a session in only when there is room for it.
LEMMA RoomDecision ==
  ASSUME TypeInv, Room, IsFiniteSet(Sessions), IsFiniteSet(Requests), NEW r \in Requests, NEW s,
         NEW cands, NEW count, count = Cardinality(Active)', CapacityDecision(r, s, cands, count),
         \A t \in Sessions : status'[t] \in NonTerminal => t \in Active
  PROVE  Room'
<1>1. CASE MaxActive # 0 /\ count < MaxActive
  <2>1. PICK active, rq, admitted : active = Active' /\ rq = req' /\ admitted = Admitted'
    OBVIOUS
  <2>2. active \in SUBSET Sessions
        /\ admitted = {rq[q].sid : q \in {p \in Requests : rq[p].pc \in {"admitted", "spawning"}}}
    BY <2>1 DEF Active, Admitted
  <2>3. /\ Cardinality(active) \in Nat /\ Cardinality(active \cup admitted) \in Nat
        /\ Cardinality(Requests) \in Nat
        /\ Cardinality(active \cup admitted) <= Cardinality(active) + Cardinality(Requests)
    BY <2>2, CountsFinite
  <2>4. Cardinality(active \cup admitted) < MaxActive + Cardinality(Requests)
    BY <1>1, <2>1, <2>3, ConfigAssumption
  <2> QED
    BY <2>1, <2>4 DEF Room
<1>2. CASE MaxActive = 0
  BY <1>2 DEF Room
<1>3. CASE MaxActive # 0 /\ ~(count < MaxActive)
  <2>1. /\ \A q \in Requests \ {r} : req'[q] = req[q]
        /\ req'[r].pc \notin {"admitted", "spawning"}
    BY <1>3, CapacityMoves
  <2> QED
    BY <2>1, RoomStays DEF Active
<1> QED
  BY <1>1, <1>2, <1>3

\* The handlers.  A session becomes active when the request that was let in for
\* it makes its row, and nowhere else.
LEMMA HandlersKeepRoom ==
  ASSUME TypeInv, CountInv, Room, IsFiniteSet(Sessions), IsFiniteSet(Requests),
         NEW r \in Requests, Continues(r)
  PROVE  Room'
<1>1. PICK s : s = req[r].sid
  OBVIOUS
<1>2. req[r].pc \in {"free", "waiting"} \cup Making \cup Ending
  BY DEF CountInv
<1>3. \A t \in Sessions : status[t] \in NonTerminal => t \in Active \cup Admitted
  BY DEF Active
<1>4. CASE EvictEnd(r)
  <2>1. PICK v : v = req[r].victim
    OBVIOUS
  <2>2. UpdateStatus(v, "stopped")
    BY <1>4, <2>1 DEF EvictEnd
  <2>3. \A t \in Sessions : status'[t] \in NonTerminal => t \in Active
    BY <2>2 DEF UpdateStatus, WithStatus, Active, NonTerminal, TypeInv, StoreTypeOK
  <2>4. PICK cands, count : cands = req[r].cands /\ count = Cardinality(Active)'
    OBVIOUS
  <2>5. CapacityDecision(r, s, cands, count)
    BY <1>1, <1>4, <2>4 DEF EvictEnd, ActiveCount
  <2> QED
    BY <2>3, <2>4, <2>5, RoomDecision
<1>5. CASE AssignToken(r) \/ SpawnReturns(r)
  <2>1. PICK k : k = nextIndex
    OBVIOUS
  <2>2. /\ req[r].pc \in {"admitted", "spawning"}
        /\ \E token : \E step \in {"spawning", "waiting"} : Goto(r, step, s, None, token)
        /\ UNCHANGED storeVars \/ \E h, token, pin : CreateRow(s, h, token, pin)
    BY <1>1, <1>5, <2>1 DEF AssignToken, SpawnReturns, At
  <2>3. s \in Sessions /\ s \in Admitted
    BY <1>1, <2>2 DEF Admitted, TypeInv, RequestsInv
  <2>4. \A t \in Sessions : status'[t] \in NonTerminal => t \in Active \cup Admitted
    BY <1>3, <2>2, <2>3 DEF CreateRow, storeVars, TypeInv, StoreTypeOK
  <2>5. \A q \in Requests \ {r} : req'[q] = req[q]
    BY <2>2 DEF Goto, TypeInv, RequestsInv, ReqTypeOK
  <2>6. req'[r].sid = s
    BY <2>2 DEF Goto, Free, TypeInv, RequestsInv, ReqTypeOK
  <2> QED
    BY <1>1, <2>2, <2>4, <2>5, <2>6, RoomStays
<1>6. CASE \E c \in Containers : ContainerStarts(r, c)
  <2>1. status' = status /\ \E c \in Containers : req' = [req EXCEPT ![r].held = c]
    BY <1>6 DEF ContainerStarts, storeVars
  <2>2. \A q \in Requests : req'[q].pc = req[q].pc /\ req'[q].sid = req[q].sid
    BY <2>1 DEF TypeInv, RequestsInv, ReqTypeOK
  <2> QED
    BY <1>3, <2>1, <2>2, RoomStays
<1>7. CASE WaitTimesOut(r)
  <2>1. status' = status /\ req' = [req EXCEPT ![r] = Rejected(r)]
    BY <1>7 DEF WaitTimesOut, lifeVars, storeVars
  <2>2. \A q \in Requests \ {r} : req'[q] = req[q]
    BY <2>1 DEF TypeInv, RequestsInv, ReqTypeOK
  <2>3. req'[r].pc \in {"undoing", "failing"}
    BY <2>1 DEF Rejected, TypeInv, RequestsInv, ReqTypeOK
  <2> QED
    BY <1>3, <2>1, <2>2, <2>3, RoomStays
<1>8. CASE RowRefused(r) \/ SpawnThrows(r) \/ UndoEnd(r) \/ StopEnd(r) \/ DeleteEnd(r)
  <2>1. /\ UNCHANGED storeVars \/ RemoveRow(s) \/ UpdateStatus(s, "stopped")
        /\ Finish(r) \/ \E h : Goto(r, "undoing", s, h, None)
    BY <1>1, <1>8 DEF RowRefused, SpawnThrows, UndoEnd, StopEnd, DeleteEnd
  <2>2. \A t \in Sessions : status'[t] \in NonTerminal => t \in Active \cup Admitted
    BY <1>3, <2>1 DEF storeVars, RemoveRow, UpdateStatus, WithStatus, NonTerminal, TypeInv, StoreTypeOK
  <2>3. \A q \in Requests \ {r} : req'[q] = req[q]
    BY <2>1, FinishMoves, GotoMoves
  <2>4. req'[r].pc \in {"free", "undoing"}
    BY <2>1, FinishMoves, GotoMoves
  <2> QED
    BY <2>2, <2>3, <2>4, RoomStays
<1>9. ~ResumeAssigns(r) /\ ~ResumeSpawned(r) /\ ~ResumeThrows(r) /\ ~ResumeFails(r)
  BY <1>2 DEF ResumeAssigns, ResumeSpawned, ResumeThrows, ResumeFails, At, Making, Ending
<1> QED
  BY <1>4, <1>5, <1>6, <1>7, <1>8, <1>9 DEF Continues

\* A word of a runner does not make an ended session active again.
LEMMA RunnersKeepRoom ==
  ASSUME TypeInv, CountInv, Counted, Room, IsFiniteSet(Sessions), IsFiniteSet(Requests),
         NEW c \in Containers, RunnerActs(c)
  PROVE  Room'
<1>1. \A t \in Sessions : status'[t] \in NonTerminal => t \in Active
  <2>1. CASE status' = status
    BY <2>1 DEF Active
  <2>2. CASE \E s : UpdateStatus(s, "stopped")
    BY <2>2 DEF UpdateStatus, WithStatus, NonTerminal, Active, TypeInv, StoreTypeOK
  <2>3. CASE ReportsReady(c) \/ ReportsBusy(c)
    <3>1. life[c] = "live"
      BY <2>3 DEF ReportsReady, ReportsBusy, FirstMessage, Heard, Counted
    <3>2. PICK s \in Sessions : s = owner[c]
      BY <3>1 DEF TypeInv, RunnersInv, Started
    <3>3. status[s] \notin Terminal
      BY <3>1, <3>2 DEF CountInv, OneLife, Of
    <3>4. \E st : UpdateStatus(s, st)
      BY <2>3, <3>2 DEF ReportsReady, ReportsBusy
    <3>5. status[s] \in NonTerminal \/ status' = status
      BY <3>3, <3>4 DEF UpdateStatus, WithStatus, HasRow, TypeInv, StoreTypeOK
    <3>6. \A t \in Sessions \ {s} : status'[t] = status[t]
      BY <3>4, StatusMoves DEF RowsApart
    <3> QED
      BY <3>5, <3>6 DEF Active
  <2> QED
    BY <2>1, <2>2, <2>3 DEF RunnerActs, ReportsError, ReportsSessionInit, ReportsSnapshot, SocketCloses,
                            SupersededCloses, RunnerExits, InsertSnapshot, storeVars, Counted
<1>2. req' = req \/ \E s : ResolveWaiters(s)
  BY DEF RunnerActs, ReportsReady, ReportsBusy, ReportsError, ReportsSessionInit, ReportsSnapshot,
         SocketCloses, SupersededCloses, RunnerExits, Counted
<1>3. \A q \in Requests : req'[q] = req[q] \/ req'[q].pc = "free"
  BY <1>2 DEF ResolveWaiters, Free
<1> QED
  BY <1>1, <1>3, RoomStays

LEMMA RoomInit == Init /\ IsFiniteSet(Requests) => Room
<1> SUFFICES ASSUME Init, IsFiniteSet(Requests), MaxActive # 0
             PROVE  Cardinality(Active \cup Admitted) < MaxActive + Cardinality(Requests)
  BY DEF Room
<1>1. Active = {} /\ Admitted = {}
  BY DEF Init, StoreInit, Active, NonTerminal, Admitted, Free
<1>2. Cardinality(Active \cup Admitted) = 0
  BY <1>1, FS_EmptySet
<1> QED
  BY <1>2, FS_CardinalityType, ConfigAssumption

LEMMA RoomStep ==
  ASSUME Counted, IsFiniteSet(Sessions), IsFiniteSet(Requests),
         TypeInv, RowsInv, RowsOwned, CountInv, Room, [Next]_vars
  PROVE  Room'
<1>1. CASE \E r \in Requests : Continues(r)
  BY <1>1, HandlersKeepRoom
<1>2. ASSUME NEW r \in Requests, NEW s \in Sessions, Arrives(r, s)
      PROVE  Room'
  <2>1. status' = status
    BY <1>2 DEF Arrives, CreateBegin, ResumeBegin, StopBegin, StopAgain, DeleteBegin, lifeVars, storeVars
  <2>2. \A t \in Sessions : status'[t] \in NonTerminal => t \in Active
    BY <2>1 DEF Active
  <2>3. CASE CreateBegin(r, s)
    <3>1. Active' = Active
      BY <2>1 DEF Active
    <3>2. PICK cands, count : cands = Evictable /\ count = Cardinality(Active)'
      OBVIOUS
    <3>3. CapacityDecision(r, s, cands, count)
      BY <2>3, <3>1, <3>2 DEF CreateBegin, ActiveCount
    <3> QED
      BY <2>2, <3>2, <3>3, RoomDecision
  <2>4. CASE req' = req
    BY <2>2, <2>4, RoomStays
  <2>5. CASE \E step \in {"stopping", "deleting"}, h \in Containers \cup {None} : Goto(r, step, s, h, None)
    <3>1. /\ \A q \in Requests \ {r} : req'[q] = req[q]
          /\ req'[r].pc \in {"stopping", "deleting"}
      BY <2>5, GotoMoves
    <3> QED
      BY <2>2, <3>1, RoomStays
  <2>6. StopBegin(r, s) \/ DeleteBegin(r, s) =>
          \E step \in {"stopping", "deleting"}, h \in Containers \cup {None} : Goto(r, step, s, h, None)
    BY DEF StopBegin, DeleteBegin, TypeInv, RunnersInv, DockerTypeOK
  <2>7. ~ResumeBegin(r, s) /\ (StopAgain(r, s) => req' = req)
    BY DEF ResumeBegin, StopAgain, Counted
  <2> QED
    BY <1>2, <2>3, <2>4, <2>5, <2>6, <2>7 DEF Arrives
<1>3. CASE \E s \in Sessions : Pin(s)
  BY <1>3, RoomStays DEF Pin, SetPinned, Active
<1>4. CASE \E c \in Containers : RunnerActs(c)
  BY <1>4, RunnersKeepRoom
<1>5. CASE UNCHANGED vars
  BY <1>5 DEF vars, lifeVars, storeVars, Room, Active, Admitted
<1>6. CASE Restart
  <2>1. \A q \in Requests : req'[q].pc = "free"
    BY <1>6 DEF Restart, Free
  <2> QED
    BY <1>6, <2>1, RestartCount, RoomStays
<1> QED
  BY <1>1, <1>2, <1>3, <1>4, <1>5, <1>6 DEF Next

\* Requests that overlap exceed MAX_ACTIVE_SESSIONS by what the other requests
\* may have been let in to meanwhile and by no more: every count is taken after
\* the last eviction it waited for, an ended session never counts again, and a
\* process that takes over after a crash revives none.
THEOREM OvershootBoundedWhenCounted ==
  ASSUME Counted, IsFiniteSet(Sessions), IsFiniteSet(Requests)
  PROVE  Spec => []OvershootBounded
<1> DEFINE Inv == TypeInv /\ RowsInv /\ RowsOwned /\ CountInv /\ Room
<1>1. Init => Inv
  BY TypeInit, CountInit, RoomInit DEF Init, StoreInit, RowsInv, RowsOwned, HasRow
<1>2. Inv /\ [Next]_vars => Inv'
  BY TypeStep, RowsStep, OwnedStep, CountStep, RoomStep
<1>3. Inv => OvershootBounded
  BY DEF Room, OvershootBounded, Admitted
<1> QED
  BY <1>1, <1>2, <1>3, PTL DEF Spec
=============================================================================
