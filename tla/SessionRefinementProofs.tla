----------------------- MODULE SessionRefinementProofs -----------------------
(***************************************************************************)
(* SessionLifecycle implements SessionService, for any number of sessions, *)
(* containers, tokens and requests, with every overlap, fault and restart. *)
(***************************************************************************)
EXTENDS SessionRefinement, SessionLifecycleProofs

NewSteps == {"evicting", "admitted", "spawning"}

\* A create that has not made its row yet is alone with its session: the id is
\* new, so nobody else can name it.
NewInv ==
  \A r \in Requests : req[r].pc \in NewSteps =>
    /\ status[req[r].sid] = "absent"
    /\ \A q \in Requests \ {r} : req[q].sid # req[r].sid
-----------------------------------------------------------------------------
LEMMA OpOfStep ==
  /\ OpAt("free") = "none"
  /\ \A step \in NewSteps \cup {"waiting", "undoing"} : OpAt(step) = "create"
  /\ \A step \in {"killing", "respawning", "rewaiting", "failing"} : OpAt(step) = "resume"
  /\ OpAt("stopping") = "stop"
  /\ OpAt("deleting") = "delete"
BY DEF OpAt, NewSteps

LEMMA ViewOfStatus ==
  /\ ViewOf("absent") = "absent"
  /\ ViewOf("starting") = "starting"
  /\ \A st \in {"ready", "busy", "idle"} : ViewOf(st) = "live"
  /\ \A st \in Terminal : ViewOf(st) = "ended"
BY DEF ViewOf, Terminal

LEMMA ViewAbsent ==
  ASSUME NEW st \in Terminal \cup NonTerminal \cup {"absent"}
  PROVE  ViewOf(st) = "absent" <=> st = "absent"
BY ViewOfStatus DEF Terminal, NonTerminal

\* An update of the status column is a Show, the removal of a row a Drop.
LEMMA UpdateShows ==
  ASSUME StoreTypeOK, NEW s \in Sessions, NEW st, UpdateStatus(s, st)
  PROVE  SV!Show(s, ViewOf(st)) /\ UNCHANGED snapshotted
BY ViewAbsent DEF StoreTypeOK, UpdateStatus, WithStatus, HasRow, SV!Show, View

LEMMA RemoveDrops ==
  ASSUME StoreTypeOK, NEW s \in Sessions, RemoveRow(s)
  PROVE  SV!Drop(s) /\ UNCHANGED snapshotted
BY ViewOfStatus DEF StoreTypeOK, RemoveRow, SV!Drop, View

LEMMA ViewStays ==
  ASSUME UNCHANGED status
  PROVE  UNCHANGED View
BY DEF View

\* A handler that ends answers its request; one that goes on does not, and
\* works for the same request.
LEMMA FinishAnswers ==
  ASSUME TypeInv, NEW r \in Requests, Finish(r)
  PROVE  SV!Answer({r})
BY OpOfStep DEF TypeInv, RequestsInv, ReqTypeOK, Finish, Free, SV!Answer, SV!Idle, Asked, At

LEMMA SameRequest ==
  ASSUME TypeInv, NEW r \in Requests,
         \A q \in Requests \ {r} : req'[q] = req[q],
         OpAt(req'[r].pc) = OpAt(req[r].pc), req'[r].sid = req[r].sid,
         req[r].pc # "free", req'[r].pc # "free"
  PROVE  UNCHANGED Asked
BY DEF Asked, At

LEMMA GotoAsks ==
  ASSUME TypeInv, NEW r \in Requests, NEW step, NEW s, NEW held, NEW token,
         Goto(r, step, s, held, token), step # "free"
  PROVE  Asked' = [q \in Requests |-> IF q = r THEN [op |-> OpAt(step), sid |-> s] ELSE Asked[q]]
BY GotoMoves DEF Asked, At

\* What ensureCapacity() decides for a request that names s.
LEMMA CapacityOutcome ==
  ASSUME TypeInv, NEW r \in Requests, NEW s \in Sessions, NEW cands, NEW count,
         CapacityDecision(r, s, cands, count)
  PROVE  /\ \A q \in Requests \ {r} : req'[q] = req[q]
         /\ \/ req'[r].pc \in NewSteps /\ req'[r].sid = s
            \/ req'[r] = Free
<1>1. CASE Goto(r, "admitted", s, None, None)
  BY <1>1, GotoMoves DEF NewSteps
<1>2. CASE Finish(r)
  BY <1>2 DEF TypeInv, RequestsInv, ReqTypeOK, Finish
<1>3. CASE \E v \in cands :
             req' = [req EXCEPT ![r] = [Free EXCEPT !.pc = "evicting", !.sid = s, !.victim = v,
                                          !.held = containers[v], !.cands = cands \ {v}]]
  BY <1>3 DEF TypeInv, RequestsInv, ReqTypeOK, Free, NewSteps
<1> QED BY <1>1, <1>2, <1>3 DEF CapacityDecision
-----------------------------------------------------------------------------
(***************************************************************************)
(* NewInv is an invariant.                                                 *)
(***************************************************************************)
\* What a step may do to the requests and rows without touching NewInv.
NewUntouched ==
  /\ \A q \in Requests : /\ req'[q].sid \in {req[q].sid, None}
                         /\ req'[q].pc \in NewSteps => req[q].pc \in NewSteps
  /\ \A s \in Sessions : status[s] = "absent" => status'[s] = "absent"

LEMMA NewStays ==
  ASSUME TypeInv, NewInv, TypeInv', NewUntouched
  PROVE  NewInv'
<1> SUFFICES ASSUME NEW r \in Requests, req'[r].pc \in NewSteps
             PROVE  /\ status'[req'[r].sid] = "absent"
                    /\ \A q \in Requests \ {r} : req'[q].sid # req'[r].sid
  BY DEF NewInv
<1>1. req'[r].sid \in Sessions
  BY DEF TypeInv, RequestsInv, NewSteps
<1>2. req'[r].sid = req[r].sid /\ req[r].pc \in NewSteps
  BY <1>1, NoneAssumption DEF NewUntouched
<1>3. \A q \in Requests : req'[q].sid \in {req[q].sid, None}
  BY DEF NewUntouched
<1> QED BY <1>1, <1>2, <1>3, NoneAssumption DEF NewInv, NewUntouched

LEMMA AbsentStays ==
  ASSUME StoreTypeOK, NEW t, NEW st, UpdateStatus(t, st) \/ RemoveRow(t) \/ UNCHANGED status
  PROVE  \A s \in Sessions : status[s] = "absent" => status'[s] = "absent"
BY DEF StoreTypeOK, UpdateStatus, WithStatus, HasRow, RemoveRow

LEMMA GotoOn ==
  ASSUME TypeInv, NEW r \in Requests, NEW step, NEW held, NEW token,
         Goto(r, step, req[r].sid, held, token), step \in NewSteps => req[r].pc \in NewSteps
  PROVE  \A q \in Requests : /\ req'[q].sid \in {req[q].sid, None}
                             /\ req'[q].pc \in NewSteps => req[q].pc \in NewSteps
BY GotoMoves

LEMMA FinishOn ==
  ASSUME TypeInv, NEW r \in Requests, Finish(r)
  PROVE  \A q \in Requests : /\ req'[q].sid \in {req[q].sid, None}
                             /\ req'[q].pc \in NewSteps => req[q].pc \in NewSteps
BY DEF TypeInv, RequestsInv, ReqTypeOK, Finish, Free, NewSteps

LEMMA ContinuesNew ==
  ASSUME TypeInv, NewInv, TypeInv', NEW r \in Requests, Continues(r)
  PROVE  NewInv'
<1> USE DEF TypeInv
<1>1. CASE EvictEnd(r)
  <2>1. req[r].sid \in Sessions /\ req[r].pc \in NewSteps
    BY <1>1 DEF RequestsInv, EvictEnd, At, NewSteps
  <2>2. \A q \in Requests : /\ req'[q].sid \in {req[q].sid, None}
                            /\ req'[q].pc \in NewSteps => req[q].pc \in NewSteps
    BY <1>1, <2>1, CapacityOutcome DEF EvictEnd, Free
  <2> QED BY <1>1, <2>2, NewStays, AbsentStays DEF EvictEnd, NewUntouched
<1>2. CASE AssignToken(r)
  <2>1. req[r].pc \in NewSteps
    BY <1>2 DEF AssignToken, At, NewSteps
  <2> QED BY <1>2, <2>1, NewStays, GotoOn DEF AssignToken, NewUntouched, storeVars
<1>3. CASE SpawnReturns(r)
  <2>1. req[r].pc \in NewSteps /\ req[r].sid \in Sessions
    BY <1>3 DEF RequestsInv, SpawnReturns, At, NewSteps
  <2>2. /\ req'[r].pc = "waiting" /\ req'[r].sid = req[r].sid
        /\ \A q \in Requests \ {r} : req'[q] = req[q]
    BY <1>3, GotoMoves DEF SpawnReturns
  <2>3. \A s \in Sessions : s # req[r].sid => status'[s] = status[s]
    BY <1>3 DEF StoreTypeOK, SpawnReturns, CreateRow
  <2> SUFFICES ASSUME NEW q \in Requests, req'[q].pc \in NewSteps
               PROVE  /\ status'[req'[q].sid] = "absent"
                      /\ \A p \in Requests \ {q} : req'[p].sid # req'[q].sid
    BY DEF NewInv
  <2>4. q # r /\ req'[q] = req[q]
    BY <2>2 DEF NewSteps
  <2>5. req[q].sid \in Sessions /\ req[q].sid # req[r].sid
    BY <2>1, <2>4 DEF NewInv, RequestsInv, NewSteps
  <2> QED BY <2>2, <2>3, <2>4, <2>5 DEF NewInv
<1>4. CASE SpawnThrows(r)
  BY <1>4, NewStays, GotoOn DEF SpawnThrows, NewUntouched, NewSteps, storeVars
<1>5. CASE RowRefused(r)
  BY <1>5, NewStays, GotoOn DEF RowRefused, NewUntouched, NewSteps, storeVars
<1>6. CASE UndoEnd(r)
  BY <1>6, NewStays, FinishOn, AbsentStays DEF UndoEnd, NewUntouched, storeVars
<1>7. CASE ResumeAssigns(r)
  BY <1>7, NewStays, GotoOn DEF ResumeAssigns, NewUntouched, NewSteps, storeVars
<1>8. CASE ResumeSpawned(r)
  <2>1. \A s \in Sessions : status[s] = "absent" => status'[s] = "absent"
    BY <1>8 DEF StoreTypeOK, ResumeSpawned, Reactivate, WithStatus, HasRow
  <2> QED BY <1>8, <2>1, NewStays, GotoOn DEF ResumeSpawned, NewUntouched, NewSteps
<1>9. CASE ResumeThrows(r)
  BY <1>9, NewStays, GotoOn DEF ResumeThrows, NewUntouched, NewSteps, lifeVars, storeVars
<1>10. CASE ResumeFails(r)
  BY <1>10, NewStays, FinishOn, AbsentStays DEF ResumeFails, NewUntouched
<1>11. CASE StopEnd(r)
  BY <1>11, NewStays, FinishOn, AbsentStays DEF StopEnd, NewUntouched
<1>12. CASE DeleteEnd(r)
  BY <1>12, NewStays, FinishOn, AbsentStays DEF DeleteEnd, NewUntouched
<1>13. CASE WaitTimesOut(r)
  <2>1. \A q \in Requests : /\ req'[q].sid \in {req[q].sid, None}
                            /\ req'[q].pc \in NewSteps => req[q].pc \in NewSteps
    BY <1>13, RejectedType DEF RequestsInv, ReqTypeOK, WaitTimesOut, NewSteps, UndoSteps
  <2> QED BY <1>13, <2>1, NewStays DEF WaitTimesOut, NewUntouched, lifeVars, storeVars
<1>14. ASSUME NEW c \in Containers, ContainerStarts(r, c) PROVE NewInv'
  <2>1. \A q \in Requests : req'[q].sid = req[q].sid /\ req'[q].pc = req[q].pc
    BY <1>14 DEF RequestsInv, ReqTypeOK, ContainerStarts
  <2> QED BY <1>14, <2>1, NewStays DEF ContainerStarts, NewUntouched, storeVars
<1> QED BY <1>1, <1>2, <1>3, <1>4, <1>5, <1>6, <1>7, <1>8, <1>9, <1>10, <1>11, <1>12, <1>13, <1>14
        DEF Continues

LEMMA ArrivesNew ==
  ASSUME TypeInv, NewInv, TypeInv', NEW r \in Requests, NEW t \in Sessions, Arrives(r, t)
  PROVE  NewInv'
<1>1. CASE CreateBegin(r, t)
  <2>1. status' = status /\ status[t] = "absent" /\ \A q \in Requests : req[q].sid # t
    BY <1>1 DEF CreateBegin, Fresh, HasRow, Quiet, lifeVars, storeVars
  <2>2. /\ \A q \in Requests \ {r} : req'[q] = req[q]
        /\ (req'[r].pc \in NewSteps /\ req'[r].sid = t) \/ req'[r] = Free
    BY <1>1, CapacityOutcome DEF CreateBegin
  <2> SUFFICES ASSUME NEW q \in Requests, req'[q].pc \in NewSteps
               PROVE  /\ status'[req'[q].sid] = "absent"
                      /\ \A p \in Requests \ {q} : req'[p].sid # req'[q].sid
    BY DEF NewInv
  <2>3. CASE q = r
    BY <2>1, <2>2, <2>3 DEF Free, NewSteps
  <2>4. CASE q # r
    <3>1. req'[q] = req[q] /\ req[q].sid \in Sessions /\ req[q].sid # t
      BY <2>1, <2>2, <2>4 DEF TypeInv, RequestsInv, NewSteps
    <3>2. req'[r].sid # req[q].sid
      BY <2>2, <3>1, NoneAssumption DEF Free
    <3> QED BY <2>1, <2>2, <3>1, <3>2 DEF NewInv
  <2> QED BY <2>3, <2>4
<1>2. ASSUME status' = status, status[t] # "absent", NEW step, NEW held, NEW token,
             Goto(r, step, t, held, token), step \notin NewSteps
      PROVE  NewInv'
  <2>1. /\ req'[r].pc = step /\ req'[r].sid = t
        /\ \A q \in Requests \ {r} : req'[q] = req[q]
    BY <1>2, GotoMoves
  <2> QED BY <1>2, <2>1 DEF NewInv
<1>3. CASE ResumeBegin(r, t)
  BY <1>2, <1>3 DEF ResumeBegin, Terminal, NewSteps, storeVars
<1>4. CASE StopBegin(r, t)
  BY <1>2, <1>4 DEF StopBegin, Active, NonTerminal, NewSteps, lifeVars, storeVars
<1>5. CASE StopAgain(r, t)
  BY <1>5 DEF StopAgain, NewInv, storeVars
<1>6. CASE DeleteBegin(r, t)
  BY <1>2, <1>6 DEF DeleteBegin, HasRow, NewSteps, lifeVars, storeVars
<1> QED BY <1>1, <1>3, <1>4, <1>5, <1>6 DEF Arrives

LEMMA RunnerActsNew ==
  ASSUME TypeInv, NewInv, TypeInv', NEW c \in Containers, RunnerActs(c)
  PROVE  NewInv'
<1> USE DEF TypeInv
<1>1. CASE ReportsReady(c)
  <2>1. \A q \in Requests : req'[q] \in {req[q], Free}
    BY <1>1 DEF ReportsReady, ResolveWaiters
  <2> QED BY <1>1, <2>1, NewStays, AbsentStays DEF ReportsReady, NewUntouched, Free, NewSteps
<1>2. CASE ReportsError(c)
  <2>1. \A q \in Requests : /\ req'[q].sid \in {req[q].sid, None}
                            /\ req'[q].pc \in NewSteps => req[q].pc \in NewSteps
    BY <1>2, RejectedType
    DEF RequestsInv, ReqTypeOK, ReportsError, RejectWaiters, WaitersOf, NewSteps, UndoSteps
  <2> QED BY <1>2, <2>1, NewStays, AbsentStays DEF ReportsError, NewUntouched
<1>3. CASE req' = req /\ \A s \in Sessions : status[s] = "absent" => status'[s] = "absent"
  BY <1>3, NewStays DEF NewUntouched
<1>4. ReportsBusy(c) \/ SocketCloses(c) => \A s \in Sessions : status[s] = "absent" => status'[s] = "absent"
  BY AbsentStays DEF ReportsBusy, SocketCloses, storeVars
<1> QED BY <1>1, <1>2, <1>3, <1>4
        DEF RunnerActs, ReportsBusy, ReportsSessionInit, SetSdkSessionId, ReportsSnapshot,
            InsertSnapshot, SocketCloses, SupersededCloses, RunnerExits, storeVars

LEMMA NewStep == TypeInv /\ NewInv /\ [Next]_vars => NewInv'
<1> SUFFICES ASSUME TypeInv, NewInv, [Next]_vars PROVE NewInv'
  OBVIOUS
<1>1. TypeInv'
  BY TypeStep
<1>2. ASSUME NEW s \in Sessions, Pin(s) PROVE NewInv'
  BY <1>2 DEF Pin, SetPinned, NewInv
<1>3. CASE Restart
  BY <1>3 DEF Restart, NewInv, Free, NewSteps
<1>4. CASE UNCHANGED vars
  BY <1>4 DEF vars, lifeVars, storeVars, NewInv
<1> QED BY <1>1, <1>2, <1>3, <1>4, ContinuesNew, ArrivesNew, RunnerActsNew DEF Next
-----------------------------------------------------------------------------
(***************************************************************************)
(* Every step is a step of the service, or changes nothing a client sees.  *)
(***************************************************************************)
Simulated == SV!Next \/ UNCHANGED SV!serviceVars

LEMMA Unseen ==
  ASSUME UNCHANGED <<status, snapshotted>>, UNCHANGED Asked
  PROVE  Simulated
BY ViewStays DEF Simulated, SV!serviceVars

\* A handler that goes on without touching the rows is not seen.
LEMMA GoesOn ==
  ASSUME TypeInv, NEW r \in Requests, NEW step, NEW held, NEW token,
         Goto(r, step, req[r].sid, held, token), UNCHANGED <<status, snapshotted>>,
         OpAt(step) = OpAt(req[r].pc), req[r].pc # "free", step # "free"
  PROVE  Simulated
BY GotoMoves, SameRequest, Unseen

LEMMA EvictEndSimulated ==
  ASSUME TypeInv, NewInv, NEW r \in Requests, EvictEnd(r)
  PROVE  Simulated
<1> DEFINE s == req[r].sid  v == req[r].victim
<1>1. s \in Sessions /\ status[s] = "absent" /\ req[r].pc = "evicting"
  BY DEF TypeInv, RequestsInv, NewInv, EvictEnd, At, NewSteps
<1>2. Asked[r].op = "create" /\ Asked[r].sid = s /\ View[s] = "absent"
  BY <1>1, OpOfStep, ViewOfStatus DEF Asked, At, View, NewSteps
<1>3. \E W \in SUBSET {r} : SV!Answer(W)
  <2>1. /\ \A q \in Requests \ {r} : req'[q] = req[q]
        /\ (req'[r].pc \in NewSteps /\ req'[r].sid = s) \/ req'[r] = Free
    BY <1>1, CapacityOutcome DEF EvictEnd
  <2>2. CASE req'[r].pc \in NewSteps /\ req'[r].sid = s
    <3>1. UNCHANGED Asked
      BY <1>1, <2>1, <2>2, OpOfStep, SameRequest DEF NewSteps
    <3>2. SV!Answer({})
      BY <3>1 DEF SV!Answer, Asked
    <3> QED BY <3>2
  <2>3. CASE req'[r] = Free
    <3>1. SV!Answer({r})
      BY <2>1, <2>3, OpOfStep DEF SV!Answer, SV!Idle, Asked, Free, At
    <3> QED BY <3>1
  <2> QED BY <2>1, <2>2, <2>3
<1>4. \E w \in Sessions : SV!Show(w, "ended")
  <2>1. CASE v \in Sessions
    BY <2>1, UpdateShows, ViewOfStatus DEF TypeInv, EvictEnd, Terminal
  <2>2. CASE v \notin Sessions
    <3>1. \A t \in Sessions : status'[t] = status[t]
      BY <2>2 DEF TypeInv, StoreTypeOK, EvictEnd, UpdateStatus, WithStatus
    <3>2. SV!Show(s, "ended")
      BY <1>2, <3>1 DEF SV!Show, View
    <3> QED BY <1>1, <3>2
  <2> QED BY <2>1, <2>2
<1>5. UNCHANGED snapshotted
  BY DEF EvictEnd, UpdateStatus
<1>6. \E w \in Sessions : SV!Evict(r, w)
  BY <1>2, <1>3, <1>4, <1>5 DEF SV!Evict, SV!Pending
<1> QED BY <1>6 DEF Simulated, SV!Next

LEMMA LaunchSimulated ==
  ASSUME TypeInv, NewInv, NEW r \in Requests, SpawnReturns(r) \/ ResumeSpawned(r)
  PROVE  Simulated
<1> DEFINE s == req[r].sid
<1>1. CASE SpawnReturns(r)
  <2>1. s \in Sessions /\ status[s] = "absent" /\ req[r].pc = "spawning"
    BY <1>1 DEF TypeInv, RequestsInv, NewInv, SpawnReturns, At, NewSteps
  <2>2. Asked[r].op = "create" /\ Asked[r].sid = s /\ View[s] = "absent"
    BY <2>1, OpOfStep, ViewOfStatus DEF Asked, At, View, NewSteps
  <2>3. View' = [t \in Sessions |-> IF t = s THEN "starting" ELSE View[t]]
    BY <1>1, <2>1, ViewOfStatus DEF TypeInv, StoreTypeOK, SpawnReturns, CreateRow, View
  <2>4. UNCHANGED Asked /\ UNCHANGED snapshotted
    BY <1>1, <2>1, GotoMoves, SameRequest, OpOfStep DEF SpawnReturns, CreateRow, NewSteps
  <2>5. SV!Launch(r)
    BY <2>2, <2>3, <2>4 DEF SV!Launch, SV!Pending
  <2> QED BY <2>5 DEF Simulated, SV!Next
<1>2. CASE ResumeSpawned(r)
  <2>1. s \in Sessions /\ req[r].pc = "respawning"
    BY <1>2 DEF TypeInv, RequestsInv, ResumeSpawned, At
  <2>2. Asked[r].op = "resume" /\ Asked[r].sid = s
    BY <2>1, OpOfStep DEF Asked, At
  <2>3. SV!Show(s, "starting")
    BY <1>2, <2>1, ViewOfStatus, ViewAbsent
    DEF TypeInv, StoreTypeOK, ResumeSpawned, Reactivate, WithStatus, HasRow, View, SV!Show
  <2>4. UNCHANGED Asked /\ UNCHANGED snapshotted
    BY <1>2, <2>1, GotoMoves, SameRequest, OpOfStep DEF ResumeSpawned, Reactivate
  <2>5. SV!Launch(r)
    BY <2>2, <2>3, <2>4 DEF SV!Launch, SV!Pending
  <2> QED BY <2>5 DEF Simulated, SV!Next
<1> QED BY <1>1, <1>2

\* The steps that answer a request.
LEMMA AnswerSimulated ==
  ASSUME TypeInv, NEW r \in Requests,
         UndoEnd(r) \/ ResumeFails(r) \/ StopEnd(r) \/ DeleteEnd(r)
  PROVE  Simulated
<1> DEFINE s == req[r].sid
<1>1. s \in Sessions /\ Asked[r].sid = s
  BY DEF TypeInv, RequestsInv, Asked, At, UndoEnd, ResumeFails, StopEnd, DeleteEnd
<1>2. SV!Answer({r})
  BY FinishAnswers DEF UndoEnd, ResumeFails, StopEnd, DeleteEnd
<1>3. CASE UndoEnd(r)
  <2>1. Asked[r].op = "create"
    BY <1>3, OpOfStep DEF Asked, UndoEnd, At
  <2>2. SV!UndoCreate(r)
    BY <1>1, <1>2, <1>3, <2>1, RemoveDrops, ViewStays
    DEF TypeInv, UndoEnd, SV!UndoCreate, SV!Pending, storeVars
  <2> QED BY <2>2 DEF Simulated, SV!Next
<1>4. CASE ResumeFails(r) \/ StopEnd(r)
  <2>1. Asked[r].op \in {"resume", "stop"}
    BY <1>4, OpOfStep DEF Asked, ResumeFails, StopEnd, At
  <2>2. SV!Show(s, "ended") /\ UNCHANGED snapshotted
    BY <1>1, <1>4, UpdateShows, ViewOfStatus DEF TypeInv, ResumeFails, StopEnd, Terminal
  <2>3. SV!End(r)
    BY <1>1, <1>2, <2>1, <2>2 DEF SV!End, SV!Pending
  <2> QED BY <2>3 DEF Simulated, SV!Next
<1>5. CASE DeleteEnd(r)
  <2>1. Asked[r].op = "delete"
    BY <1>5, OpOfStep DEF Asked, DeleteEnd, At
  <2>2. ASSUME s \in snapshotted, UpdateStatus(s, "stopped") PROVE SV!Delete(r)
    <3>1. SV!Show(s, "ended") /\ UNCHANGED snapshotted
      BY <1>1, <2>2, UpdateShows, ViewOfStatus DEF TypeInv, Terminal
    <3> QED BY <1>1, <1>2, <2>1, <2>2, <3>1 DEF SV!Delete, SV!Pending
  <2>3. ASSUME s \notin snapshotted, RemoveRow(s) PROVE SV!Delete(r)
    BY <1>1, <1>2, <2>1, <2>3, RemoveDrops DEF TypeInv, SV!Delete, SV!Pending
  <2>4. SV!Delete(r)
    BY <1>5, <2>2, <2>3 DEF DeleteEnd
  <2> QED BY <2>4 DEF Simulated, SV!Next
<1> QED BY <1>3, <1>4, <1>5

LEMMA ContinuesSimulated ==
  ASSUME TypeInv, NewInv, NEW r \in Requests, Continues(r)
  PROVE  Simulated
<1>1. CASE AssignToken(r)
  BY <1>1, GoesOn, OpOfStep DEF AssignToken, At, NewSteps, storeVars
<1>2. CASE SpawnThrows(r)
  BY <1>2, GoesOn, OpOfStep DEF SpawnThrows, At, NewSteps, storeVars
<1>3. CASE RowRefused(r)
  BY <1>3, GoesOn, OpOfStep DEF RowRefused, At, NewSteps, storeVars
<1>4. CASE ResumeAssigns(r)
  BY <1>4, GoesOn, OpOfStep DEF ResumeAssigns, At, storeVars
<1>5. CASE ResumeThrows(r)
  BY <1>5, GoesOn, OpOfStep DEF ResumeThrows, At, lifeVars, storeVars
<1>6. CASE WaitTimesOut(r)
  <2>1. Rejected(r).pc \in UndoSteps /\ OpAt(Rejected(r).pc) = OpAt(req[r].pc)
        /\ Rejected(r).sid = req[r].sid
    BY <1>6, OpOfStep
    DEF TypeInv, RequestsInv, ReqTypeOK, WaitTimesOut, Rejected, Waiting, UndoSteps
  <2>2. req'[r] = Rejected(r) /\ \A q \in Requests \ {r} : req'[q] = req[q]
    BY <1>6 DEF TypeInv, RequestsInv, ReqTypeOK, WaitTimesOut
  <2>3. UNCHANGED Asked
    BY <1>6, <2>1, <2>2, SameRequest DEF WaitTimesOut, Waiting, UndoSteps
  <2> QED BY <1>6, <2>3, Unseen DEF WaitTimesOut, lifeVars, storeVars
<1>7. ASSUME NEW c \in Containers, ContainerStarts(r, c) PROVE Simulated
  <2>1. \A q \in Requests : req'[q].pc = req[q].pc /\ req'[q].sid = req[q].sid
    BY <1>7 DEF TypeInv, RequestsInv, ReqTypeOK, ContainerStarts
  <2>2. UNCHANGED Asked
    BY <2>1 DEF Asked, At
  <2> QED BY <1>7, <2>2, Unseen DEF ContainerStarts, storeVars
<1> QED BY <1>1, <1>2, <1>3, <1>4, <1>5, <1>6, <1>7, EvictEndSimulated, LaunchSimulated,
           AnswerSimulated DEF Continues

\* The arrival of a request.
LEMMA ArrivesSimulated ==
  ASSUME TypeInv, NewInv, NEW r \in Requests, NEW s \in Sessions, Arrives(r, s)
  PROVE  Simulated
<1>1. ASSUME NEW op \in {"create", "resume", "stop", "delete"}, At(r, "free"), SV!MayAsk(op, s),
             Asked' = [q \in Requests |-> IF q = r THEN [op |-> op, sid |-> s] ELSE Asked[q]],
             UNCHANGED <<status, snapshotted>>
      PROVE  Simulated
  <2>1. Asked[r] = SV!Idle
    BY <1>1, OpOfStep DEF Asked, SV!Idle, At
  <2>2. SV!Ask(r, op, s)
    BY <1>1, <2>1, ViewStays DEF SV!Ask
  <2> QED BY <2>2 DEF Simulated, SV!Next
<1>2. CASE CreateBegin(r, s)
  <2>1. status[s] = "absent" /\ req[r].pc = "free" /\ UNCHANGED <<status, snapshotted>>
        /\ \A q \in Requests : req[q].sid # s
    BY <1>2 DEF CreateBegin, Fresh, HasRow, Quiet, At, lifeVars, storeVars
  <2>2. /\ \A q \in Requests \ {r} : req'[q] = req[q]
        /\ (req'[r].pc \in NewSteps /\ req'[r].sid = s) \/ req'[r] = Free
    BY <1>2, CapacityOutcome DEF CreateBegin
  <2>3. CASE req'[r].pc \in NewSteps /\ req'[r].sid = s
    <3>1. SV!MayAsk("create", s)
      BY <2>1, ViewOfStatus, NoneAssumption DEF SV!MayAsk, View, Asked, At
    <3>2. Asked' = [q \in Requests |-> IF q = r THEN [op |-> "create", sid |-> s] ELSE Asked[q]]
      BY <2>2, <2>3, OpOfStep DEF Asked, At, NewSteps
    <3> QED BY <1>1, <2>1, <3>1, <3>2 DEF At
  <2>4. CASE req'[r] = Free
    <3>1. UNCHANGED Asked
      BY <2>1, <2>2, <2>4 DEF Asked, At, Free
    <3> QED BY <2>1, <3>1, Unseen
  <2> QED BY <2>2, <2>3, <2>4
<1>3. CASE ResumeBegin(r, s)
  <2>1. SV!MayAsk("resume", s)
    BY <1>3, ViewOfStatus DEF ResumeBegin, SV!MayAsk, View
  <2>2. Asked' = [q \in Requests |-> IF q = r THEN [op |-> "resume", sid |-> s] ELSE Asked[q]]
    BY <1>3, GotoAsks, OpOfStep DEF ResumeBegin
  <2> QED BY <1>1, <1>3, <2>1, <2>2 DEF ResumeBegin, MayBegin, storeVars
<1>4. CASE StopBegin(r, s)
  <2>1. SV!MayAsk("stop", s)
    BY <1>4, ViewOfStatus DEF StopBegin, Active, NonTerminal, SV!MayAsk, View
  <2>2. Asked' = [q \in Requests |-> IF q = r THEN [op |-> "stop", sid |-> s] ELSE Asked[q]]
    BY <1>4, GotoAsks, OpOfStep DEF StopBegin
  <2> QED BY <1>1, <1>4, <2>1, <2>2 DEF StopBegin, MayBegin, lifeVars, storeVars
<1>5. CASE StopAgain(r, s)
  <2>1. UNCHANGED Asked
    BY <1>5 DEF StopAgain, Asked, At
  <2> QED BY <1>5, <2>1, Unseen DEF StopAgain, storeVars
<1>6. CASE DeleteBegin(r, s)
  <2>1. SV!MayAsk("delete", s)
    BY <1>6, ViewAbsent DEF TypeInv, StoreTypeOK, DeleteBegin, HasRow, SV!MayAsk, View
  <2>2. Asked' = [q \in Requests |-> IF q = r THEN [op |-> "delete", sid |-> s] ELSE Asked[q]]
    BY <1>6, GotoAsks, OpOfStep DEF DeleteBegin
  <2> QED BY <1>1, <1>6, <2>1, <2>2 DEF DeleteBegin, MayBegin, lifeVars, storeVars
<1> QED BY <1>2, <1>3, <1>4, <1>5, <1>6 DEF Arrives

\* A runner only touches the session its container belongs to.
LEMMA OwnerIsSession ==
  ASSUME TypeInv, NEW c \in Containers,
         FirstMessage(c) \/ Heard(c) \/ c \in sockets
  PROVE  owner[c] \in Sessions
BY DEF TypeInv, RunnersInv, Started, FirstMessage, Heard

LEMMA RunnerActsSimulated ==
  ASSUME TypeInv, NEW c \in Containers, RunnerActs(c)
  PROVE  Simulated
<1> DEFINE s == owner[c]
<1> USE DEF TypeInv
<1>1. ASSUME req' = req, UNCHANGED <<status, snapshotted>> PROVE Simulated
  BY <1>1, Unseen DEF Asked, At
<1>2. ASSUME req' = req, s \in Sessions, UpdateStatus(s, "stopped") \/ UpdateStatus(s, "error")
      PROVE  Simulated
  <2>1. SV!Show(s, "ended") /\ UNCHANGED snapshotted
    BY <1>2, UpdateShows, ViewOfStatus DEF Terminal
  <2>2. SV!Break(s)
    BY <1>2, <2>1 DEF SV!Break, Asked, At
  <2> QED BY <1>2, <2>2 DEF Simulated, SV!Next
<1>3. CASE ReportsReady(c)
  <2>1. s \in Sessions
    BY <1>3, OwnerIsSession DEF ReportsReady
  <2>2. SV!Show(s, "live") /\ UNCHANGED snapshotted
    BY <1>3, <2>1, UpdateShows, ViewOfStatus DEF ReportsReady
  <2>3. SV!Answer(WaitersOf(s))
    BY <1>3, OpOfStep DEF ReportsReady, ResolveWaiters, SV!Answer, SV!Idle, Asked, Free, At
  <2>4. \A r \in WaitersOf(s) : Asked[r].op \in {"create", "resume"} /\ Asked[r].sid = s
    BY OpOfStep DEF WaitersOf, Waiting, Asked, At
  <2>5. SV!Serve(s)
    BY <2>2, <2>3, <2>4 DEF SV!Serve, WaitersOf
  <2> QED BY <2>1, <2>5 DEF Simulated, SV!Next
<1>4. CASE ReportsBusy(c)
  <2>1. s \in Sessions
    BY <1>4, OwnerIsSession DEF ReportsBusy
  <2>2. SV!Show(s, "live") /\ UNCHANGED snapshotted
    BY <1>4, <2>1, UpdateShows, ViewOfStatus DEF ReportsBusy
  <2>3. SV!Answer({})
    BY <1>4 DEF ReportsBusy, SV!Answer, Asked, At
  <2>4. SV!Serve(s)
    BY <2>2, <2>3 DEF SV!Serve
  <2> QED BY <2>1, <2>4 DEF Simulated, SV!Next
<1>5. CASE ReportsError(c)
  <2>1. s \in Sessions
    BY <1>5, OwnerIsSession DEF ReportsError
  <2>2. SV!Show(s, "ended") /\ UNCHANGED snapshotted
    BY <1>5, <2>1, UpdateShows, ViewOfStatus DEF ReportsError, Terminal
  <2>3. ASSUME NEW r \in WaitersOf(s)
        PROVE  /\ Rejected(r).pc # "free" /\ req[r].pc # "free"
               /\ OpAt(Rejected(r).pc) = OpAt(req[r].pc) /\ Rejected(r).sid = req[r].sid
    BY <2>3, OpOfStep DEF RequestsInv, ReqTypeOK, WaitersOf, Rejected, Waiting
  <2>4. UNCHANGED Asked
    BY <1>5, <2>3 DEF ReportsError, RejectWaiters, Asked, At
  <2>5. SV!Break(s)
    BY <2>2, <2>4 DEF SV!Break
  <2> QED BY <2>1, <2>5 DEF Simulated, SV!Next
<1>6. CASE ReportsSessionInit(c)
  BY <1>1, <1>6 DEF ReportsSessionInit, SetSdkSessionId
<1>7. CASE ReportsSnapshot(c)
  <2>1. s \in Sessions /\ status' = status /\ req' = req
    BY <1>7, OwnerIsSession DEF ReportsSnapshot, InsertSnapshot
  <2>2. CASE ~HasRow(s)
    BY <1>1, <1>7, <2>1, <2>2 DEF ReportsSnapshot, InsertSnapshot
  <2>3. CASE HasRow(s)
    <3>1. View[s] # "absent"
      BY <2>1, <2>3, ViewAbsent DEF StoreTypeOK, HasRow, View
    <3>2. SV!Keep(s)
      BY <1>7, <2>1, <2>3, <3>1, ViewStays DEF ReportsSnapshot, InsertSnapshot, SV!Keep, Asked, At
    <3> QED BY <2>1, <3>2 DEF Simulated, SV!Next
  <2> QED BY <2>2, <2>3
<1>8. CASE SocketCloses(c)
  <2>1. s \in Sessions
    BY <1>8, OwnerIsSession DEF SocketCloses
  <2> QED BY <1>1, <1>2, <1>8, <2>1 DEF SocketCloses, storeVars
<1>9. CASE SupersededCloses(c)
  BY <1>1, <1>9 DEF SupersededCloses, storeVars
<1>10. CASE RunnerExits(c)
  BY <1>1, <1>10 DEF RunnerExits, storeVars
<1> QED BY <1>3, <1>4, <1>5, <1>6, <1>7, <1>8, <1>9, <1>10 DEF RunnerActs

LEMMA RestartSimulated ==
  ASSUME TypeInv, Restart
  PROVE  Simulated
<1> USE DEF TypeInv, StoreTypeOK
<1>1. SV!Answer(Requests)
  BY OpOfStep DEF Restart, SV!Answer, SV!Idle, Asked, Free, At
<1>2. ASSUME NEW s \in Sessions
      PROVE  /\ View'[s] \in {"absent", "starting", "live", "ended"}
             /\ View'[s] = "absent" <=> View[s] = "absent"
             /\ View'[s] = "starting" => View[s] = "starting"
             /\ View'[s] = "live" => View[s] # "starting"
  <2>1. View[s] = ViewOf(status[s]) /\ View'[s] = ViewOf(Reconciled(s))
    BY DEF Restart, View
  <2>2. status[s] \in Terminal \cup NonTerminal \cup {"absent"}
    OBVIOUS
  <2>3. Reconciled(s) \in IF status[s] \in Terminal THEN {"idle", status[s]}
                          ELSE IF status[s] \in NonTerminal THEN {"stopped", status[s]}
                          ELSE {"absent"}
    BY <2>2 DEF Reconciled, Active, Terminal, NonTerminal
  <2> QED BY <2>1, <2>2, <2>3, ViewOfStatus DEF Terminal, NonTerminal
<1>3. View' \in [Sessions -> {"absent", "starting", "live", "ended"}]
  BY <1>2 DEF View
<1>4. SV!Restart
  BY <1>1, <1>2, <1>3 DEF SV!Restart, Restart
<1> QED BY <1>4 DEF Simulated, SV!Next

LEMMA StepSimulated == TypeInv /\ NewInv /\ [Next]_vars => [SV!Next]_(SV!serviceVars)
<1> SUFFICES ASSUME TypeInv, NewInv, [Next]_vars PROVE Simulated
  BY DEF Simulated
<1>1. ASSUME NEW s \in Sessions, Pin(s) PROVE Simulated
  BY <1>1, Unseen DEF Pin, SetPinned, Asked, At
<1>2. CASE UNCHANGED vars
  BY <1>2, Unseen DEF vars, lifeVars, storeVars, Asked, At
<1> QED BY <1>1, <1>2, ContinuesSimulated, ArrivesSimulated, RunnerActsSimulated,
           RestartSimulated DEF Next

LEMMA InitSimulated == Init => SV!Init
BY OpOfStep, ViewOfStatus DEF Init, StoreInit, Free, At, View, Asked, SV!Init, SV!Idle

\* The orchestrator implements the service its clients rely on: with any number
\* of sessions, requests, containers and tokens, and whatever overlaps, breaks
\* or restarts, every step is one the service allows or is not seen.
THEOREM ServiceImplemented == Spec => ImplementsService
<1>1. Init => NewInv
  BY DEF Init, NewInv, Free, NewSteps
<1> QED BY <1>1, TypeInit, TypeStep, NewStep, InitSimulated, StepSimulated, PTL
        DEF Spec, ImplementsService, SV!Spec
=============================================================================
