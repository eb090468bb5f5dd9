------------------------- MODULE ConversationProofs -------------------------
(***************************************************************************)
(* Type correctness of Conversation, and, for every set of commands and    *)
(* sessions, with every fault: a steer or a fork never makes a second      *)
(* handler run turns, the orchestrator ends up with the truth about the    *)
(* runner, a message loop takes what is pending, no stream has two readers *)
(* and a turn reads the answer to its own prompt.                          *)
(***************************************************************************)
EXTENDS Conversation, SequenceTheorems, TLAPS

\* The sequence of two that Append() makes of one.
LEMMA AppendToOne ==
  ASSUME NEW S, NEW q \in Seq(S), NEW p \in Seq(S), NEW r \in S,
         Len(q) = 1, Len(p) = 2, p[1] = q[1], p[2] = r
  PROVE  Append(q, r) = p
<1>1. /\ Append(q, r) \in Seq(S) /\ Len(Append(q, r)) = Len(q) + 1
      /\ \A i \in 1..Len(q) : Append(q, r)[i] = q[i]
      /\ Append(q, r)[Len(q) + 1] = r
  BY SMTT(30), AppendProperties
<1>2. Len(Append(q, r)) = 2 /\ Append(q, r)[1] = q[1] /\ Append(q, r)[2] = r
  BY <1>1
<1>3. \A i \in 1..2 : Append(q, r)[i] = p[i]
  BY <1>2
<1> QED
  BY <1>1, <1>2, <1>3, SeqEqual

LEMMA AppendPair ==
  ASSUME NEW S, NEW d \in S, NEW r \in S
  PROVE  Append(<<d>>, r) = <<d, r>>
<1>1. <<d>> \in Seq(S) /\ Len(<<d>>) = 1 /\ <<d>>[1] = d
  OBVIOUS
<1>2. <<d, r>> \in Seq(S) /\ Len(<<d, r>>) = 2 /\ <<d, r>>[1] = d /\ <<d, r>>[2] = r
  OBVIOUS
<1> QED
  BY <1>1, <1>2, AppendToOne

USE CommandsAssumption, SocketsAssumption

\* A handler that runs turns has a command to run a turn for.
TurnOK ==
  /\ turn \in [Commands -> Handlers]
  /\ \A l \in Commands : Active(l) => turn[l].cur \in Commands

\* What the end of a turn and the first step of a handler may change.
ControlOK ==
  /\ isBusy \in BOOLEAN
  /\ pendingSteer \in Steers \cup Forks \cup Cancels \cup {None}
  /\ pendingForkAndSteer \in Forks \cup {None}
  /\ TurnOK
  /\ background \in [Forks -> Sdks \cup {None}]
  /\ outbox \in Seq({"busy", "ready"})

SessionsOK == SdkTypeOK /\ session \in Sdks \cup {None}

LinksOK ==
  /\ link \in LinkStates /\ socket \in Nat
  /\ mishaps \in SUBSET Mishaps
  /\ shown \in {"ready", "busy", "stopped"} /\ asked \in SUBSET AllCommands

\* The inductive form of the type invariant.
TInv == ControlOK /\ SessionsOK /\ LinksOK

\* The handler of l ends, in one of its steps.
Ends(l) ==
  /\ isBusy' = FALSE
  /\ turn' = [turn EXCEPT ![l] = Off]
  /\ Report(l, "ready")
  /\ l \in Messages /\ turn[l].pc # "cancelling" =>
       pendingSteer' = None /\ pendingForkAndSteer' = None

Moves(l) ==
  /\ turn'[l].pc # "off" /\ turn'[l].ws = turn[l].ws
  /\ \A k \in Commands \ {l} : turn'[k] = turn[k]

\* It goes on: it stays the handler it was, on the same socket.
GoesOn(l) ==
  /\ isBusy' = isBusy /\ Moves(l)
  /\ outbox' = outbox \/ Report(l, "busy")

LoopStep(l) == Active(l) /\ (Ends(l) \/ GoesOn(l))

\* No handler begins, ends or reports.
Quiet ==
  /\ isBusy' = isBusy /\ outbox' = outbox
  /\ \A k \in Commands : turn'[k].pc = turn[k].pc /\ turn'[k].ws = turn[k].ws

\* A handler of c that runs turns begins, and says so.
Begins(c) ==
  /\ isBusy' = TRUE /\ outbox' = Append(outbox, "busy")
  /\ turn'[c].pc # "off" /\ turn'[c].ws = socket
  /\ \A k \in Commands \ {c} : turn'[k] = turn[k]

\* A command is only noted, or answered with the status of the runner.
Notes ==
  /\ isBusy' = isBusy /\ turn' = turn
  /\ \/ outbox' = outbox
     \/ outbox' = Append(outbox, IF isBusy THEN "busy" ELSE "ready")
     \/ "misreported" \in mishaps'

\* What the handling of c does, up to its first await.
HandledAs(c) ==
  \/ /\ c \in Commands /\ Begins(c)
     /\ ~isBusy \/ (\A l \in Commands : ~Active(l)) \/ "overtaken" \in mishaps'
  \/ Notes

LEMMA OffType == Off \in Handlers
  BY DEF Off, Handlers, Steps

LEMMA PutType ==
  ASSUME SdkTypeOK, NEW s, NEW r, s \in Sdks => r \in SdkStates, sdk' = [sdk EXCEPT ![s] = r]
  PROVE  SdkTypeOK'
  BY DEF SdkTypeOK

LEMMA SendType ==
  ASSUME SdkTypeOK, NEW s, NEW c \in Commands, SendPrompt(s, c)
  PROVE  SdkTypeOK'
<1> DEFINE r == [sdk[s] EXCEPT !.prompts = Append(@, c)]
<1>1. s \in Sdks => r \in SdkStates
  <2> SUFFICES ASSUME s \in Sdks PROVE r \in SdkStates
    OBVIOUS
  <2>1. sdk[s] \in SdkStates
    BY DEF SdkTypeOK
  <2>2. Append(sdk[s].prompts, c) \in Seq(Commands)
    BY <2>1 DEF SdkStates
  <2> QED BY <2>1, <2>2 DEF SdkStates
<1>2. sdk' = [sdk EXCEPT ![s] = r]
  BY DEF SendPrompt
<1> QED BY <1>1, <1>2, PutType

LEMMA ClosedType == Closed \in SdkStates /\ Opened \in SdkStates
<1>1. <<>> \in Seq(Commands) /\ <<>> \in Seq(Events)
  OBVIOUS
<1>2. Closed \in SdkStates
  BY <1>1 DEF Closed, SdkStates
<1> QED BY <1>2 DEF Opened, SdkStates

LEMMA CloseType ==
  ASSUME SdkTypeOK, NEW s, CloseSdk(s)
  PROVE  SdkTypeOK'
  BY PutType, ClosedType DEF CloseSdk

LEMMA TakeType ==
  ASSUME SdkTypeOK, NEW s, Readable(s), TakeEvent(s)
  PROVE  SdkTypeOK'
<1> DEFINE r == [sdk[s] EXCEPT !.yielded = Tail(@)]
<1>1. s \in Sdks => r \in SdkStates
  <2> SUFFICES ASSUME s \in Sdks PROVE r \in SdkStates
    OBVIOUS
  <2>1. sdk[s] \in SdkStates
    BY DEF SdkTypeOK
  <2>2. Tail(sdk[s].yielded) \in Seq(Events)
    BY <2>1 DEF SdkStates, Readable
  <2> QED BY <2>1, <2>2 DEF SdkStates
<1>2. sdk' = [sdk EXCEPT ![s] = r]
  BY DEF TakeEvent
<1> QED BY <1>1, <1>2, PutType

LEMMA YieldType ==
  ASSUME SdkTypeOK, NEW s \in Sdks, YieldDelta(s) \/ YieldResult(s)
  PROVE  SdkTypeOK'
<1>1. sdk[s] \in SdkStates /\ sdk[s].prompts \in Seq(Commands) /\ sdk[s].yielded \in Seq(Events)
  BY DEF SdkTypeOK, SdkStates
<1>2. Working(s) => Head(sdk[s].prompts) \in Commands /\ Tail(sdk[s].prompts) \in Seq(Commands)
  BY <1>1 DEF Working
<1> DEFINE e(t) == [type |-> t, of |-> Head(sdk[s].prompts)]
<1>3. Working(s) => e("delta") \in Events /\ e("result") \in Events
  BY <1>2 DEF Events, EventTypes
<1>4. CASE YieldDelta(s)
  <2> DEFINE r == [sdk[s] EXCEPT !.yielded = <<e("delta")>>]
  <2>1. <<e("delta")>> \in Seq(Events)
    BY <1>3, <1>4 DEF YieldDelta
  <2>2. r \in SdkStates
    BY <1>1, <2>1 DEF SdkStates
  <2>3. sdk' = [sdk EXCEPT ![s] = r]
    BY <1>4 DEF YieldDelta
  <2> QED BY <2>2, <2>3, PutType
<1>5. CASE YieldResult(s)
  <2> DEFINE r == [sdk[s] EXCEPT !.yielded = Append(@, e("result")), !.prompts = Tail(@)]
  <2>1. Append(sdk[s].yielded, e("result")) \in Seq(Events)
    BY <1>1, <1>3, <1>5 DEF YieldResult
  <2>2. r \in SdkStates
    BY <1>1, <1>2, <1>5, <2>1 DEF SdkStates, YieldResult
  <2>3. sdk' = [sdk EXCEPT ![s] = r]
    BY <1>5 DEF YieldResult
  <2> QED BY <2>2, <2>3, PutType
<1> QED BY <1>4, <1>5

LEMMA NewType ==
  ASSUME SdkTypeOK, NewSession
  PROVE  SessionsOK'
<1>1. session' \in Sdks
  BY DEF NewSession
<1>2. sdk' = [sdk EXCEPT ![session'] = Opened]
  BY DEF NewSession
<1>3. SdkTypeOK'
  BY <1>2, PutType, ClosedType
<1> QED BY <1>1, <1>3 DEF SessionsOK

LEMMA CloseSessionType ==
  ASSUME SessionsOK, CloseSession
  PROVE  SessionsOK'
  BY CloseType DEF SessionsOK, CloseSession, SdkTypeOK

LEMMA ReportType ==
  ASSUME outbox \in Seq({"busy", "ready"}), NEW l, NEW x \in {"busy", "ready"}, Report(l, x)
  PROVE  outbox' \in Seq({"busy", "ready"})
  BY DEF Report

LEMMA MoveType ==
  ASSUME TurnOK, NEW l \in Commands, NEW h \in Handlers, h.cur \in Commands, h.pc # "off",
         h.ws = turn[l].ws, turn' = [turn EXCEPT ![l] = h]
  PROVE  TurnOK' /\ Moves(l)
  BY DEF TurnOK, Moves, Active

\* The steps that only move a handler along, with the fields they may set.
LEMMA GotoType ==
  ASSUME TurnOK, NEW l \in Commands, Active(l), NEW p \in Steps \ {"off"}, Goto(l, p)
  PROVE  TurnOK' /\ Moves(l)
<1> DEFINE h == [turn[l] EXCEPT !.pc = p]
<1>1. turn[l] \in Handlers /\ turn[l].cur \in Commands
  BY DEF TurnOK
<1>2. h \in Handlers /\ h.cur \in Commands /\ h.pc # "off" /\ h.ws = turn[l].ws
  BY <1>1 DEF Handlers
<1>3. turn' = [turn EXCEPT ![l] = h]
  BY DEF Goto
<1> QED BY <1>2, <1>3, MoveType

LEMMA SuspendType ==
  ASSUME TurnOK, NEW l \in Commands, NEW p \in Steps \ {"off"}, NEW c \in Commands,
         turn' = [turn EXCEPT ![l] = Suspended(l, p, c)]
  PROVE  TurnOK' /\ Moves(l)
<1>1. turn[l].ws \in Nat
  BY DEF TurnOK, Handlers
<1> DEFINE h == [Off EXCEPT !.pc = p, !.cur = c, !.ws = turn[l].ws]
<1>2. h \in Handlers /\ h.cur \in Commands /\ h.pc # "off" /\ h.ws = turn[l].ws
  BY <1>1, OffType DEF Handlers
<1>3. turn' = [turn EXCEPT ![l] = h]
  BY DEF Suspended
<1> QED BY <1>2, <1>3, MoveType

LEMMA EndType ==
  ASSUME ControlOK, NEW l \in Commands, EndLoop(l)
  PROVE  isBusy' \in BOOLEAN /\ TurnOK' /\ outbox' \in Seq({"busy", "ready"})
<1>1. turn' \in [Commands -> Handlers]
  BY OffType DEF EndLoop, ControlOK, TurnOK
<1>2. \A k \in Commands : Active(k)' => k # l /\ turn'[k] = turn[k]
  BY DEF EndLoop, ControlOK, TurnOK, Active, Off
<1>3. TurnOK'
  BY <1>1, <1>2 DEF ControlOK, TurnOK, Active
<1> QED BY <1>3, ReportType DEF EndLoop, ControlOK

\* The end of a turn leaves the control state well-typed, and the handler
\* either ends, nothing being pending then in a message loop, or goes on.
LEMMA AfterTurnStep ==
  ASSUME ControlOK, session \in Sdks \cup {None}, NEW l \in Commands, Active(l),
         AfterTurn(l)
  PROVE  ControlOK' /\ LoopStep(l)
<1>1. CASE l \notin Messages /\ EndLoop(l)
           /\ UNCHANGED <<pendingSteer, pendingForkAndSteer, background>>
  <2>1. ControlOK'
    BY <1>1, EndType DEF ControlOK
  <2>2. Ends(l)
    BY <1>1 DEF Ends, EndLoop
  <2> QED BY <2>1, <2>2 DEF LoopStep
<1>2. CASE pendingForkAndSteer # None /\ BeginFork(l, pendingForkAndSteer)
  <2> DEFINE f == pendingForkAndSteer
  <2>1. f \in Forks /\ f \in Commands
    BY <1>2 DEF ControlOK
  <2>2. TurnOK' /\ Moves(l)
    BY <1>2, <2>1, SuspendType DEF BeginFork, ControlOK, Steps
  <2>3. ControlOK'
    BY <1>2, <2>1, <2>2 DEF BeginFork, ControlOK
  <2>4. GoesOn(l)
    BY <1>2, <2>2 DEF GoesOn, BeginFork
  <2> QED BY <2>3, <2>4 DEF LoopStep
<1>3. CASE /\ pendingForkAndSteer = None /\ pendingSteer # None
           /\ TakeSteer(l, pendingSteer)
           /\ UNCHANGED <<pendingForkAndSteer, background>>
  <2> DEFINE st == pendingSteer
  <2>1. CASE st \in Cancels /\ session = None
    <3>1. EndLoop(l) /\ pendingSteer' = None
      BY <1>3, <2>1 DEF TakeSteer
    <3>2. ControlOK'
      BY <1>3, <3>1, EndType DEF ControlOK
    <3>3. Ends(l)
      BY <1>3, <3>1 DEF Ends, EndLoop
    <3> QED BY <3>2, <3>3 DEF LoopStep
  <2>2. CASE st \in Cancels /\ session # None
    <3>1. /\ turn' = [turn EXCEPT ![l] = Suspended(l, "cancelling", turn[l].cur)]
          /\ UNCHANGED <<isBusy, outbox>> /\ pendingSteer' = None
      BY <1>3, <2>2 DEF TakeSteer
    <3>2. turn[l].cur \in Commands
      BY DEF ControlOK, TurnOK
    <3>3. TurnOK' /\ Moves(l)
      BY <3>1, <3>2, SuspendType DEF ControlOK, Steps
    <3>4. ControlOK' /\ GoesOn(l)
      BY <1>3, <3>1, <3>3 DEF ControlOK, GoesOn
    <3> QED BY <3>4 DEF LoopStep
  <2>3. CASE st \notin Cancels
    <3>1. /\ turn' = [turn EXCEPT ![l] = Suspended(l, "steering", st)]
          /\ UNCHANGED <<isBusy, outbox>> /\ pendingSteer' = None
      BY <1>3, <2>3 DEF TakeSteer
    <3>2. st \in Commands
      BY <1>3, <2>3 DEF ControlOK
    <3>3. TurnOK' /\ Moves(l)
      BY <3>1, <3>2, SuspendType DEF ControlOK, Steps
    <3>4. ControlOK' /\ GoesOn(l)
      BY <1>3, <3>1, <3>3 DEF ControlOK, GoesOn
    <3> QED BY <3>4 DEF LoopStep
  <2> QED BY <2>1, <2>2, <2>3
<1>4. CASE /\ pendingForkAndSteer = None /\ pendingSteer = None /\ EndLoop(l)
           /\ UNCHANGED <<pendingSteer, pendingForkAndSteer, background>>
  <2>1. ControlOK'
    BY <1>4, EndType DEF ControlOK
  <2>2. Ends(l)
    BY <1>4 DEF Ends, EndLoop
  <2> QED BY <2>1, <2>2 DEF LoopStep
<1> QED BY <1>1, <1>2, <1>3, <1>4 DEF AfterTurn

\* Each await of a handler: types are kept, and the handler ends or goes on.
LEMMA ContinueStep ==
  ASSUME TInv, NEW l \in Commands, Continue(l)
  PROVE  /\ ControlOK' /\ SessionsOK' /\ LoopStep(l)
         /\ UNCHANGED linkVars /\ mishaps \subseteq mishaps' /\ mishaps' \in SUBSET Mishaps
<1> USE DEF TInv
<1>0. /\ Active(l) /\ TurnOK /\ turn[l] \in Handlers /\ turn[l].cur \in Commands
      /\ mishaps \subseteq Mishaps
  BY DEF Continue, CreateSession, Prompt, Stream, ReadEvent, ReadEnd, ForkDone, SteerReady,
         CancelDone, Active, ControlOK, TurnOK, LinksOK
<1>1. CASE CreateSession(l)
  <2>1. CASE NewSession /\ Goto(l, "prompt")
             /\ UNCHANGED <<isBusy, pendingSteer, pendingForkAndSteer, background, outbox>>
    <3>1. SessionsOK'
      BY <2>1, NewType DEF SessionsOK
    <3>2. TurnOK' /\ Moves(l)
      BY <1>0, <2>1, GotoType DEF Steps
    <3>3. ControlOK' /\ LoopStep(l)
      BY <1>0, <2>1, <3>2 DEF ControlOK, LoopStep, GoesOn
    <3> QED BY <1>0, <1>1, <3>1, <3>3 DEF CreateSession, linkVars
  <2>2. CASE AfterTurn(l) /\ UNCHANGED <<sdk, session>>
    <3>1. ControlOK' /\ LoopStep(l)
      BY <1>0, <2>2, AfterTurnStep DEF SessionsOK
    <3>2. SessionsOK'
      BY <2>2 DEF SessionsOK, SdkTypeOK
    <3> QED BY <1>0, <1>1, <3>1, <3>2 DEF CreateSession, linkVars
  <2> QED BY <1>1, <2>1, <2>2 DEF CreateSession
<1>2. CASE Prompt(l)
  <2>1. CASE session # None /\ SendPrompt(session, turn[l].cur) /\ Goto(l, "stream")
             /\ UNCHANGED <<isBusy, pendingSteer, pendingForkAndSteer, background, outbox>>
    <3>1. SessionsOK'
      BY <1>0, <1>2, <2>1, SendType DEF SessionsOK, Prompt
    <3>2. TurnOK' /\ Moves(l)
      BY <1>0, <2>1, GotoType DEF Steps
    <3>3. ControlOK' /\ LoopStep(l)
      BY <1>0, <2>1, <3>2 DEF ControlOK, LoopStep, GoesOn
    <3> QED BY <1>0, <1>2, <3>1, <3>3 DEF Prompt, linkVars
  <2>2. CASE AfterTurn(l) /\ UNCHANGED sdk
    <3>1. ControlOK' /\ LoopStep(l)
      BY <1>0, <2>2, AfterTurnStep DEF SessionsOK
    <3>2. SessionsOK'
      BY <1>2, <2>2 DEF SessionsOK, SdkTypeOK, Prompt
    <3> QED BY <1>0, <1>2, <3>1, <3>2 DEF Prompt, linkVars
  <2> QED BY <1>2, <2>1, <2>2 DEF Prompt
<1>3. CASE Stream(l)
  <2>0. SessionsOK'
    BY <1>3 DEF Stream, SessionsOK, SdkTypeOK
  <2>1. CASE session # None
    <3> DEFINE h == [turn[l] EXCEPT !.pc = "read", !.reads = session, !.timer = TRUE]
    <3>1. h \in Handlers /\ h.cur \in Commands /\ h.pc # "off" /\ h.ws = turn[l].ws
      BY <1>0 DEF Handlers, Steps, SessionsOK
    <3>2. turn' = [turn EXCEPT ![l] = h]
      BY <1>3, <2>1 DEF Stream
    <3>3. TurnOK' /\ Moves(l)
      BY <1>0, <3>1, <3>2, MoveType
    <3>4. ControlOK' /\ LoopStep(l)
      BY <1>0, <1>3, <2>1, <3>3 DEF ControlOK, LoopStep, GoesOn, Stream
    <3> QED BY <1>0, <1>3, <2>0, <3>4 DEF Stream, linkVars
  <2>2. CASE AfterTurn(l)
    <3>1. ControlOK' /\ LoopStep(l)
      BY <1>0, <2>2, AfterTurnStep DEF SessionsOK
    <3> QED BY <1>0, <1>3, <2>0, <3>1 DEF Stream, linkVars
  <2> QED BY <1>3, <2>1, <2>2 DEF Stream
<1>4. CASE ReadEvent(l)
  <2>0. SessionsOK'
    BY <1>4, TakeType DEF ReadEvent, SessionsOK
  <2>1. /\ UNCHANGED linkVars /\ mishaps \subseteq mishaps' /\ mishaps' \in SUBSET Mishaps
    BY <1>0, <1>4 DEF ReadEvent, Mishaps, linkVars
  <2>2. CASE AfterTurn(l)
    <3>1. ControlOK' /\ LoopStep(l)
      BY <1>0, <2>2, AfterTurnStep DEF SessionsOK
    <3> QED BY <2>0, <2>1, <3>1
  <2>3. CASE /\ turn' = [turn EXCEPT ![l].timer = FALSE]
             /\ UNCHANGED <<isBusy, pendingSteer, pendingForkAndSteer, background, outbox>>
    <3> DEFINE h == [turn[l] EXCEPT !.timer = FALSE]
    <3>1. h \in Handlers /\ h.cur \in Commands /\ h.pc # "off" /\ h.ws = turn[l].ws
      BY <1>0 DEF Handlers, Active
    <3>2. turn' = [turn EXCEPT ![l] = h]
      BY <2>3
    <3>3. TurnOK' /\ Moves(l)
      BY <1>0, <3>1, <3>2, MoveType
    <3>4. ControlOK' /\ LoopStep(l)
      BY <1>0, <2>3, <3>3 DEF ControlOK, LoopStep, GoesOn
    <3> QED BY <2>0, <2>1, <3>4
  <2> QED BY <1>4, <2>2, <2>3 DEF ReadEvent
<1>5. CASE ReadEnd(l)
  <2>1. ControlOK' /\ LoopStep(l)
    BY <1>0, <1>5, AfterTurnStep DEF SessionsOK, ReadEnd
  <2>2. SessionsOK'
    BY <1>5 DEF SessionsOK, SdkTypeOK, ReadEnd
  <2> QED BY <1>0, <1>5, <2>1, <2>2 DEF ReadEnd, linkVars
<1>6. CASE ForkDone(l)
  <2>1. \E p \in {"prompt", "steering"} : Goto(l, p)
    BY <1>6 DEF ForkDone, Goto
  <2>2. TurnOK' /\ Moves(l)
    BY <1>0, <2>1, GotoType DEF Steps
  <2>3. SessionsOK'
    BY <1>6, NewType DEF ForkDone, SessionsOK, SdkTypeOK
  <2>4. ControlOK' /\ LoopStep(l)
    BY <1>0, <1>6, <2>2 DEF ForkDone, ControlOK, LoopStep, GoesOn
  <2>5. UNCHANGED linkVars /\ mishaps \subseteq mishaps' /\ mishaps' \in SUBSET Mishaps
    BY <1>0, <1>6 DEF ForkDone, Mishaps, linkVars
  <2> QED BY <2>3, <2>4, <2>5
<1>7. CASE SteerReady(l)
  <2> DEFINE p == IF session = None THEN "create" ELSE "prompt"
  <2> DEFINE h == [turn[l] EXCEPT !.pc = p, !.cur = turn[l].cur]
  <2>1. h \in Handlers /\ h.cur \in Commands /\ h.pc # "off" /\ h.ws = turn[l].ws
    BY <1>0 DEF Handlers, Steps
  <2>2. turn' = [turn EXCEPT ![l] = h]
    BY <1>7 DEF SteerReady, RunTurn
  <2>3. TurnOK' /\ Moves(l)
    BY <1>0, <2>1, <2>2, MoveType
  <2>4. outbox' \in Seq({"busy", "ready"}) /\ (outbox' = outbox \/ Report(l, "busy"))
    BY <1>7, ReportType DEF SteerReady, ControlOK
  <2>5. ControlOK' /\ LoopStep(l)
    BY <1>0, <1>7, <2>3, <2>4 DEF SteerReady, ControlOK, LoopStep, GoesOn, stateVars
  <2>6. SessionsOK'
    BY <1>7 DEF SteerReady, SessionsOK, SdkTypeOK, stateVars
  <2> QED BY <1>0, <1>7, <2>5, <2>6 DEF SteerReady, linkVars
<1>8. CASE CancelDone(l)
  <2>1. ControlOK'
    BY <1>8, EndType DEF CancelDone, ControlOK
  <2>2. LoopStep(l)
    BY <1>0, <1>8 DEF CancelDone, LoopStep, Ends, EndLoop
  <2>3. SessionsOK'
    BY <1>8 DEF CancelDone, SessionsOK, SdkTypeOK
  <2> QED BY <1>0, <1>8, <2>1, <2>2, <2>3 DEF CancelDone, linkVars
<1> QED BY <1>1, <1>2, <1>3, <1>4, <1>5, <1>6, <1>7, <1>8 DEF Continue

\* The timer, the drains and the SDK: no handler notices yet.
LEMMA QuietTimeout ==
  ASSUME TInv, NEW l \in Commands, FirstEventTimeout(l)
  PROVE  ControlOK' /\ SessionsOK' /\ Quiet /\ UNCHANGED <<linkVars, mishaps>>
<1> USE DEF TInv
<1> DEFINE h == [turn[l] EXCEPT !.timer = FALSE]
<1>1. /\ h \in Handlers /\ h.pc = turn[l].pc /\ h.cur = turn[l].cur
      /\ h.ws = turn[l].ws
  <2>1. turn[l] \in Handlers
    BY DEF ControlOK, TurnOK
  <2> QED BY <2>1 DEF Handlers
<1>2. turn' = [turn EXCEPT ![l] = h]
  BY DEF FirstEventTimeout
<1>3. TurnOK'
  BY <1>1, <1>2 DEF ControlOK, TurnOK, Active
<1>4. Quiet
  BY <1>1, <1>2 DEF Quiet, FirstEventTimeout, ControlOK, TurnOK
<1>5. ControlOK'
  BY <1>3 DEF ControlOK, FirstEventTimeout
<1>6. SessionsOK'
  BY CloseSessionType DEF FirstEventTimeout
<1> QED BY <1>4, <1>5, <1>6 DEF FirstEventTimeout

LEMMA QuietSdkStep ==
  ASSUME TInv, SdkTypeOK', background' \in [Forks -> Sdks \cup {None}],
         UNCHANGED <<stateVars, turn, linkVars, outbox, mishaps>>
  PROVE  ControlOK' /\ SessionsOK' /\ Quiet /\ UNCHANGED <<linkVars, mishaps>>
  BY DEF TInv, ControlOK, TurnOK, Active, SessionsOK, Quiet, stateVars

LEMMA QuietDrain ==
  ASSUME TInv, NEW f \in Forks, DrainEvent(f) \/ DrainEnd(f)
  PROVE  ControlOK' /\ SessionsOK' /\ Quiet /\ UNCHANGED <<linkVars, mishaps>>
<1>1. SdkTypeOK'
  BY TakeType DEF DrainEvent, DrainEnd, TInv, SessionsOK, SdkTypeOK
<1>2. background' \in [Forks -> Sdks \cup {None}]
  BY DEF DrainEvent, DrainEnd, TInv, ControlOK
<1> QED BY <1>1, <1>2, QuietSdkStep DEF DrainEvent, DrainEnd

LEMMA QuietSdk ==
  ASSUME TInv, NEW s \in Sdks, SdkStep(s) \/ SdkDies(s)
  PROVE  ControlOK' /\ SessionsOK' /\ Quiet /\ UNCHANGED <<linkVars, mishaps>>
<1>1. SdkTypeOK'
  BY YieldType, CloseType DEF SdkStep, SdkDies, TInv, SessionsOK
<1>2. background' \in [Forks -> Sdks \cup {None}]
  BY DEF SdkStep, SdkDies, TInv, ControlOK
<1> QED BY <1>1, <1>2, QuietSdkStep DEF SdkStep, SdkDies

LEMMA BeginStep ==
  ASSUME TInv, NEW c \in Commands, NEW p \in Steps \ {"off"}, BeginLoop(c, p)
  PROVE  TurnOK' /\ outbox' \in Seq({"busy", "ready"}) /\ Begins(c)
<1> DEFINE h == [Off EXCEPT !.pc = p, !.cur = c, !.ws = socket]
<1>1. h \in Handlers /\ h.cur = c /\ h.pc # "off" /\ h.ws = socket
  BY OffType DEF Handlers, TInv, LinksOK
<1>2. turn' = [turn EXCEPT ![c] = h]
  BY DEF BeginLoop
<1>3. TurnOK' /\ turn'[c] = h /\ \A k \in Commands \ {c} : turn'[k] = turn[k]
  BY <1>1, <1>2 DEF TInv, ControlOK, TurnOK, Active
<1>4. outbox' = Append(outbox, "busy") /\ isBusy' = TRUE
  BY DEF BeginLoop
<1>5. outbox' \in Seq({"busy", "ready"})
  BY <1>4 DEF TInv, ControlOK
<1> QED BY <1>1, <1>3, <1>4, <1>5 DEF Begins

LEMMA HandleStep ==
  ASSUME TInv, NEW c \in AllCommands, Handle(c)
  PROVE  TInv' /\ HandledAs(c) /\ UNCHANGED linkVars /\ mishaps \subseteq mishaps'
<1> USE DEF TInv
<1>0. FirstStep \in Steps \ {"off"} /\ "steering" \in Steps \ {"off"}
  BY DEF FirstStep, Steps
<1>1. UNCHANGED <<linkVars, shown>> /\ asked' \in SUBSET AllCommands
  BY DEF Handle, HandleMessage, HandleSteer, HandleCancel, HandleForkAndSteer,
         HandleSetOptions, HandleCompact, Receive, LinksOK
<1>2. mishaps \subseteq mishaps' /\ mishaps' \in SUBSET Mishaps
  BY DEF Handle, HandleMessage, HandleSteer, HandleCancel, HandleForkAndSteer,
         HandleSetOptions, HandleCompact, LinksOK, Mishaps
<1>3. LinksOK'
  BY <1>1, <1>2 DEF LinksOK, linkVars
<1>4. ControlOK' /\ SessionsOK' /\ HandledAs(c)
  <2>1. CASE HandleMessage(c)
    <3>1. c \in Commands
      BY <2>1 DEF HandleMessage
    <3>2. TurnOK' /\ outbox' \in Seq({"busy", "ready"}) /\ Begins(c)
      BY <1>0, <2>1, <3>1, BeginStep DEF HandleMessage
    <3>3. ControlOK'
      BY <2>1, <3>2 DEF HandleMessage, ControlOK, Begins
    <3>4. HandledAs(c)
      BY <2>1, <3>1, <3>2 DEF HandleMessage, HandledAs
    <3>5. SessionsOK'
      BY <2>1 DEF HandleMessage, SessionsOK, SdkTypeOK
    <3> QED BY <3>3, <3>4, <3>5
  <2>2. CASE HandleSteer(c)
    <3>1. c \in Steers /\ c \in Commands
      BY <2>2 DEF HandleSteer
    <3>2. SessionsOK'
      BY <2>2 DEF HandleSteer, SessionsOK, SdkTypeOK
    <3>3. CASE isBusy
      BY <2>2, <3>1, <3>2, <3>3 DEF HandleSteer, ControlOK, TurnOK, Active, HandledAs, Notes
    <3>4. CASE ~isBusy
      <4>1. TurnOK' /\ outbox' \in Seq({"busy", "ready"}) /\ Begins(c)
        BY <1>0, <2>2, <3>1, <3>4, BeginStep DEF HandleSteer
      <4>2. ControlOK' /\ HandledAs(c)
        BY <2>2, <3>1, <3>4, <4>1 DEF HandleSteer, ControlOK, Begins, HandledAs
      <4> QED BY <3>2, <4>2
    <3> QED BY <3>3, <3>4
  <2>3. CASE HandleCancel(c)
    <3>1. SessionsOK'
      BY <2>3 DEF HandleCancel, SessionsOK, SdkTypeOK
    <3>2. HandledAs(c)
      BY <2>3 DEF HandleCancel, HandledAs, Notes
    <3>3. outbox' \in Seq({"busy", "ready"})
      BY <2>3 DEF HandleCancel, ControlOK
    <3>4. ControlOK'
      BY <2>3, <3>3 DEF HandleCancel, ControlOK, TurnOK, Active
    <3> QED BY <3>1, <3>2, <3>4
  <2>4. CASE HandleForkAndSteer(c)
    <3>1. c \in Forks /\ c \in Commands
      BY <2>4 DEF HandleForkAndSteer
    <3>2. SessionsOK'
      BY <2>4 DEF HandleForkAndSteer, SessionsOK, SdkTypeOK
    <3>3. CASE isBusy
      BY <2>4, <3>1, <3>2, <3>3
         DEF HandleForkAndSteer, ControlOK, TurnOK, Active, HandledAs, Notes
    <3>4. CASE ~isBusy
      <4>1. TurnOK' /\ outbox' \in Seq({"busy", "ready"}) /\ Begins(c)
        BY <1>0, <2>4, <3>1, <3>4, BeginStep DEF HandleForkAndSteer
      <4>2. ControlOK' /\ HandledAs(c)
        BY <2>4, <3>1, <3>4, <4>1 DEF HandleForkAndSteer, ControlOK, Begins, HandledAs
      <4> QED BY <3>2, <4>2
    <3> QED BY <3>3, <3>4
  <2>5. CASE HandleSetOptions(c)
    <3>1. SessionsOK'
      BY <2>5, CloseSessionType DEF HandleSetOptions
    <3>2. HandledAs(c)
      BY <2>5 DEF HandleSetOptions, HandledAs, Notes
    <3>3. outbox' \in Seq({"busy", "ready"})
      BY <2>5 DEF HandleSetOptions, ControlOK
    <3>4. ControlOK'
      BY <2>5, <3>3 DEF HandleSetOptions, ControlOK, TurnOK, Active
    <3> QED BY <3>1, <3>2, <3>4
  <2>6. CASE HandleCompact(c)
    <3>1. SessionsOK'
      BY <2>6 DEF HandleCompact, SessionsOK, SdkTypeOK, stateVars
    <3>2. HandledAs(c)
      BY <2>6 DEF HandleCompact, HandledAs, Notes, stateVars
    <3>3. outbox' \in Seq({"busy", "ready"})
      BY <2>6 DEF HandleCompact, ControlOK
    <3>4. ControlOK'
      BY <2>6, <3>3 DEF HandleCompact, ControlOK, TurnOK, Active, stateVars
    <3> QED BY <3>1, <3>2, <3>4
  <2> QED BY <2>1, <2>2, <2>3, <2>4, <2>5, <2>6 DEF Handle
<1> QED BY <1>1, <1>2, <1>3, <1>4

\* The orchestrator reading a status, and the socket.
LinkStep == ShowStatus \/ Disconnect \/ Connect \/ ConnectDone

LEMMA LinkSteps ==
  ASSUME TInv, LinkStep
  PROVE  TInv' /\ UNCHANGED <<isBusy, turn>> /\ mishaps \subseteq mishaps'
<1> USE DEF TInv
<1>1. CASE ShowStatus
  <2>1. outbox' \in Seq({"busy", "ready"}) /\ shown' \in {"busy", "ready"}
    BY <1>1 DEF ShowStatus, ControlOK
  <2> QED BY <1>1, <2>1 DEF ShowStatus, ControlOK, TurnOK, Active, SessionsOK, SdkTypeOK,
             LinksOK, stateVars, linkVars
<1>2. CASE Disconnect
  BY <1>2 DEF Disconnect, ControlOK, TurnOK, Active, SessionsOK, SdkTypeOK, LinksOK,
              stateVars, LinkStates
<1>3. CASE Connect
  BY <1>3 DEF Connect, ControlOK, TurnOK, Active, SessionsOK, SdkTypeOK, LinksOK, stateVars,
              LinkStates
<1>4. CASE ConnectDone
  <2>1. SessionsOK'
    BY <1>4, NewType DEF ConnectDone, SessionsOK, SdkTypeOK
  <2>2. Register
    BY <1>4 DEF ConnectDone
  <2>3. outbox' \in Seq({"busy", "ready"})
    BY <2>2 DEF Register
  <2> QED BY <2>1, <2>2, <2>3 DEF Register, ControlOK, TurnOK, Active, LinksOK, LinkStates,
             Mishaps
<1> QED BY <1>1, <1>2, <1>3, <1>4 DEF LinkStep

LEMMA HandleShown ==
  ASSUME NEW c \in AllCommands, Handle(c)
  PROVE  link = "up" /\ UNCHANGED shown
  BY DEF Handle, HandleMessage, HandleSteer, HandleCancel, HandleForkAndSteer,
         HandleSetOptions, HandleCompact, Receive

\* Every step of the system is one of these, and keeps the types.
LEMMA StepKinds ==
  ASSUME TInv, Next
  PROVE  /\ TInv' /\ mishaps \subseteq mishaps'
         /\ \/ (\E c \in AllCommands : HandledAs(c)) /\ link = "up" /\ UNCHANGED <<linkVars, shown>>
            \/ (\E l \in Commands : LoopStep(l)) /\ UNCHANGED <<linkVars, shown>>
            \/ Quiet /\ UNCHANGED <<linkVars, shown, mishaps>>
            \/ LinkStep /\ UNCHANGED <<isBusy, turn>>
<1>1. CASE \E c \in AllCommands : Handle(c)
  <2>1. PICK c \in AllCommands : Handle(c)
    BY <1>1
  <2> QED BY <2>1, HandleShown, HandleStep
<1>2. CASE RunnerStep /\ UNCHANGED <<shown, asked>>
  <2>1. CASE \E l \in Commands : Continue(l)
    <3>1. PICK l \in Commands : Continue(l)
      BY <2>1
    <3>2. LoopStep(l) /\ ControlOK' /\ SessionsOK' /\ UNCHANGED linkVars
          /\ mishaps \subseteq mishaps' /\ mishaps' \in SUBSET Mishaps
      BY <3>1, ContinueStep
    <3>3. LinksOK'
      BY <1>2, <3>2 DEF TInv, LinksOK, linkVars
    <3> QED BY <1>2, <3>2, <3>3 DEF TInv
  <2>2. CASE ControlOK' /\ SessionsOK' /\ Quiet /\ UNCHANGED <<linkVars, mishaps>>
    <3>1. LinksOK'
      BY <1>2, <2>2 DEF TInv, LinksOK, linkVars
    <3> QED BY <1>2, <2>2, <3>1 DEF TInv
  <2>3. CASE \E l \in Commands : FirstEventTimeout(l)
    BY <2>2, <2>3, QuietTimeout
  <2>4. CASE \E f \in Forks : DrainEvent(f) \/ DrainEnd(f)
    BY <2>2, <2>4, QuietDrain
  <2>5. CASE \E s \in Sdks : SdkStep(s) \/ SdkDies(s)
    BY <2>2, <2>5, QuietSdk
  <2> QED BY <1>2, <2>1, <2>3, <2>4, <2>5 DEF RunnerStep
<1>3. CASE LinkStep
  BY <1>3, LinkSteps
<1> QED BY <1>1, <1>2, <1>3 DEF Next, LinkStep

LEMMA InitTypes == Init => TInv
<1> SUFFICES ASSUME Init PROVE TInv
  OBVIOUS
<1>1. session \in Sdks \cup {None} /\ SdkTypeOK
  BY ClosedType DEF Init, RunnerInit, SdkTypeOK
<1>2. TurnOK
  BY OffType DEF Init, RunnerInit, TurnOK, Active, Off
<1>3. outbox \in Seq({"busy", "ready"})
  BY DEF Init, RunnerInit
<1> QED BY <1>1, <1>2, <1>3
        DEF Init, RunnerInit, TInv, ControlOK, SessionsOK, LinksOK, LinkStates

LEMMA StutterTypes == TInv /\ UNCHANGED vars => TInv'
  BY DEF TInv, ControlOK, TurnOK, Active, SessionsOK, SdkTypeOK, LinksOK, vars, runnerVars,
         stateVars, linkVars

LEMMA TypesInvariant == Spec => []TInv
<1>1. TInv /\ [Next]_vars => TInv'
  BY StepKinds, StutterTypes
<1> QED BY InitTypes, <1>1, PTL DEF Spec

(***************************************************************************)
(* Every variable of the runner and of its bridge has its type, with every *)
(* set of commands and of faults: a handler between its awaits always has  *)
(* a command to run a turn for, and reads a session that exists.           *)
(***************************************************************************)
THEOREM TypesAlways == Spec => []TypeOK
<1>1. TInv => TypeOK
  BY DEF TInv, ControlOK, TurnOK, SessionsOK, LinksOK, TypeOK, RunnerTypeOK
<1> QED BY TypesInvariant, <1>1, PTL

LEMMA OneLoopStep ==
  ASSUME TInv, OneLoop, [Next]_vars
  PROVE  OneLoop'
<1> USE DEF OneLoop, Without
<1> SUFFICES ASSUME "overtaken" \notin mishaps'
             PROVE  /\ isBusy' <=> \E l \in Commands : Active(l)'
                    /\ \A l, k \in Commands : Active(l)' /\ Active(k)' => l = k
  OBVIOUS
<1>1. CASE UNCHANGED vars
  BY <1>1 DEF vars, runnerVars, stateVars, Active
<1>2. CASE Next
  <2>0. mishaps \subseteq mishaps' /\ TInv'
    BY <1>2, StepKinds
  <2>1. /\ isBusy <=> \E l \in Commands : Active(l)
        /\ \A l, k \in Commands : Active(l) /\ Active(k) => l = k
    BY <2>0
  <2>2. CASE \E c \in AllCommands : HandledAs(c)
    <3>1. PICK c \in AllCommands : HandledAs(c)
      BY <2>2
    <3>2. CASE Notes
      BY <2>1, <3>2 DEF Notes, Active
    <3>3. CASE c \in Commands /\ Begins(c) /\ \A l \in Commands : ~Active(l)
      BY <3>3 DEF Begins, Active
    <3> QED BY <2>1, <3>1, <3>2, <3>3 DEF HandledAs
  <2>3. CASE \E l \in Commands : LoopStep(l)
    <3>1. PICK l \in Commands : LoopStep(l)
      BY <2>3
    <3>2. CASE Ends(l)
      <4>1. \A k \in Commands : ~Active(k)'
        BY <2>1, <3>1, <3>2 DEF Ends, LoopStep, Active, Off, TInv, ControlOK, TurnOK
      <4> QED BY <3>2, <4>1 DEF Ends
    <3>3. CASE GoesOn(l)
      BY <2>1, <3>1, <3>3 DEF GoesOn, Moves, LoopStep, Active
    <3> QED BY <3>1, <3>2, <3>3 DEF LoopStep
  <2>4. CASE Quiet
    BY <2>1, <2>4 DEF Quiet, Active
  <2>5. CASE UNCHANGED <<isBusy, turn>>
    BY <2>1, <2>5 DEF Active
  <2> QED BY <1>2, <2>2, <2>3, <2>4, <2>5, StepKinds
<1> QED BY <1>1, <1>2

(***************************************************************************)
(* Until a message overtakes a command that is being handled, exactly one  *)
(* handler runs turns while the runner is busy and none does while it is   *)
(* not, whatever steers, forks, cancels and new options come, at any await *)
(* of the running handler, and whatever fails.                             *)
(***************************************************************************)
THEOREM OneLoopAlways == Spec => []OneLoop
<1>1. Init => OneLoop
  BY DEF Init, RunnerInit, OneLoop, Active, Off
<1> QED BY TypesInvariant, <1>1, OneLoopStep, PTL DEF Spec

\* Nothing has happened that lets the orchestrator believe the wrong thing.
Honest == Without({"overtaken", "misreported"})

\* A handler that runs turns reports on the socket that is open now.
SameSocket == link = "up" /\ Honest => \A l \in Commands : Active(l) => turn[l].ws = socket

LEMMA LatestAppend ==
  ASSUME outbox \in Seq({"busy", "ready"}), NEW x \in {"busy", "ready"},
         outbox' = Append(outbox, x)
  PROVE  Latest' = x
  BY DEF Latest

LEMMA LatestShown ==
  ASSUME outbox \in Seq({"busy", "ready"}), ShowStatus
  PROVE  Latest' = Latest
<1>1. CASE Len(outbox) = 1
  BY <1>1 DEF Latest, ShowStatus
<1>2. CASE Len(outbox) # 1
  <2> DEFINE S == {"busy", "ready"}
             n == Len(outbox)
             rest == Tail(outbox)
  <2>1. outbox \in Seq(S) /\ outbox # <<>>
    BY DEF ShowStatus
  <2> HIDE DEF S
  <2>2. n \in Nat \ {0} /\ Len(rest) = n - 1 /\ Len(<<>>) = 0
    BY <2>1, HeadTailProperties, EmptySeq
  <2>3. \A i \in 1 .. Len(rest) : rest[i] = outbox[i + 1]
    BY <2>1, HeadTailProperties
  <2>4. n # 1
    BY <1>2
  <2>5. Latest = outbox[n] /\ Latest' = IF rest = <<>> THEN shown' ELSE rest[Len(rest)]
    BY <2>1 DEF Latest, ShowStatus
  <2> HIDE DEF n, rest
  <2>6. n - 1 \in 1 .. n - 1 /\ n - 1 # 0 /\ n - 1 + 1 = n
    BY <2>2, <2>4
  <2>7. rest # <<>>
    BY <2>2, <2>6, Zenon
  <2>8. rest[n - 1] = outbox[n]
    BY <2>2, <2>3, <2>6
  <2> QED BY <2>2, <2>5, <2>7, <2>8
<1> QED BY <1>1, <1>2

LEMMA StatusStep ==
  ASSUME TInv, OneLoop, SameSocket, StatusAgrees, [Next]_vars
  PROVE  (SameSocket /\ StatusAgrees)'
<1> USE DEF Honest, Without
<1>1. CASE UNCHANGED vars
  BY <1>1 DEF vars, runnerVars, stateVars, linkVars, Active, SameSocket, StatusAgrees, Latest
<1>2. CASE Next
  <2>0. mishaps \subseteq mishaps' /\ TInv'
    BY <1>2, StepKinds
  <2> SUFFICES ASSUME link' = "up", "overtaken" \notin mishaps', "misreported" \notin mishaps'
               PROVE  /\ \A l \in Commands : Active(l)' => turn'[l].ws = socket'
                      /\ Latest' = IF isBusy' THEN "busy" ELSE "ready"
    BY DEF SameSocket, StatusAgrees
  <2> DEFINE truth == IF isBusy THEN "busy" ELSE "ready"
  <2>1. /\ isBusy <=> \E l \in Commands : Active(l)
        /\ \A l, k \in Commands : Active(l) /\ Active(k) => l = k
    BY <2>0 DEF OneLoop
  <2>2. link = "up" =>
          /\ \A l \in Commands : Active(l) => turn[l].ws = socket
          /\ Latest = truth
    BY <2>0 DEF SameSocket, StatusAgrees
  <2>3. outbox \in Seq({"busy", "ready"}) /\ isBusy \in BOOLEAN
    BY DEF TInv, ControlOK
  <2>4. CASE (\E c \in AllCommands : HandledAs(c)) /\ link = "up" /\ UNCHANGED <<linkVars, shown>>
    <3>1. PICK c \in AllCommands : HandledAs(c)
      BY <2>4
    <3>2. link = "up" /\ socket' = socket /\ shown' = shown
      BY <2>4 DEF linkVars
    <3>3. CASE Notes
      BY <2>2, <2>3, <3>2, <3>3, LatestAppend DEF Notes, Active, Latest
    <3>4. CASE c \in Commands /\ Begins(c)
      BY <2>2, <2>3, <3>2, <3>4, LatestAppend DEF Begins, Active
    <3> QED BY <3>1, <3>3, <3>4 DEF HandledAs
  <2>5. CASE (\E l \in Commands : LoopStep(l)) /\ UNCHANGED <<linkVars, shown>>
    <3>1. PICK l \in Commands : LoopStep(l)
      BY <2>5
    <3>2. link = "up" /\ socket' = socket /\ shown' = shown /\ turn[l].ws = socket /\ isBusy
      BY <2>1, <2>2, <2>5, <3>1 DEF linkVars, LoopStep
    <3>3. CASE Ends(l)
      <4>1. outbox' = Append(outbox, "ready")
        BY <3>2, <3>3 DEF Ends, Report
      <4>2. \A k \in Commands : Active(k)' => turn'[k] = turn[k] /\ Active(k)
        BY <3>3 DEF Ends, Active, Off, TInv, ControlOK, TurnOK
      <4> QED BY <2>2, <2>3, <3>2, <3>3, <4>1, <4>2, LatestAppend DEF Ends
    <3>4. CASE GoesOn(l)
      <4>1. \A k \in Commands : Active(k)' => turn'[k].ws = socket
        BY <2>2, <3>1, <3>2, <3>4 DEF GoesOn, Moves, Active
      <4>2. outbox' = outbox \/ outbox' = Append(outbox, "busy")
        BY <3>2, <3>4 DEF GoesOn, Report
      <4>3. Latest' = "busy"
        BY <2>2, <2>3, <3>2, <4>2, LatestAppend DEF Latest
      <4> QED BY <3>2, <3>4, <4>1, <4>3 DEF GoesOn
    <3> QED BY <3>1, <3>3, <3>4 DEF LoopStep
  <2>6. CASE Quiet /\ UNCHANGED <<linkVars, shown, mishaps>>
    BY <2>2, <2>6 DEF Quiet, linkVars, Active, Latest
  <2>7. CASE LinkStep /\ UNCHANGED <<isBusy, turn>>
    <3>1. CASE ShowStatus
      BY <2>2, <2>3, <2>7, <3>1, LatestShown DEF ShowStatus, linkVars, Active
    <3>2. CASE Disconnect \/ Connect
      BY <3>2 DEF Disconnect, Connect
    <3>3. CASE ConnectDone
      <4>1. outbox' = <<"ready">> /\ ~isBusy
        BY <3>3 DEF ConnectDone, Register
      <4>2. \A l \in Commands : ~Active(l)'
        BY <2>1, <2>7, <4>1 DEF Active
      <4> QED BY <2>7, <4>1, <4>2 DEF Latest
    <3> QED BY <2>7, <3>1, <3>2, <3>3 DEF LinkStep
  <2> QED BY <1>2, <2>4, <2>5, <2>6, <2>7, StepKinds
<1> QED BY <1>1, <1>2

(***************************************************************************)
(* As long as no "ready" was sent by a busy runner and no message overtook *)
(* a command, the last status on its way to the orchestrator is the true   *)
(* one: over every number of reconnections, a socket's loss included.      *)
(***************************************************************************)
THEOREM StatusAgreesAlways == Spec => []StatusAgrees
<1>1. Init => SameSocket /\ StatusAgrees
  BY DEF Init, RunnerInit, SameSocket, StatusAgrees, Active, Off, Latest
<1> QED BY TypesInvariant, OneLoopAlways, <1>1, StatusStep, PTL DEF Spec

(***************************************************************************)
(* A message loop never ends with a steer or a fork pending, but for one   *)
(* that came while it awaited the interrupt of a cancel.                   *)
(***************************************************************************)
THEOREM MessageLoopDrainsAlways == Spec => MessageLoopDrains
<1>1. TInv /\ [Next]_vars =>
        [\A m \in Messages : Active(m) /\ turn[m].pc # "cancelling" /\ turn'[m].pc = "off" =>
           pendingSteer' = None /\ pendingForkAndSteer' = None]_vars
  <2> SUFFICES ASSUME TInv, Next, NEW m \in Messages, Active(m), turn[m].pc # "cancelling",
                      turn'[m].pc = "off"
               PROVE  pendingSteer' = None /\ pendingForkAndSteer' = None
    OBVIOUS
  <2>1. m \in Commands
    OBVIOUS
  <2>2. CASE \E c \in AllCommands : HandledAs(c)
    BY <2>1, <2>2 DEF HandledAs, Begins, Notes, Active
  <2>3. CASE \E l \in Commands : LoopStep(l)
    <3>1. PICK l \in Commands : LoopStep(l)
      BY <2>3
    <3>2. l = m
      BY <2>1, <3>1 DEF LoopStep, Ends, GoesOn, Moves, Active, TInv, ControlOK, TurnOK
    <3> QED BY <3>1, <3>2 DEF LoopStep, Ends, GoesOn, Moves
  <2>4. CASE Quiet \/ UNCHANGED <<isBusy, turn>>
    BY <2>1, <2>4 DEF Quiet, Active
  <2> QED BY <2>2, <2>3, <2>4, StepKinds
<1> QED BY TypesInvariant, <1>1, PTL DEF Spec, MessageLoopDrains
-----------------------------------------------------------------------------
(***************************************************************************)
(* Who reads what: which sessions the handlers and the drains hold, and    *)
(* what is in them.                                                        *)
(***************************************************************************)
Event(t, c) == [type |-> t, of |-> c]

\* Every prompt of a session is answered and read.
Clean(x) == x.prompts = <<>> /\ x.yielded = <<>>

\* The session has only what is left of the turn of c.
Answering(x, c) ==
  \/ Clean(x)
  \/ x.prompts = <<c>> /\ x.yielded \in {<<>>, <<Event("delta", c)>>}
  \/ x.prompts = <<>> /\ x.yielded \in {<<Event("result", c)>>,
                                        <<Event("delta", c), Event("result", c)>>}

\* A handler holds a stream while it reads it, and only then; a session that
\* is closed holds nothing.
ReadsInv ==
  /\ \A l \in Commands : turn[l].reads # None <=> turn[l].pc = "read"
  /\ \A s \in Sdks : ~sdk[s].open => Clean(sdk[s])

\* A drain leaves the foreground session alone, but while the fork is awaited
\* that takes the foreground away from it.
ReadersInv ==
  Without({"overtaken", "forkFailed"}) =>
    /\ \A f \in Forks : session # None /\ background[f] = session =>
         \E l \in Commands : turn[l].pc = "forking" /\ turn[l].cur = f
    /\ \A f, g \in Forks : background[f] # None /\ background[f] = background[g] => f = g
    /\ \A f \in Forks, l \in Commands : background[f] # None => turn[l].reads # background[f]

\* The session the next turn will use holds nothing but the turn that is read.
OwnInv ==
  Without({"overtaken", "forkFailed", "cutShort"}) =>
    /\ session # None /\ ~Clean(sdk[session]) =>
         \E l \in Commands : /\ turn[l].pc = "stream" \/ turn[l].reads = session
                             /\ Answering(sdk[session], turn[l].cur)
    /\ \A l \in Commands : turn[l].pc = "read" => Answering(sdk[turn[l].reads], turn[l].cur)

OthersStay(l) == \A k \in Commands \ {l} : turn'[k] = turn[k]

TurnsStay == \A k \in Commands : /\ turn'[k].pc = turn[k].pc /\ turn'[k].cur = turn[k].cur
                                 /\ turn'[k].reads = turn[k].reads

\* What the steps do to the sessions and to those who hold them.
\* A session is closed, a drain ends, or nothing.
Calms ==
  /\ TurnsStay /\ session' \in {session, None}
  /\ \A f \in Forks : background'[f] \in {background[f], None}
  /\ \A s \in Sdks : sdk'[s] \in {sdk[s], Closed}

Opens(s) == s \in Sdks /\ Unused(s) /\ session' = s /\ sdk' = [sdk EXCEPT ![s] = Opened]

\* The runner preloads a session.
Preloads(s) == TurnsStay /\ background' = background /\ Opens(s)

\* The SDK goes on.
Yields(s) ==
  /\ s \in Sdks /\ TurnsStay /\ UNCHANGED <<background, session>>
  /\ YieldDelta(s) \/ YieldResult(s)

\* A drain takes an event.
Drained(f) ==
  /\ TurnsStay /\ session' = session
  /\ background[f] # None /\ Readable(background[f]) /\ TakeEvent(background[f])
  /\ background' \in {background, [background EXCEPT ![f] = None]}

\* The handler of c begins, and no other runs turns.
Starts(c) ==
  /\ (\A l \in Commands : ~Active(l)) \/ "overtaken" \in mishaps' \/ ~isBusy
  /\ OthersStay(c) /\ UNCHANGED <<background, session, sdk>>
  /\ turn'[c].pc \in {"create", "prompt", "steering"} /\ turn'[c].reads = None

\* The handler of l is between two turns, or ended; a fork may have begun.
Left(l) ==
  /\ OthersStay(l) /\ session' = session
  /\ turn'[l].pc \notin {"stream", "read"} /\ turn'[l].reads = None
  /\ \/ turn'[l].pc # "forking" /\ background' = background
     \/ \E f \in Forks : /\ turn'[l].pc = "forking" /\ turn'[l].cur = f
                         /\ background' = [background EXCEPT ![f] = session]

\* It goes there without an event.
Leaves(l) ==
  /\ Left(l) /\ sdk' = sdk
  /\ \/ turn[l].pc \in {"create", "prompt", "steering", "cancelling"}
     \/ turn[l].pc = "stream" /\ session = None
     \/ turn[l].pc = "read" /\ ~Readable(turn[l].reads) /\ StreamEnded(turn[l].reads)
     \/ /\ turn[l].pc = "forking" /\ turn'[l].pc # "forking"
        /\ background[turn[l].cur] = None \/ "forkFailed" \in mishaps'

Renews(l, s) ==
  /\ OthersStay(l) /\ background' = background /\ Opens(s)
  /\ turn[l].pc \in {"create", "forking"} /\ turn'[l].pc = "prompt" /\ turn'[l].reads = None

Sends(l) ==
  /\ OthersStay(l) /\ UNCHANGED <<background, session>>
  /\ session # None /\ sdk[session].open /\ SendPrompt(session, turn[l].cur)
  /\ turn[l].pc = "prompt" /\ turn'[l].pc = "stream"
  /\ turn'[l].cur = turn[l].cur /\ turn'[l].reads = None

Streams(l) ==
  /\ OthersStay(l) /\ UNCHANGED <<background, session, sdk>>
  /\ session # None
  /\ turn[l].pc = "stream" /\ turn'[l].pc = "read"
  /\ turn'[l].cur = turn[l].cur /\ turn'[l].reads = session

Takes(l) ==
  /\ session' = session
  /\ turn[l].pc = "read" /\ Readable(turn[l].reads) /\ TakeEvent(turn[l].reads)
  /\ \/ Left(l) /\ (NextEvent(turn[l].reads).type = "result" \/ "cutShort" \in mishaps')
     \/ TurnsStay /\ background' = background /\ NextEvent(turn[l].reads).type # "result"

SessionStep ==
  \/ Calms \/ (\E s \in Sdks : Preloads(s) \/ Yields(s)) \/ (\E f \in Forks : Drained(f))
  \/ \E c \in Commands : Starts(c)
  \/ \E l \in Commands : \/ Leaves(l) \/ (\E s \in Sdks : Renews(l, s))
                         \/ Sends(l) \/ Streams(l) \/ Takes(l)

LEMMA NewSessionOpens ==
  ASSUME NewSession
  PROVE  \E s \in Sdks : Opens(s)
<1> DEFINE s == CHOOSE s \in Sdks : Unused(s)
<1>1. s \in Sdks /\ Unused(s)
  BY DEF NewSession
<1>2. session' = s /\ sdk' = [sdk EXCEPT ![session'] = Opened]
  BY DEF NewSession
<1> HIDE DEF s
<1>3. sdk' = [sdk EXCEPT ![s] = Opened]
  BY <1>2
<1> QED
  BY <1>1, <1>2, <1>3 DEF Opens

LEMMA CloseSessionCalms ==
  ASSUME SessionsOK, CloseSession
  PROVE  session' = None /\ \A s \in Sdks : sdk'[s] \in {sdk[s], Closed}
BY DEF CloseSession, CloseSdk, SessionsOK, SdkTypeOK

LEMMA AfterTurnLeaves ==
  ASSUME TInv, NEW l \in Commands, AfterTurn(l), session' = session
  PROVE  Left(l)
<1>1. turn \in [Commands -> Handlers]
  BY DEF TInv, ControlOK, TurnOK
<1>2. CASE turn' = [turn EXCEPT ![l] = Off] /\ background' = background
  BY <1>1, <1>2 DEF Left, OthersStay, Off
<1>3. CASE pendingForkAndSteer # None /\ BeginFork(l, pendingForkAndSteer)
  <2>1. pendingForkAndSteer \in Forks
    BY <1>3 DEF TInv, ControlOK
  <2> QED
    BY <1>1, <1>3, <2>1 DEF Left, OthersStay, BeginFork, Suspended, Off
<1>4. CASE TakeSteer(l, pendingSteer) /\ background' = background
  <2>1. \/ turn' = [turn EXCEPT ![l] = Off]
        \/ turn' = [turn EXCEPT ![l] = Suspended(l, "cancelling", turn[l].cur)]
        \/ turn' = [turn EXCEPT ![l] = Suspended(l, "steering", pendingSteer)]
    BY <1>4 DEF TakeSteer, EndLoop
  <2>2. /\ Suspended(l, "cancelling", turn[l].cur).pc = "cancelling"
        /\ Suspended(l, "cancelling", turn[l].cur).reads = None
        /\ Suspended(l, "steering", pendingSteer).pc = "steering"
        /\ Suspended(l, "steering", pendingSteer).reads = None
    BY DEF Suspended, Off
  <2> QED
    BY <1>1, <1>2, <1>4, <2>1, <2>2 DEF Left, OthersStay
<1> QED
  BY <1>2, <1>3, <1>4 DEF AfterTurn, EndLoop

LEMMA ContinueSession ==
  ASSUME TInv, ReadsInv, NEW l \in Commands, Continue(l)
  PROVE  SessionStep
<1>1. turn \in [Commands -> Handlers] /\ SdkTypeOK /\ session \in Sdks \cup {None}
  BY DEF TInv, ControlOK, TurnOK, SessionsOK
<1>2. \A p \in Steps : Goto(l, p) =>
        /\ OthersStay(l) /\ turn'[l].pc = p /\ turn'[l].cur = turn[l].cur
        /\ turn'[l].reads = turn[l].reads
  BY <1>1 DEF Goto, OthersStay, Handlers
<1>3. turn[l].pc # "read" => turn[l].reads = None
  BY DEF ReadsInv
<1>4. {"create", "prompt", "stream", "read", "steering"} \subseteq Steps
  BY DEF Steps
<1>5. CASE CreateSession(l)
  <2>1. CASE NewSession /\ Goto(l, "prompt") /\ UNCHANGED background
    <3>1. PICK s \in Sdks : Opens(s)
      BY <2>1, NewSessionOpens
    <3>2. Renews(l, s)
      BY <1>2, <1>3, <1>4, <1>5, <2>1, <3>1 DEF Renews, CreateSession
    <3> QED
      BY <3>2 DEF SessionStep
  <2>2. CASE AfterTurn(l) /\ UNCHANGED <<sdk, session>>
    <3>1. Left(l)
      BY <2>2, AfterTurnLeaves
    <3>2. Leaves(l)
      BY <1>5, <2>2, <3>1 DEF Leaves, CreateSession
    <3> QED
      BY <3>2 DEF SessionStep
  <2> QED
    BY <1>5, <2>1, <2>2 DEF CreateSession
<1>6. CASE Prompt(l)
  <2>1. CASE /\ session # None /\ sdk[session].open /\ SendPrompt(session, turn[l].cur)
             /\ Goto(l, "stream") /\ UNCHANGED background
    <3>1. Sends(l)
      BY <1>2, <1>3, <1>4, <1>6, <2>1 DEF Sends, Prompt
    <3> QED
      BY <3>1 DEF SessionStep
  <2>2. CASE AfterTurn(l) /\ UNCHANGED sdk
    <3>1. Left(l) /\ turn[l].pc = "prompt"
      BY <1>6, <2>2, AfterTurnLeaves DEF Prompt
    <3>2. Leaves(l)
      BY <2>2, <3>1 DEF Leaves
    <3> QED
      BY <3>2 DEF SessionStep
  <2> QED
    BY <1>6, <2>1, <2>2 DEF Prompt
<1>7. CASE Stream(l)
  <2>1. CASE session # None
    <3>1. /\ turn' = [turn EXCEPT ![l].pc = "read", ![l].reads = session, ![l].timer = TRUE]
          /\ UNCHANGED <<background, session, sdk>> /\ turn[l].pc = "stream"
      BY <1>7, <2>1 DEF Stream
    <3>2. /\ OthersStay(l) /\ turn'[l].pc = "read" /\ turn'[l].cur = turn[l].cur
          /\ turn'[l].reads = session
      BY <1>1, <3>1 DEF OthersStay, Handlers
    <3>3. Streams(l)
      BY <2>1, <3>1, <3>2 DEF Streams
    <3> QED
      BY <3>3 DEF SessionStep
  <2>2. CASE session = None
    <3>1. AfterTurn(l) /\ UNCHANGED <<sdk, session>> /\ turn[l].pc = "stream"
      BY <1>7, <2>2 DEF Stream
    <3>2. Left(l)
      BY <3>1, AfterTurnLeaves
    <3>3. Leaves(l)
      BY <2>2, <3>1, <3>2 DEF Leaves
    <3> QED
      BY <3>3 DEF SessionStep
  <2> QED
    BY <2>1, <2>2
<1>8. CASE ReadEvent(l)
  <2> DEFINE s == turn[l].reads
  <2>1. turn[l].pc = "read" /\ Readable(s) /\ TakeEvent(s) /\ session' = session
    BY <1>8 DEF ReadEvent
  <2>2. CASE NextEvent(s).type = "result" \/ Interrupted
    <3>1. AfterTurn(l) /\ (NextEvent(s).type # "result" => "cutShort" \in mishaps')
      BY <1>8, <2>2 DEF ReadEvent
    <3>2. Left(l)
      BY <2>1, <3>1, AfterTurnLeaves
    <3>3. Takes(l)
      BY <2>1, <3>1, <3>2 DEF Takes
    <3> QED
      BY <3>3 DEF SessionStep
  <2>3. CASE ~(NextEvent(s).type = "result" \/ Interrupted)
    <3>1. turn' = [turn EXCEPT ![l].timer = FALSE] /\ background' = background
      BY <1>8, <2>3 DEF ReadEvent
    <3>2. TurnsStay
      BY <1>1, <3>1 DEF TurnsStay, Handlers
    <3>3. Takes(l)
      BY <2>1, <2>3, <3>1, <3>2 DEF Takes
    <3> QED
      BY <3>3 DEF SessionStep
  <2> QED
    BY <2>2, <2>3
<1>9. CASE ReadEnd(l)
  <2>1. /\ turn[l].pc = "read" /\ ~Readable(turn[l].reads) /\ StreamEnded(turn[l].reads)
        /\ AfterTurn(l) /\ UNCHANGED <<sdk, session>>
    BY <1>9 DEF ReadEnd
  <2>2. Left(l)
    BY <2>1, AfterTurnLeaves
  <2>3. Leaves(l)
    BY <2>1, <2>2 DEF Leaves
  <2> QED
    BY <2>3 DEF SessionStep
<1>10. CASE ForkDone(l)
  <2>0. turn[l].pc = "forking" /\ background' = background
    BY <1>10 DEF ForkDone
  <2>1. CASE NewSession /\ Goto(l, "prompt")
    <3>1. PICK s \in Sdks : Opens(s)
      BY <2>1, NewSessionOpens
    <3>2. Renews(l, s)
      BY <1>2, <1>3, <1>4, <2>0, <2>1, <3>1 DEF Renews
    <3> QED
      BY <3>2 DEF SessionStep
  <2>2. CASE /\ Goto(l, "steering") /\ UNCHANGED <<sdk, session>>
             /\ background[turn[l].cur] = None \/ "forkFailed" \in mishaps'
    <3>1. Left(l) /\ turn'[l].pc # "forking"
      BY <1>2, <1>3, <1>4, <2>0, <2>2 DEF Left
    <3>2. Leaves(l)
      BY <2>0, <2>2, <3>1 DEF Leaves
    <3> QED
      BY <3>2 DEF SessionStep
  <2> QED
    BY <1>10, <2>1, <2>2 DEF ForkDone, Goto
<1>11. CASE SteerReady(l)
  <2>1. /\ turn[l].pc = "steering" /\ UNCHANGED <<sdk, session, background>>
        /\ turn' = [turn EXCEPT ![l].pc = IF session = None THEN "create" ELSE "prompt",
                                ![l].cur = turn[l].cur]
    BY <1>11 DEF SteerReady, RunTurn, stateVars
  <2>2. OthersStay(l) /\ turn'[l].pc \in {"create", "prompt"} /\ turn'[l].reads = None
    BY <1>1, <1>3, <2>1 DEF OthersStay, Handlers
  <2>3. Leaves(l)
    BY <2>1, <2>2 DEF Leaves, Left
  <2> QED
    BY <2>3 DEF SessionStep
<1>12. CASE CancelDone(l)
  <2>1. /\ turn[l].pc = "cancelling" /\ UNCHANGED <<sdk, session, background>>
        /\ turn' = [turn EXCEPT ![l] = Off]
    BY <1>12 DEF CancelDone, EndLoop
  <2>2. Leaves(l)
    BY <1>1, <2>1 DEF Leaves, Left, OthersStay, Off
  <2> QED
    BY <2>2 DEF SessionStep
<1> QED
  BY <1>5, <1>6, <1>7, <1>8, <1>9, <1>10, <1>11, <1>12 DEF Continue

LEMMA HandleSession ==
  ASSUME TInv, NEW c \in AllCommands, Handle(c)
  PROVE  SessionStep
<1>1. turn \in [Commands -> Handlers] /\ SessionsOK /\ background \in [Forks -> Sdks \cup {None}]
  BY DEF TInv, ControlOK, TurnOK
<1>2. ASSUME NEW p \in {"create", "prompt", "steering"}, c \in Commands, BeginLoop(c, p),
             UNCHANGED <<background, session, sdk>>,
             (\A l \in Commands : ~Active(l)) \/ "overtaken" \in mishaps' \/ ~isBusy
      PROVE  SessionStep
  <2>1. turn' = [turn EXCEPT ![c] = [Off EXCEPT !.pc = p, !.cur = c, !.ws = socket]]
    BY <1>2 DEF BeginLoop
  <2>2. OthersStay(c) /\ turn'[c].pc = p /\ turn'[c].reads = None
    BY <1>1, <1>2, <2>1 DEF OthersStay, Off
  <2>3. Starts(c)
    BY <1>2, <2>2 DEF Starts
  <2> QED
    BY <1>2, <2>3 DEF SessionStep
<1>3. ASSUME turn' = turn, UNCHANGED <<background, session, sdk>>
      PROVE  SessionStep
  <2>1. Calms
    BY <1>3 DEF Calms, TurnsStay
  <2> QED
    BY <2>1 DEF SessionStep
<1>4. FirstStep \in {"create", "prompt", "steering"}
  BY DEF FirstStep
<1>5. CASE HandleMessage(c)
  <2>1. /\ c \in Commands /\ BeginLoop(c, FirstStep) /\ UNCHANGED <<background, session, sdk>>
        /\ (\A l \in Commands : ~Active(l)) \/ "overtaken" \in mishaps' \/ ~isBusy
    BY <1>5 DEF HandleMessage
  <2> QED
    BY <1>2, <1>4, <2>1
<1>6. CASE HandleSteer(c)
  <2>1. c \in Commands /\ UNCHANGED <<background, session, sdk>>
    BY <1>6 DEF HandleSteer
  <2>2. turn' = turn \/ (BeginLoop(c, "steering") /\ ~isBusy)
    BY <1>6 DEF HandleSteer
  <2> QED
    BY <1>2, <1>3, <2>1, <2>2
<1>7. CASE HandleForkAndSteer(c)
  <2>1. c \in Commands /\ UNCHANGED <<background, session, sdk>>
    BY <1>7 DEF HandleForkAndSteer
  <2>2. turn' = turn \/ (BeginLoop(c, FirstStep) /\ ~isBusy)
    BY <1>7 DEF HandleForkAndSteer
  <2> QED
    BY <1>2, <1>3, <1>4, <2>1, <2>2
<1>8. CASE HandleCancel(c)
  BY <1>3, <1>8 DEF HandleCancel
<1>9. CASE HandleCompact(c)
  BY <1>3, <1>9 DEF HandleCompact, stateVars
<1>10. CASE HandleSetOptions(c)
  <2>1. CloseSession /\ turn' = turn /\ background' = background
    BY <1>10 DEF HandleSetOptions
  <2>2. Calms
    BY <1>1, <2>1, CloseSessionCalms DEF Calms, TurnsStay
  <2> QED
    BY <2>2 DEF SessionStep
<1> QED
  BY <1>5, <1>6, <1>7, <1>8, <1>9, <1>10 DEF Handle

\* Every step of the system is one of these, too.
LEMMA SessionKinds ==
  ASSUME TInv, ReadsInv, [Next]_vars
  PROVE  SessionStep
<1>1. /\ turn \in [Commands -> Handlers] /\ SessionsOK /\ background \in [Forks -> Sdks \cup {None}]
      /\ sdk \in [Sdks -> SdkStates]
  BY DEF TInv, ControlOK, TurnOK, SessionsOK, SdkTypeOK
<1>2. ASSUME TurnsStay, session' \in {session, None}, \A f \in Forks : background'[f] \in {background[f], None},
             \A s \in Sdks : sdk'[s] \in {sdk[s], Closed}
      PROVE  SessionStep
  BY <1>2 DEF Calms, SessionStep
<1>3. turn' = turn => TurnsStay
  BY DEF TurnsStay
<1>4. CASE UNCHANGED vars
  BY <1>2, <1>3, <1>4 DEF vars, runnerVars, stateVars
<1>5. CASE \E c \in AllCommands : Handle(c)
  BY <1>5, HandleSession
<1>6. CASE \E l \in Commands : Continue(l)
  BY <1>6, ContinueSession
<1>7. ASSUME NEW l \in Commands, FirstEventTimeout(l)
      PROVE  SessionStep
  <2>1. CloseSession /\ background' = background /\ turn' = [turn EXCEPT ![l].timer = FALSE]
    BY <1>7 DEF FirstEventTimeout
  <2>2. TurnsStay
    BY <1>1, <2>1 DEF TurnsStay, Handlers
  <2> QED
    BY <1>1, <1>2, <2>1, <2>2, CloseSessionCalms
<1>8. ASSUME NEW f \in Forks, DrainEvent(f)
      PROVE  SessionStep
  <2>1. Drained(f)
    BY <1>3, <1>8 DEF DrainEvent, Drained, stateVars
  <2> QED
    BY <2>1 DEF SessionStep
<1>9. ASSUME NEW f \in Forks, DrainEnd(f)
      PROVE  SessionStep
  BY <1>1, <1>2, <1>3, <1>9 DEF DrainEnd, stateVars
<1>10. ASSUME NEW s \in Sdks, SdkStep(s)
       PROVE  SessionStep
  <2>1. Yields(s)
    BY <1>3, <1>10 DEF SdkStep, Yields, stateVars
  <2> QED
    BY <2>1 DEF SessionStep
<1>11. ASSUME NEW s \in Sdks, SdkDies(s)
       PROVE  SessionStep
  BY <1>1, <1>2, <1>3, <1>11 DEF SdkDies, CloseSdk, stateVars
<1>12. CASE ShowStatus \/ Disconnect \/ Connect
  BY <1>2, <1>3, <1>12 DEF ShowStatus, Disconnect, Connect, stateVars
<1>13. CASE ConnectDone
  <2>1. turn' = turn /\ background' = background
    BY <1>13 DEF ConnectDone, Register
  <2>2. CASE UNCHANGED <<sdk, session>>
    BY <1>2, <1>3, <2>1, <2>2
  <2>3. CASE NewSession
    <3>1. PICK s \in Sdks : Opens(s)
      BY <2>3, NewSessionOpens
    <3>2. Preloads(s)
      BY <1>3, <2>1, <3>1 DEF Preloads
    <3> QED
      BY <3>2 DEF SessionStep
  <2> QED
    BY <1>13, <2>2, <2>3 DEF ConnectDone
<1> QED
  BY <1>4, <1>5, <1>6, <1>7, <1>8, <1>9, <1>10, <1>11, <1>12, <1>13 DEF Next, RunnerStep

LEMMA AnsweringFacts ==
  ASSUME NEW x \in SdkStates, NEW c \in Commands, Answering(x, c)
  PROVE  /\ \A i \in DOMAIN x.yielded : x.yielded[i].of = c
         /\ x.yielded = <<>> /\ x.prompts = <<>> => Clean(x)
         /\ x.yielded # <<>> /\ Head(x.yielded).type = "result" =>
              Clean([x EXCEPT !.yielded = Tail(x.yielded)])
         /\ x.yielded # <<>> => Answering([x EXCEPT !.yielded = Tail(x.yielded)], c)
<1> DEFINE D == Event("delta", c)
           R == Event("result", c)
           y == [x EXCEPT !.yielded = Tail(x.yielded)]
<1>1. D.of = c /\ R.of = c /\ R.type = "result" /\ D.type = "delta"
  BY DEF Event
<1>2. y.yielded = Tail(x.yielded) /\ y.prompts = x.prompts
  BY DEF SdkStates
<1> HIDE DEF D, R, y
<1>3. \/ x.prompts = <<>> /\ x.yielded = <<>>
      \/ x.prompts = <<c>> /\ x.yielded = <<>>
      \/ x.prompts = <<c>> /\ x.yielded = <<D>>
      \/ x.prompts = <<>> /\ x.yielded = <<R>>
      \/ x.prompts = <<>> /\ x.yielded = <<D, R>>
  BY DEF Answering, Clean, D, R
<1>4. /\ Tail(<<D>>) = <<>> /\ Tail(<<R>>) = <<>> /\ Tail(<<D, R>>) = <<R>>
      /\ Head(<<D>>) = D /\ Head(<<R>>) = R /\ Head(<<D, R>>) = D
      /\ DOMAIN <<D>> = {1} /\ DOMAIN <<R>> = {1} /\ DOMAIN <<D, R>> = {1, 2}
      /\ <<D>>[1] = D /\ <<R>>[1] = R /\ <<D, R>>[1] = D /\ <<D, R>>[2] = R
      /\ <<D>> # <<>> /\ <<R>> # <<>> /\ <<D, R>> # <<>>
  OBVIOUS
<1>5. \A i \in DOMAIN x.yielded : x.yielded[i].of = c
  BY <1>1, <1>3, <1>4
<1>6. x.yielded # <<>> => Answering(y, c)
  BY <1>2, <1>3, <1>4 DEF Answering, Clean, D, R
<1>7. x.yielded # <<>> /\ Head(x.yielded).type = "result" => Clean(y)
  BY <1>1, <1>2, <1>3, <1>4 DEF Clean
<1> QED
  BY <1>5, <1>6, <1>7 DEF Clean, y

\* The SDK goes on with the turn, and does nothing without a prompt.
LEMMA YieldAnswers ==
  ASSUME SdkTypeOK, NEW s \in Sdks, YieldDelta(s) \/ YieldResult(s)
  PROVE  /\ \A r \in Sdks \ {s} : sdk'[r] = sdk[r]
         /\ ~Clean(sdk[s]) /\ sdk[s].open /\ sdk'[s].open
         /\ \A c \in Commands : Answering(sdk[s], c) => Answering(sdk'[s], c)
<1>1. sdk \in [Sdks -> SdkStates] /\ sdk[s] \in SdkStates
  BY DEF SdkTypeOK
<1>2. sdk[s].open /\ sdk[s].prompts # <<>>
  BY DEF YieldDelta, YieldResult, Working
<1>3. CASE YieldDelta(s)
  <2>1. /\ sdk' = [sdk EXCEPT ![s].yielded = <<Event("delta", Head(sdk[s].prompts))>>]
        /\ sdk[s].yielded = <<>>
    BY <1>3 DEF YieldDelta, Event
  <2>2. /\ sdk'[s].yielded = <<Event("delta", Head(sdk[s].prompts))>> /\ sdk'[s].prompts = sdk[s].prompts
        /\ sdk'[s].open = sdk[s].open /\ \A r \in Sdks \ {s} : sdk'[r] = sdk[r]
    BY <1>1, <2>1 DEF SdkStates
  <2>3. ASSUME NEW c \in Commands, Answering(sdk[s], c)
        PROVE  Answering(sdk'[s], c)
    <3>1. sdk[s].prompts = <<c>>
      BY <1>2, <2>3 DEF Answering, Clean
    <3>2. Head(<<c>>) = c
      OBVIOUS
    <3>3. sdk'[s].prompts = <<c>> /\ sdk'[s].yielded = <<Event("delta", c)>>
      BY <2>2, <3>1, <3>2
    <3> QED
      BY <3>3 DEF Answering
  <2> QED
    BY <1>2, <2>2, <2>3 DEF Clean
<1>4. CASE YieldResult(s)
  <2>1. sdk' = [sdk EXCEPT ![s].yielded = Append(@, Event("result", Head(sdk[s].prompts))),
                           ![s].prompts = Tail(@)]
    BY <1>4 DEF YieldResult, Event
  <2>2. /\ sdk'[s].yielded = Append(sdk[s].yielded, Event("result", Head(sdk[s].prompts)))
        /\ sdk'[s].prompts = Tail(sdk[s].prompts)
        /\ sdk'[s].open = sdk[s].open /\ \A r \in Sdks \ {s} : sdk'[r] = sdk[r]
    BY <1>1, <2>1 DEF SdkStates
  <2>3. ASSUME NEW c \in Commands, Answering(sdk[s], c)
        PROVE  Answering(sdk'[s], c)
    <3> DEFINE D == Event("delta", c)
               R == Event("result", c)
    <3>1. sdk[s].prompts = <<c>> /\ (sdk[s].yielded = <<>> \/ sdk[s].yielded = <<D>>)
      BY <1>2, <2>3 DEF Answering, Clean
    <3> HIDE DEF D, R
    <3>2. /\ Head(<<c>>) = c /\ Tail(<<c>>) = <<>>
          /\ Append(<<>>, R) = <<R>> /\ Append(<<D>>, R) = <<D, R>>
      <4>1. Head(<<c>>) = c /\ Tail(<<c>>) = <<>>
        OBVIOUS
      <4>2. R \in Events /\ D \in Events
        BY DEF R, D, Event, Events, EventTypes
      <4>3. Append(<<>>, R) = <<R>>
        BY <4>2
      <4>4. Append(<<D>>, R) = <<D, R>>
        BY <4>2, AppendPair
      <4> QED
        BY <4>1, <4>3, <4>4
    <3>3. sdk'[s].yielded = Append(sdk[s].yielded, R) /\ sdk'[s].prompts = <<>>
      BY <2>2, <3>1, <3>2 DEF R
    <3>4. sdk'[s].yielded = <<R>> \/ sdk'[s].yielded = <<D, R>>
      BY <3>1, <3>2, <3>3
    <3> QED
      BY <3>3, <3>4 DEF Answering, D, R
  <2> QED
    BY <1>2, <2>2, <2>3 DEF Clean
<1> QED
  BY <1>3, <1>4

LEMMA ClosedClean == Clean(Closed) /\ Clean(Opened)
BY DEF Clean, Closed, Opened

LEMMA TakeFacts ==
  ASSUME SdkTypeOK, NEW s \in Sdks, TakeEvent(s)
  PROVE  /\ sdk'[s] = [sdk[s] EXCEPT !.yielded = Tail(sdk[s].yielded)]
         /\ sdk'[s].open = sdk[s].open
         /\ \A r \in Sdks \ {s} : sdk'[r] = sdk[r]
BY DEF TakeEvent, SdkTypeOK, SdkStates

LEMMA SendFacts ==
  ASSUME SdkTypeOK, NEW s \in Sdks, NEW c \in Commands, sdk[s].open, SendPrompt(s, c)
  PROVE  /\ sdk'[s].prompts = Append(sdk[s].prompts, c) /\ sdk'[s].yielded = sdk[s].yielded
         /\ sdk'[s].open
         /\ \A r \in Sdks \ {s} : sdk'[r] = sdk[r]
BY DEF SendPrompt, SdkTypeOK, SdkStates

LEMMA ReadsStep ==
  ASSUME TInv, ReadsInv, SessionStep
  PROVE  ReadsInv'
<1>1. /\ turn \in [Commands -> Handlers] /\ session \in Sdks \cup {None} /\ SdkTypeOK
      /\ sdk \in [Sdks -> SdkStates] /\ background \in [Forks -> Sdks \cup {None}]
  BY DEF TInv, ControlOK, TurnOK, SessionsOK, SdkTypeOK
<1>2. /\ \A l \in Commands : turn[l].reads # None <=> turn[l].pc = "read"
      /\ \A s \in Sdks : ~sdk[s].open => Clean(sdk[s])
  BY DEF ReadsInv
<1> DEFINE HeldOK == \A l \in Commands : turn'[l].reads # None <=> turn'[l].pc = "read"
           ClosedOK == \A s \in Sdks : ~sdk'[s].open => Clean(sdk'[s])
<1> SUFFICES HeldOK /\ ClosedOK
  BY DEF ReadsInv
<1>3. TurnsStay => HeldOK
  BY <1>2 DEF TurnsStay
<1>4. sdk' = sdk => ClosedOK
  BY <1>2
<1>5. ASSUME NEW s \in Sdks, Opens(s)
      PROVE  ClosedOK
  <2>1. sdk' = [sdk EXCEPT ![s] = Opened]
    BY <1>5 DEF Opens
  <2> QED
    BY <1>1, <1>2, <2>1, ClosedClean
<1>6. ASSUME NEW s \in Sdks, Readable(s), TakeEvent(s)
      PROVE  ClosedOK
  <2>1. sdk[s].open
    BY <1>2, <1>6 DEF Readable, Clean
  <2> QED
    BY <1>1, <1>2, <1>6, <2>1, TakeFacts
<1>7. ASSUME NEW l \in Commands, OthersStay(l), turn'[l].reads # None <=> turn'[l].pc = "read"
      PROVE  HeldOK
  BY <1>2, <1>7 DEF OthersStay
<1>8. CASE Calms
  BY <1>2, <1>3, <1>8, ClosedClean DEF Calms
<1>9. ASSUME NEW s \in Sdks, Preloads(s)
      PROVE  HeldOK /\ ClosedOK
  BY <1>3, <1>5, <1>9 DEF Preloads
<1>10. ASSUME NEW s \in Sdks, Yields(s)
       PROVE  HeldOK /\ ClosedOK
  <2>1. HeldOK
    BY <1>3, <1>10 DEF Yields
  <2>2. sdk'[s].open /\ \A r \in Sdks \ {s} : sdk'[r] = sdk[r]
    BY <1>1, <1>10, YieldAnswers DEF Yields
  <2> QED
    BY <1>2, <2>1, <2>2
<1>11. ASSUME NEW f \in Forks, Drained(f)
       PROVE  HeldOK /\ ClosedOK
  <2>1. background[f] \in Sdks
    BY <1>1, <1>11 DEF Drained
  <2> QED
    BY <1>3, <1>6, <1>11, <2>1 DEF Drained
<1>12. ASSUME NEW c \in Commands, Starts(c)
       PROVE  HeldOK /\ ClosedOK
  BY <1>4, <1>7, <1>12 DEF Starts
<1>13. ASSUME NEW l \in Commands, Leaves(l)
       PROVE  HeldOK /\ ClosedOK
  BY <1>4, <1>7, <1>13 DEF Leaves, Left
<1>14. ASSUME NEW l \in Commands, NEW s \in Sdks, Renews(l, s)
       PROVE  HeldOK /\ ClosedOK
  BY <1>5, <1>7, <1>14 DEF Renews
<1>15. ASSUME NEW l \in Commands, Streams(l)
       PROVE  HeldOK /\ ClosedOK
  BY <1>4, <1>7, <1>15 DEF Streams
<1>16. ASSUME NEW l \in Commands, Takes(l)
       PROVE  HeldOK /\ ClosedOK
  <2>1. turn[l].reads \in Sdks
    BY <1>1, <1>2, <1>16 DEF Takes, Handlers
  <2>2. ClosedOK
    BY <1>6, <1>16, <2>1 DEF Takes
  <2>3. HeldOK
    BY <1>3, <1>7, <1>16 DEF Takes, Left
  <2> QED
    BY <2>2, <2>3
<1>17. ASSUME NEW l \in Commands, Sends(l)
       PROVE  HeldOK /\ ClosedOK
  <2>1. HeldOK
    BY <1>7, <1>17 DEF Sends
  <2>2. sdk'[session].open /\ \A r \in Sdks \ {session} : sdk'[r] = sdk[r]
    <3>1. turn[l].cur \in Commands
      BY <1>17 DEF TInv, ControlOK, TurnOK, Active, Sends
    <3> QED
      BY <1>1, <1>17, <3>1, SendFacts DEF Sends
  <2> QED
    BY <1>1, <1>2, <2>1, <2>2 DEF Sends
<1> QED
  BY <1>8, <1>9, <1>10, <1>11, <1>12, <1>13, <1>14, <1>15, <1>16, <1>17 DEF SessionStep

\* Nothing is taken back that has got the turns mixed up.
Recorded == mishaps \subseteq mishaps'

LEMMA ReadersStep ==
  ASSUME TInv, ReadsInv, OneLoop, ReadersInv, SessionStep, Recorded
  PROVE  ReadersInv'
<1>1. /\ turn \in [Commands -> Handlers] /\ background \in [Forks -> Sdks \cup {None}]
      /\ session \in Sdks \cup {None}
  BY DEF TInv, ControlOK, TurnOK, SessionsOK
<1> DEFINE Held == \A f \in Forks : session' # None /\ background'[f] = session' =>
                     \E l \in Commands : turn'[l].pc = "forking" /\ turn'[l].cur = f
           Apart == \A f, g \in Forks : background'[f] # None /\ background'[f] = background'[g] => f = g
           Alien == \A f \in Forks, l \in Commands : background'[f] # None => turn'[l].reads # background'[f]
           Good == Held /\ Apart /\ Alien
<1> SUFFICES ASSUME "overtaken" \notin mishaps', "forkFailed" \notin mishaps'
             PROVE  Good
  BY DEF ReadersInv, Without
<1>2. "overtaken" \notin mishaps /\ "forkFailed" \notin mishaps
  BY DEF Recorded
<1>3. /\ isBusy <=> \E l \in Commands : Active(l)
      /\ \A l, k \in Commands : Active(l) /\ Active(k) => l = k
  BY <1>2 DEF OneLoop, Without
<1>4. /\ \A f \in Forks : session # None /\ background[f] = session =>
           \E l \in Commands : turn[l].pc = "forking" /\ turn[l].cur = f
      /\ \A f, g \in Forks : background[f] # None /\ background[f] = background[g] => f = g
      /\ \A f \in Forks, l \in Commands : background[f] # None => turn[l].reads # background[f]
  BY <1>2 DEF ReadersInv, Without
<1>5. \A l \in Commands : turn[l].reads # None <=> turn[l].pc = "read"
  BY DEF ReadsInv
<1>6. ASSUME TurnsStay, session' \in {session, None}, \A f \in Forks : background'[f] \in {background[f], None}
      PROVE  Good
  <2>1. Held
    BY <1>4, <1>6 DEF TurnsStay
  <2>2. Apart
    BY <1>4, <1>6
  <2>3. Alien
    BY <1>4, <1>6 DEF TurnsStay
  <2> QED
    BY <2>1, <2>2, <2>3
<1>7. ASSUME NEW s \in Sdks, Opens(s), background' = background,
             \A l \in Commands : turn'[l].reads \in {turn[l].reads, None}
      PROVE  Good
  <2>1. Held
    BY <1>7 DEF Opens, Unused
  <2>2. Apart
    BY <1>4, <1>7
  <2>3. Alien
    BY <1>4, <1>7
  <2> QED
    BY <2>1, <2>2, <2>3
<1>8. ASSUME NEW l \in Commands, OthersStay(l), session' = session, background' = background,
             turn'[l].reads = None, turn'[l].pc # "forking",
             turn[l].pc = "forking" => background[turn[l].cur] = None
      PROVE  Good
  <2>1. Held
    BY <1>4, <1>8 DEF OthersStay
  <2>2. Apart
    BY <1>4, <1>8
  <2>3. Alien
    BY <1>4, <1>8 DEF OthersStay
  <2> QED
    BY <2>1, <2>2, <2>3
\* A fork begins: no other is awaited, and nobody else reads.
<1>9. ASSUME NEW l \in Commands, Active(l), turn[l].pc # "forking", NEW f \in Forks, OthersStay(l),
             session' = session, background' = [background EXCEPT ![f] = session],
             turn'[l].pc = "forking", turn'[l].cur = f, turn'[l].reads = None
      PROVE  Good
  <2>1. \A g \in Forks : session # None => background[g] # session
    BY <1>3, <1>4, <1>9 DEF Active
  <2>2. background'[f] = session /\ \A g \in Forks \ {f} : background'[g] = background[g]
    BY <1>1, <1>9
  <2>3. \A k \in Commands : turn'[k].reads = None
    BY <1>3, <1>5, <1>9 DEF OthersStay, Active
  <2>4. Held
    BY <1>9, <2>1, <2>2
  <2>5. Apart
    BY <1>4, <2>1, <2>2
  <2>6. Alien
    BY <2>3
  <2> QED
    BY <2>4, <2>5, <2>6
<1>10. ASSUME NEW l \in Commands, Active(l), Left(l),
              turn[l].pc = "forking" => /\ turn'[l].pc # "forking"
                                        /\ background[turn[l].cur] = None
       PROVE  Good
  <2>1. CASE turn'[l].pc # "forking" /\ background' = background
    BY <1>8, <1>10, <2>1 DEF Left
  <2>2. ASSUME NEW f \in Forks, turn'[l].pc = "forking", turn'[l].cur = f,
               background' = [background EXCEPT ![f] = session]
        PROVE  Good
    BY <1>9, <1>10, <2>2 DEF Left
  <2> QED
    BY <1>10, <2>1, <2>2 DEF Left
<1>11. CASE Calms
  BY <1>6, <1>11 DEF Calms
<1>12. ASSUME NEW s \in Sdks, Preloads(s)
       PROVE  Good
  BY <1>7, <1>12 DEF Preloads, TurnsStay
<1>13. ASSUME NEW s \in Sdks, Yields(s)
       PROVE  Good
  BY <1>6, <1>13 DEF Yields
<1>14. ASSUME NEW f \in Forks, Drained(f)
       PROVE  Good
  <2>1. \A g \in Forks : background'[g] \in {background[g], None}
    BY <1>1, <1>14 DEF Drained
  <2> QED
    BY <1>6, <1>14, <2>1 DEF Drained
<1>15. ASSUME NEW c \in Commands, Starts(c)
       PROVE  Good
  <2>1. \A l \in Commands : ~Active(l)
    BY <1>3, <1>15 DEF Starts
  <2> QED
    BY <1>8, <1>15, <2>1 DEF Starts, Active
<1>16. ASSUME NEW l \in Commands, Leaves(l)
       PROVE  Good
  BY <1>10, <1>16 DEF Leaves, Active
<1>17. ASSUME NEW l \in Commands, NEW s \in Sdks, Renews(l, s)
       PROVE  Good
  BY <1>7, <1>17 DEF Renews, OthersStay
<1>18. ASSUME NEW l \in Commands, Sends(l)
       PROVE  Good
  BY <1>8, <1>18 DEF Sends
<1>19. ASSUME NEW l \in Commands, Streams(l)
       PROVE  Good
  <2>1. \A f \in Forks : background[f] # session
    BY <1>3, <1>4, <1>19 DEF Streams, Active
  <2>2. Held /\ Apart
    BY <1>4, <1>19, <2>1 DEF Streams
  <2>3. Alien
    BY <1>4, <1>19, <2>1 DEF Streams, OthersStay
  <2> QED
    BY <2>2, <2>3
<1>20. ASSUME NEW l \in Commands, Takes(l)
       PROVE  Good
  BY <1>6, <1>10, <1>20 DEF Takes, Active
<1> HIDE DEF Good
<1> QED
  BY <1>11, <1>12, <1>13, <1>14, <1>15, <1>16, <1>17, <1>18, <1>19, <1>20 DEF SessionStep

LEMMA OwnStep ==
  ASSUME TInv, ReadsInv, OneLoop, ReadersInv, OwnInv, SessionStep, Recorded
  PROVE  OwnInv'
<1>1. /\ turn \in [Commands -> Handlers] /\ background \in [Forks -> Sdks \cup {None}]
      /\ session \in Sdks \cup {None} /\ SdkTypeOK /\ sdk \in [Sdks -> SdkStates]
      /\ \A l \in Commands : Active(l) => turn[l].cur \in Commands
  BY DEF TInv, ControlOK, TurnOK, SessionsOK, SdkTypeOK
<1> DEFINE Next1 == session' # None /\ ~Clean(sdk'[session']) =>
                      \E l \in Commands : /\ turn'[l].pc = "stream" \/ turn'[l].reads = session'
                                          /\ Answering(sdk'[session'], turn'[l].cur)
           Read1 == \A l \in Commands : turn'[l].pc = "read" => Answering(sdk'[turn'[l].reads], turn'[l].cur)
           Good == Next1 /\ Read1
<1> SUFFICES ASSUME "overtaken" \notin mishaps', "forkFailed" \notin mishaps', "cutShort" \notin mishaps'
             PROVE  Good
  BY DEF OwnInv, Without
<1>2. "overtaken" \notin mishaps /\ "forkFailed" \notin mishaps /\ "cutShort" \notin mishaps
  BY DEF Recorded
<1>3. /\ isBusy <=> \E l \in Commands : Active(l)
      /\ \A l, k \in Commands : Active(l) /\ Active(k) => l = k
  BY <1>2 DEF OneLoop, Without
<1>4. /\ \A f \in Forks : session # None /\ background[f] = session =>
           \E l \in Commands : turn[l].pc = "forking" /\ turn[l].cur = f
      /\ \A f \in Forks, l \in Commands : background[f] # None => turn[l].reads # background[f]
  BY <1>2 DEF ReadersInv, Without
<1>5. /\ \A l \in Commands : turn[l].reads # None <=> turn[l].pc = "read"
      /\ \A s \in Sdks : ~sdk[s].open => Clean(sdk[s])
  BY DEF ReadsInv
<1>6. /\ session # None /\ ~Clean(sdk[session]) =>
           \E l \in Commands : /\ turn[l].pc = "stream" \/ turn[l].reads = session
                               /\ Answering(sdk[session], turn[l].cur)
      /\ \A l \in Commands : turn[l].pc = "read" => Answering(sdk[turn[l].reads], turn[l].cur)
  BY <1>2 DEF OwnInv, Without
\* Only the one handler that runs can be in its stream.
<1>7. ASSUME NEW l \in Commands, Active(l), session # None, ~Clean(sdk[session])
      PROVE  /\ turn[l].pc = "stream" \/ (turn[l].pc = "read" /\ turn[l].reads = session)
             /\ Answering(sdk[session], turn[l].cur)
  BY <1>3, <1>5, <1>6, <1>7 DEF Active
<1>8. \A l, k \in Commands : Active(l) /\ turn[k].pc = "read" => k = l
  BY <1>3 DEF Active
<1>9. \A l \in Commands : turn[l].pc = "read" => turn[l].reads \in Sdks
  BY <1>1, <1>5 DEF Handlers
<1>10. CASE Calms
  <2>1. Next1
    BY <1>1, <1>6, <1>10, ClosedClean DEF Calms, TurnsStay
  <2>2. Read1
    <3> SUFFICES ASSUME NEW l \in Commands, turn'[l].pc = "read"
                 PROVE  Answering(sdk'[turn'[l].reads], turn'[l].cur)
      OBVIOUS
    <3>1. turn[l].pc = "read" /\ turn'[l].reads = turn[l].reads /\ turn'[l].cur = turn[l].cur
      BY <1>10 DEF Calms, TurnsStay
    <3>2. sdk'[turn[l].reads] \in {sdk[turn[l].reads], Closed}
      BY <1>9, <1>10, <3>1 DEF Calms
    <3>3. Answering(Closed, turn[l].cur)
      BY ClosedClean DEF Answering
    <3> QED
      BY <1>6, <3>1, <3>2, <3>3
  <2> QED
    BY <2>1, <2>2
<1>11. ASSUME NEW s \in Sdks, Opens(s),
              \A l \in Commands : turn'[l].pc = "read" => turn'[l] = turn[l] \/ TurnsStay
       PROVE  Good
  <2>1. session' = s /\ sdk'[s] = Opened /\ \A r \in Sdks \ {s} : sdk'[r] = sdk[r]
    BY <1>1, <1>11 DEF Opens
  <2>2. \A l \in Commands : turn[l].reads # s
    BY <1>11 DEF Opens, Unused
  <2>3. Next1
    BY <2>1, ClosedClean
  <2>4. Read1
    BY <1>6, <1>9, <1>11, <2>1, <2>2 DEF TurnsStay
  <2> QED
    BY <2>3, <2>4
<1>12. ASSUME NEW s \in Sdks, Yields(s)
       PROVE  Good
  <2>1. /\ \A r \in Sdks \ {s} : sdk'[r] = sdk[r]
        /\ ~Clean(sdk[s])
        /\ \A c \in Commands : Answering(sdk[s], c) => Answering(sdk'[s], c)
    BY <1>1, <1>12, YieldAnswers DEF Yields
  <2>2. TurnsStay /\ session' = session
    BY <1>12 DEF Yields
  <2>3. Next1
    <3> SUFFICES ASSUME session # None, ~Clean(sdk'[session])
                 PROVE  \E l \in Commands : /\ turn'[l].pc = "stream" \/ turn'[l].reads = session
                                            /\ Answering(sdk'[session], turn'[l].cur)
      BY <2>2
    <3>1. ~Clean(sdk[session])
      BY <1>1, <2>1
    <3>2. PICK l \in Commands : /\ turn[l].pc = "stream" \/ turn[l].reads = session
                                /\ Answering(sdk[session], turn[l].cur)
      BY <1>6, <3>1
    <3>3. turn[l].cur \in Commands
      BY <1>1, <1>5, <3>2 DEF Active
    <3>4. Answering(sdk'[session], turn[l].cur)
      BY <1>1, <2>1, <3>2, <3>3
    <3> QED
      BY <2>2, <3>2, <3>4 DEF TurnsStay
  <2>4. Read1
    <3> SUFFICES ASSUME NEW l \in Commands, turn'[l].pc = "read"
                 PROVE  Answering(sdk'[turn'[l].reads], turn'[l].cur)
      OBVIOUS
    <3>1. turn[l].pc = "read" /\ turn'[l].reads = turn[l].reads /\ turn'[l].cur = turn[l].cur
      BY <2>2 DEF TurnsStay
    <3>2. turn[l].cur \in Commands /\ turn[l].reads \in Sdks
      BY <1>1, <1>9, <3>1 DEF Active
    <3> QED
      BY <1>6, <2>1, <3>1, <3>2
  <2> QED
    BY <2>3, <2>4
\* A drain takes nothing of the foreground's: while a fork is awaited nobody
\* has prompted the session.
<1>13. ASSUME NEW f \in Forks, Drained(f)
       PROVE  Good
  <2> DEFINE b == background[f]
  <2>1. b # None /\ b \in Sdks /\ Readable(b) /\ TakeEvent(b) /\ TurnsStay /\ session' = session
    BY <1>1, <1>13 DEF Drained
  <2>2. \A r \in Sdks \ {b} : sdk'[r] = sdk[r]
    BY <1>1, <2>1, TakeFacts
  <2>3. session # b
    <3> SUFFICES ASSUME session = b
                 PROVE  FALSE
      OBVIOUS
    <3>1. PICK k \in Commands : turn[k].pc = "forking"
      BY <1>4, <2>1
    <3>2. ~Clean(sdk[session])
      BY <2>1 DEF Readable, Clean
    <3> QED
      BY <1>7, <2>1, <3>1, <3>2 DEF Active
  <2>4. Next1
    BY <1>1, <1>6, <2>1, <2>2, <2>3 DEF TurnsStay
  <2>5. Read1
    BY <1>4, <1>6, <1>9, <2>1, <2>2 DEF TurnsStay
  <2> QED
    BY <2>4, <2>5
<1>14. ASSUME NEW c \in Commands, Starts(c)
       PROVE  Good
  <2>1. \A l \in Commands : ~Active(l)
    BY <1>3, <1>14 DEF Starts
  <2>2. \A l \in Commands : turn'[l].pc # "read"
    BY <1>14, <2>1 DEF Starts, OthersStay, Active
  <2>3. session # None => Clean(sdk[session])
    BY <1>5, <1>6, <2>1 DEF Active
  <2> QED
    BY <1>14, <2>2, <2>3 DEF Starts
<1>15. ASSUME NEW l \in Commands, Leaves(l)
       PROVE  Good
  <2>1. Active(l) /\ Left(l) /\ sdk' = sdk
    BY <1>15 DEF Leaves, Active
  <2>2. \A k \in Commands : turn'[k].pc # "read"
    BY <1>8, <2>1 DEF Left, OthersStay
  <2>3. session # None => Clean(sdk[session])
    <3> SUFFICES ASSUME session # None, ~Clean(sdk[session])
                 PROVE  FALSE
      OBVIOUS
    <3>1. turn[l].pc = "stream" \/ (turn[l].pc = "read" /\ turn[l].reads = session)
      BY <1>7, <2>1
    <3>2. turn[l].pc = "read" /\ turn[l].reads = session /\ ~sdk[session].open
      BY <1>15, <3>1 DEF Leaves, StreamEnded
    <3> QED
      BY <1>1, <1>5, <3>2
  <2> QED
    BY <2>1, <2>2, <2>3 DEF Left
<1>16. ASSUME NEW l \in Commands, Sends(l)
       PROVE  Good
  <2>1. Active(l) /\ session \in Sdks /\ turn[l].cur \in Commands /\ turn[l].pc = "prompt"
    BY <1>1, <1>16 DEF Sends, Active
  <2>2. Clean(sdk[session])
    BY <1>7, <1>16, <2>1 DEF Sends
  <2>3. sdk'[session].prompts = Append(<<>>, turn[l].cur) /\ sdk'[session].yielded = <<>>
    BY <1>1, <1>16, <2>1, <2>2, SendFacts DEF Sends, Clean
  <2>4. Append(<<>>, turn[l].cur) = <<turn[l].cur>>
    BY <2>1
  <2>5. Answering(sdk'[session], turn[l].cur)
    BY <2>3, <2>4 DEF Answering
  <2>6. Next1
    BY <1>16, <2>5 DEF Sends
  <2>7. \A k \in Commands : turn'[k].pc # "read"
    BY <1>8, <1>16, <2>1 DEF Sends, OthersStay
  <2> QED
    BY <2>6, <2>7
<1>17. ASSUME NEW l \in Commands, Streams(l)
       PROVE  Good
  <2>1. Active(l) /\ session # None /\ turn[l].pc = "stream" /\ sdk' = sdk /\ session' = session
    BY <1>17 DEF Streams, Active
  <2>2. Answering(sdk[session], turn[l].cur)
    BY <1>7, <2>1 DEF Answering
  <2>3. turn'[l].reads = session /\ turn'[l].cur = turn[l].cur
    BY <1>17 DEF Streams
  <2>4. Next1
    BY <2>1, <2>2, <2>3
  <2>5. \A k \in Commands : turn'[k].pc = "read" => k = l
    BY <1>8, <1>17, <2>1 DEF Streams, OthersStay
  <2>6. Read1
    BY <2>1, <2>2, <2>3, <2>5
  <2> QED
    BY <2>4, <2>6
<1>18. ASSUME NEW l \in Commands, Takes(l)
       PROVE  Good
  <2> DEFINE s == turn[l].reads
             c == turn[l].cur
  <2>1. /\ Active(l) /\ turn[l].pc = "read" /\ s \in Sdks /\ c \in Commands /\ session' = session
        /\ Readable(s) /\ TakeEvent(s)
    BY <1>1, <1>9, <1>18 DEF Takes, Active
  <2>2. Answering(sdk[s], c) /\ sdk[s] \in SdkStates
    BY <1>1, <1>6, <2>1
  <2>3. /\ sdk'[s] = [sdk[s] EXCEPT !.yielded = Tail(sdk[s].yielded)]
        /\ \A r \in Sdks \ {s} : sdk'[r] = sdk[r]
    BY <1>1, <2>1, TakeFacts
  <2>4. /\ Answering(sdk'[s], c)
        /\ NextEvent(s).type = "result" => Clean(sdk'[s])
    <3>1. /\ sdk[s].yielded # <<>> /\ Head(sdk[s].yielded).type = "result" =>
               Clean([sdk[s] EXCEPT !.yielded = Tail(sdk[s].yielded)])
          /\ sdk[s].yielded # <<>> => Answering([sdk[s] EXCEPT !.yielded = Tail(sdk[s].yielded)], c)
      BY <2>1, <2>2, AnsweringFacts, Zenon
    <3> QED
      BY <2>1, <2>3, <3>1, Zenon DEF Readable, NextEvent
  <2>5. session # None /\ session # s => Clean(sdk'[session])
    BY <1>1, <1>7, <2>1, <2>3
  <2>6. \A k \in Commands : turn[k].pc = "read" => k = l
    BY <1>8, <2>1
  <2>7. CASE TurnsStay
    <3>1. turn'[l].reads = s /\ turn'[l].cur = c
      BY <2>7 DEF TurnsStay
    <3>2. Next1
      BY <2>1, <2>4, <2>5, <3>1
    <3>3. Read1
      BY <2>4, <2>6, <2>7, <3>1 DEF TurnsStay
    <3> QED
      BY <3>2, <3>3
  <2>8. CASE Left(l) /\ NextEvent(s).type = "result"
    <3>1. Read1
      BY <2>6, <2>8 DEF Left, OthersStay
    <3>2. Next1
      BY <2>1, <2>4, <2>5, <2>8
    <3> QED
      BY <3>1, <3>2
  <2> QED
    BY <1>18, <2>7, <2>8 DEF Takes
<1>19. ASSUME NEW s \in Sdks, Preloads(s)
       PROVE  Good
  BY <1>11, <1>19 DEF Preloads
<1>20. ASSUME NEW l \in Commands, NEW s \in Sdks, Renews(l, s)
       PROVE  Good
  BY <1>11, <1>20 DEF Renews, OthersStay
<1> HIDE DEF Good
<1> QED
  BY <1>10, <1>12, <1>13, <1>14, <1>15, <1>16, <1>17, <1>18, <1>19, <1>20 DEF SessionStep

LEMMA InitReads == Init => ReadsInv /\ ReadersInv /\ OwnInv
<1> SUFFICES ASSUME Init PROVE ReadsInv /\ ReadersInv /\ OwnInv
  OBVIOUS
<1>1. /\ \A l \in Commands : turn[l] = Off
      /\ \A f \in Forks : background[f] = None
  BY DEF Init, RunnerInit
<1>2. \A s \in Sdks : sdk[s] \in {Closed, Opened}
  BY DEF Init, RunnerInit
<1>3. session \in Sdks \cup {None}
  BY InitTypes DEF TInv, SessionsOK
<1>4. \A s \in Sdks : Clean(sdk[s])
  BY <1>2, ClosedClean
<1>5. Off.pc = "off" /\ Off.reads = None
  BY DEF Off
<1>6. ReadsInv
  BY <1>1, <1>4, <1>5 DEF ReadsInv
<1>7. ReadersInv
  BY <1>1, <1>5 DEF ReadersInv
<1>8. OwnInv
  BY <1>1, <1>3, <1>4, <1>5 DEF OwnInv
<1> QED
  BY <1>6, <1>7, <1>8

LEMMA ReadsInvariant == Spec => [](ReadsInv /\ ReadersInv /\ OwnInv)
<1> DEFINE I == ReadsInv /\ ReadersInv /\ OwnInv
<1>1. TInv /\ OneLoop /\ I /\ [Next]_vars => I'
  <2> SUFFICES ASSUME TInv, OneLoop, ReadsInv, ReadersInv, OwnInv, [Next]_vars
               PROVE  ReadsInv' /\ ReadersInv' /\ OwnInv'
    OBVIOUS
  <2>1. SessionStep
    BY SessionKinds
  <2>2. Recorded
    BY StepKinds DEF Recorded, vars, runnerVars
  <2> QED
    BY <2>1, <2>2, ReadsStep, ReadersStep, OwnStep
<1>2. Init => I
  BY InitReads
<1> QED
  BY TypesInvariant, OneLoopAlways, <1>1, <1>2, PTL DEF Spec

(***************************************************************************)
(* drainBackground() begins to read the session the fork leaves, while the *)
(* handler goes on with the forked one: no stream ever has two readers     *)
(* that take each other's events, whatever commands come, closes, dies or  *)
(* breaks, unless a message overtook a turn or the fork itself failed.     *)
(***************************************************************************)
THEOREM OneReaderAlways == Spec => []OneReader
<1>1. ReadsInv /\ ReadersInv /\ OneLoop => OneReader
  <2> SUFFICES ASSUME ReadsInv, ReadersInv, OneLoop, "overtaken" \notin mishaps,
                      "forkFailed" \notin mishaps, NEW s \in Sdks
               PROVE  /\ \A l, k \in Readers(s) : l = k
                      /\ \A f, g \in Drains(s) : f = g
                      /\ Readers(s) = {} \/ Drains(s) = {}
    BY DEF OneReader, Without
  <2>1. \A l, k \in Commands : Active(l) /\ Active(k) => l = k
    BY DEF OneLoop, Without
  <2>2. \A l \in Commands : turn[l].reads = s => Active(l)
    BY DEF ReadsInv, Active
  <2>3. /\ \A f, g \in Forks : background[f] # None /\ background[f] = background[g] => f = g
        /\ \A f \in Forks, l \in Commands : background[f] # None => turn[l].reads # background[f]
    BY DEF ReadersInv, Without
  <2>4. s # None
    OBVIOUS
  <2> QED
    BY <2>1, <2>2, <2>3, <2>4 DEF Readers, Drains
<1> QED
  BY ReadsInvariant, OneLoopAlways, <1>1, PTL

(***************************************************************************)
(* A turn is given the answer to its own prompt: what is left unread in a  *)
(* session when it is prompted again could only be the rest of a turn that *)
(* was cut short.  The session a drain still empties is never prompted.    *)
(***************************************************************************)
THEOREM OwnEventsAlways == Spec => []OwnEvents
<1>1. TInv /\ ReadsInv /\ OwnInv => OwnEvents
  <2> SUFFICES ASSUME TInv, ReadsInv, OwnInv, Without({"overtaken", "forkFailed", "cutShort"}),
                      NEW l \in Commands, turn[l].pc = "read"
               PROVE  \A i \in DOMAIN sdk[turn[l].reads].yielded :
                        sdk[turn[l].reads].yielded[i].of = turn[l].cur
    BY DEF OwnEvents
  <2>1. turn[l] \in Handlers /\ turn[l].cur \in Commands /\ sdk \in [Sdks -> SdkStates]
    BY DEF TInv, ControlOK, TurnOK, SessionsOK, SdkTypeOK, Active
  <2>2. turn[l].reads \in Sdks
    BY <2>1 DEF ReadsInv, Handlers
  <2>3. Answering(sdk[turn[l].reads], turn[l].cur) /\ sdk[turn[l].reads] \in SdkStates
    BY <2>1, <2>2 DEF OwnInv
  <2> QED
    BY <2>1, <2>3, AnsweringFacts, Zenon
<1> QED
  BY TypesInvariant, ReadsInvariant, <1>1, PTL
=============================================================================
