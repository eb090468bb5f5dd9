----------------------------- MODULE RelayProofs -----------------------------
(***************************************************************************)
(* Theorems about Relay, for any clients, messages, queries, compactions,  *)
(* faults and number of reconnections: types, listeners and what clients   *)
(* are told first, then what is under way on the socket.                   *)
(***************************************************************************)
EXTENDS Relay, SequenceTheorems, TLAPS

\* A socket that breaks can be replaced: LinkBreaks looks at the bound that
\* Reconnect has to keep.
Replaceable == link \in {"closing", "down"} /\ stop = "no" => socket < MaxSockets

TypeInv == TypeOK /\ Replaceable
-----------------------------------------------------------------------------
LEMMA OrderTypes ==
  /\ \A m \in Messages : [type |-> "message", of |-> m] \in Orders
  /\ \A q \in Queries : [type |-> "query", of |-> q] \in Orders
  /\ \A k \in Compacts \cup {"auto"} : [type |-> "compact", of |-> k] \in Orders
  /\ \A o \in Orders : /\ o.type = "message" => o.of \in Messages
                       /\ o.type = "query" => o.of \in Queries
BY DEF Orders

LEMMA FrameTypes ==
  /\ \A s \in Statuses : Status(s) \in Frames
  /\ \A m \in Messages : [type |-> "result", of |-> m] \in Frames
  /\ \A b \in BOOLEAN : [type |-> "context", high |-> b] \in Frames
  /\ \A q \in Queries : [type |-> "answer", of |-> q] \in Frames
  /\ \A f \in Frames : /\ f.type = "status" => f.status \in Statuses
                       /\ f.type = "result" => f.of \in Messages
                       /\ f.type = "context" => f.high \in BOOLEAN
                       /\ f.type = "answer" => f.of \in Queries
BY DEF Frames, Status

LEMMA ForwardType ==
  ASSUME downlink \in Seq(Orders), NEW o \in Orders, Forward(o)
  PROVE  downlink' \in Seq(Orders)
BY AppendProperties DEF Forward

LEMMA TakeType ==
  ASSUME downlink \in Seq(Orders), NEW type, Take(type)
  PROVE  Taken \in Orders /\ Taken.type = type /\ downlink' \in Seq(Orders)
BY HeadTailProperties DEF Take, Taken

LEMMA HearType ==
  ASSUME uplink \in Seq(Frames), NEW type, Hear(type)
  PROVE  Head(uplink) \in Frames /\ Head(uplink).type = type /\ uplink' \in Seq(Frames)
BY HeadTailProperties DEF Hear

LEMMA SpeakType ==
  ASSUME uplink \in Seq(Frames), NEW by, NEW frames \in Seq(Frames), Speak(by, frames)
  PROVE  uplink' \in Seq(Frames)
BY ConcatProperties DEF Speak

LEMMA TellType ==
  ASSUME told \in [Clients -> Statuses \cup {"nothing"}], NEW s \in Statuses, Tell(s)
  PROVE  told' \in [Clients -> Statuses \cup {"nothing"}]
BY DEF Tell
-----------------------------------------------------------------------------
LEMMA TypeInit == Init => TypeOK
<1> SUFFICES ASSUME Init PROVE TypeOK
  OBVIOUS
<1>1. downlink \in Seq(Orders) /\ uplink \in Seq(Frames)
  BY DEF Init
<1>2. 0 \in 0 .. MaxSockets
  BY RelayAssumption
<1>3. row \in Statuses /\ socket \in 0 .. MaxSockets
  BY <1>2 DEF Init, Statuses
<1>4. told \in [Clients -> Statuses \cup {"nothing"}]
  BY DEF Init
<1> QED
  BY <1>1, <1>3, <1>4 DEF Init, TypeOK, PostStates

LEMMA TypeClient ==
  ASSUME TypeOK, NEW c \in Clients, Subscribe(c) \/ Unsubscribe(c) \/ ClientCloses(c)
  PROVE  TypeOK'
<1>1. CASE Subscribe(c)
  BY <1>1 DEF TypeOK, Subscribe, runnerVars, waitVars, timerVars
<1>2. CASE Unsubscribe(c)
  BY <1>2 DEF TypeOK, Unsubscribe, runnerVars, waitVars, timerVars
<1>3. CASE ClientCloses(c)
  BY <1>3 DEF TypeOK, ClientCloses, runnerVars, waitVars, timerVars
<1> QED
  BY <1>1, <1>2, <1>3

LEMMA TypeMessage ==
  ASSUME TypeOK, NEW m \in Messages, PostMessage(m) \/ PostTimesOut(m) \/ SendMessage(m)
  PROVE  TypeOK'
<1>1. CASE PostMessage(m)
  BY <1>1, OrderTypes, ForwardType DEF TypeOK, PostStates, PostMessage, Raced, clientVars, timerVars
<1>2. CASE PostTimesOut(m)
  BY <1>2 DEF TypeOK, PostStates, PostTimesOut, runnerVars, clientVars, timerVars
<1>3. CASE SendMessage(m)
  BY <1>3, OrderTypes, ForwardType DEF TypeOK, PostStates, SendMessage, Raced, clientVars, timerVars
<1> QED
  BY <1>1, <1>2, <1>3

LEMMA TypeAsk ==
  ASSUME TypeOK, NEW q \in Queries, NEW step \in {"reads", "waits"}, Ask(q, step)
  PROVE  TypeOK'
BY OrderTypes, ForwardType DEF TypeOK, Ask, SendQuery, clientVars, timerVars

LEMMA TypeRunner ==
  ASSUME TypeOK,
         \/ TakeMessage \/ TakeCompact \/ TakeQuery
         \/ \E q \in Queries : AnswerQuery(q)
         \/ \E t \in turns : EndTurn(t)
  PROVE  TypeOK'
<1>1. CASE TakeMessage
  BY <1>1, OrderTypes, FrameTypes, TakeType, AppendProperties DEF TypeOK, TakeMessage, Statuses, clientVars, waitVars, timerVars
<1>2. CASE TakeCompact
  BY <1>2, OrderTypes, FrameTypes, TakeType, AppendProperties DEF TypeOK, TakeCompact, Statuses, clientVars, waitVars, timerVars
<1>3. CASE TakeQuery
  BY <1>3, OrderTypes, TakeType DEF TypeOK, TakeQuery, clientVars, waitVars, timerVars
<1>4. ASSUME NEW q \in Queries, AnswerQuery(q) PROVE TypeOK'
  <2>1. <<[type |-> "answer", of |-> q]>> \in Seq(Frames)
    BY FrameTypes
  <2> QED
    BY <1>4, <2>1, SpeakType DEF TypeOK, AnswerQuery, clientVars, waitVars, timerVars
<1>5. ASSUME NEW t \in turns, EndTurn(t) PROVE TypeOK'
  <2>1. PICK high \in BOOLEAN :
          Speak(t.by, <<[type |-> "result", of |-> t.of], [type |-> "context", high |-> high],
                        Status("ready")>>)
    BY <1>5 DEF EndTurn
  <2>2. t.of \in Messages
    BY DEF TypeOK
  <2>3. <<[type |-> "result", of |-> t.of], [type |-> "context", high |-> high],
          Status("ready")>> \in Seq(Frames)
    BY <2>2, FrameTypes DEF Statuses
  <2> QED
    BY <1>5, <2>1, <2>3, SpeakType DEF TypeOK, EndTurn, clientVars, waitVars, timerVars
<1> QED
  BY <1>1, <1>2, <1>3, <1>4, <1>5

LEMMA TypeBridge ==
  ASSUME TypeOK, HearStatus \/ HearResult \/ HearContext \/ HearAnswer
  PROVE  TypeOK'
<1>1. CASE HearStatus
  BY <1>1, FrameTypes, HearType, TellType DEF TypeOK, HearStatus, waitVars
<1>2. CASE HearResult
  BY <1>2, FrameTypes, HearType DEF TypeOK, HearResult, clientVars, timerVars
<1>3. CASE HearContext
  BY <1>3, FrameTypes, HearType DEF TypeOK, HearContext, clientVars, waitVars
<1>4. CASE HearAnswer
  BY <1>4, FrameTypes, OrderTypes, HearType, ForwardType DEF TypeOK, HearAnswer, SendQuery, clientVars, timerVars
<1> QED
  BY <1>1, <1>2, <1>3, <1>4

LEMMA TypeSocket ==
  ASSUME TypeInv, LinkBreaks \/ CloseHeard \/ Reconnect \/ StopBegins \/ StopEnds
  PROVE  TypeOK'
<1> USE DEF TypeInv
<1>1. <<>> \in Seq(Orders) /\ <<>> \in Seq(Frames) /\ <<Status("ready")>> \in Seq(Frames)
  BY FrameTypes DEF Statuses
<1>2. CASE LinkBreaks
  BY <1>1, <1>2 DEF TypeOK, Waiting, LinkBreaks, clientVars, waitVars, timerVars
<1>3. CASE CloseHeard
  <2>1. "stopped" \in Statuses
    BY DEF Statuses
  <2> QED
    BY <1>3, <2>1, TellType DEF TypeOK, CloseHeard, waitVars, timerVars
<1>4. CASE Reconnect
  BY <1>1, <1>4, RelayAssumption DEF TypeOK, Replaceable, Reconnect, clientVars, waitVars, timerVars
<1>5. CASE StopBegins
  BY <1>1, <1>5 DEF TypeOK, Waiting, StopBegins, clientVars, waitVars, timerVars
<1>6. CASE StopEnds
  BY <1>6 DEF TypeOK, StopEnds, Statuses, runnerVars, clientVars, waitVars, timerVars
<1> QED
  BY <1>2, <1>3, <1>4, <1>5, <1>6

LEMMA TypeRest ==
  ASSUME TypeOK, TimerFires \/ (\E k \in Compacts : AskCompact(k)) \/ UNCHANGED vars
  PROVE  TypeOK'
<1>1. CASE TimerFires
  BY <1>1, OrderTypes, ForwardType DEF TypeOK, TimerFires, SendCompact, Raced, clientVars, waitVars
<1>2. ASSUME NEW k \in Compacts, AskCompact(k) PROVE TypeOK'
  BY <1>2, OrderTypes, ForwardType DEF TypeOK, AskCompact, SendCompact, waitVars, timerVars
<1>3. CASE UNCHANGED vars
  BY <1>3 DEF TypeOK, vars, runnerVars, clientVars, waitVars, timerVars
<1> QED
  BY <1>1, <1>2, <1>3
-----------------------------------------------------------------------------
LEMMA ReplaceableStep ==
  ASSUME TypeInv, [Next]_vars
  PROVE  Replaceable'
<1> USE DEF TypeInv, TypeOK, Replaceable
<1>1. ASSUME NEW c \in Clients, Subscribe(c) \/ Unsubscribe(c) \/ ClientCloses(c) PROVE Replaceable'
  BY <1>1 DEF Subscribe, Unsubscribe, ClientCloses, runnerVars
<1>2. ASSUME NEW m \in Messages, PostMessage(m) \/ PostTimesOut(m) \/ SendMessage(m) PROVE Replaceable'
  BY <1>2 DEF PostMessage, PostTimesOut, SendMessage, runnerVars
<1>3. ASSUME NEW k \in Compacts, AskCompact(k) PROVE Replaceable'
  BY <1>3 DEF AskCompact
<1>4. ASSUME NEW q \in Queries,
             AskQuery(q) \/ AskContext(q) \/ ReadContext(q) \/ QueryTimesOut(q) \/ AnswerQuery(q)
      PROVE Replaceable'
  BY <1>4 DEF AskQuery, AskContext, ReadContext, Ask, QueryTimesOut, AnswerQuery, runnerVars
<1>5. CASE TakeMessage \/ TakeCompact \/ TakeQuery \/ \E t \in turns : EndTurn(t)
  BY <1>5 DEF TakeMessage, TakeCompact, TakeQuery, EndTurn
<1>6. CASE HearStatus \/ HearResult \/ HearContext \/ HearAnswer
  BY <1>6 DEF HearStatus, HearResult, HearContext, HearAnswer
<1>7. CASE TimerFires \/ LinkBreaks \/ CloseHeard \/ Reconnect \/ StopBegins \/ StopEnds
  BY <1>7 DEF TimerFires, LinkBreaks, CloseHeard, Reconnect, StopBegins, StopEnds, runnerVars
<1>8. CASE UNCHANGED vars
  BY <1>8 DEF vars, runnerVars
<1> QED
  BY <1>1, <1>2, <1>3, <1>4, <1>5, <1>6, <1>7, <1>8 DEF Next

LEMMA TypeStep ==
  ASSUME TypeInv, [Next]_vars
  PROVE  TypeInv'
<1>1. TypeOK
  BY DEF TypeInv
<1>2. ASSUME NEW c \in Clients, Subscribe(c) \/ Unsubscribe(c) \/ ClientCloses(c) PROVE TypeOK'
  BY <1>1, <1>2, TypeClient
<1>3. ASSUME NEW m \in Messages, PostMessage(m) \/ PostTimesOut(m) \/ SendMessage(m) PROVE TypeOK'
  BY <1>1, <1>3, TypeMessage
<1>4. ASSUME NEW q \in Queries, AskQuery(q) \/ AskContext(q) \/ ReadContext(q) PROVE TypeOK'
  BY <1>1, <1>4, TypeAsk DEF AskQuery, AskContext, ReadContext
<1>5. ASSUME NEW q \in Queries, QueryTimesOut(q) PROVE TypeOK'
  BY <1>1, <1>5 DEF TypeOK, QueryTimesOut, runnerVars, clientVars, timerVars
<1>6. ASSUME \/ TakeMessage \/ TakeCompact \/ TakeQuery
             \/ \E q \in Queries : AnswerQuery(q)
             \/ \E t \in turns : EndTurn(t) PROVE TypeOK'
  BY <1>1, <1>6, TypeRunner
<1>7. ASSUME HearStatus \/ HearResult \/ HearContext \/ HearAnswer PROVE TypeOK'
  BY <1>1, <1>7, TypeBridge
<1>8. ASSUME LinkBreaks \/ CloseHeard \/ Reconnect \/ StopBegins \/ StopEnds PROVE TypeOK'
  BY <1>8, TypeSocket
<1>9. ASSUME TimerFires \/ (\E k \in Compacts : AskCompact(k)) \/ UNCHANGED vars PROVE TypeOK'
  BY <1>1, <1>9, TypeRest
<1>10. TypeOK'
  BY <1>2, <1>3, <1>4, <1>5, <1>6, <1>7, <1>8, <1>9 DEF Next
<1> QED
  BY <1>10, ReplaceableStep DEF TypeInv

LEMMA TypeInvariant == Spec => []TypeInv
<1>1. Init => TypeInv
  BY TypeInit DEF TypeInv, Replaceable, Init
<1>2. TypeInv /\ [Next]_vars => TypeInv'
  BY TypeStep
<1> QED
  BY <1>1, <1>2, PTL DEF Spec

\* Every variable of the relay keeps its type: whatever arrives is a frame or a
\* command of the protocol, of a message or query that was sent.
THEOREM TypesAlways == Spec => []TypeOK
<1>1. TypeInv => TypeOK
  BY DEF TypeInv
<1> QED
  BY <1>1, TypeInvariant, PTL
-----------------------------------------------------------------------------
(***************************************************************************)
(* The listeners.                                                          *)
(***************************************************************************)
\* The listeners of these subscriptions, POSTs and queries.
All(C, P, Q) == OfClients(C) \cup OfPosts(P) \cup OfQueries(Q)

LEMMA InAll ==
  ASSUME NEW C, NEW P, NEW Q, NEW l
  PROVE  l \in All(C, P, Q) <=> \/ \E c \in C : l \in OfClient(c)
                                \/ \E p \in P : l \in OfPost(p)
                                \/ \E q \in Q : l \in OfQuery(q)
<1>1. l \in OfClients(C) <=> \E c \in C : l \in OfClient(c)
  BY DEF OfClients
<1>2. l \in OfPosts(P) <=> \E p \in P : l \in OfPost(p)
  BY DEF OfPosts
<1>3. l \in OfQueries(Q) <=> \E q \in Q : l \in OfQuery(q)
  BY DEF OfQueries
<1> QED
  BY <1>1, <1>2, <1>3 DEF All

LEMMA MatchIsAll == ListenersMatch <=> listeners = All(subs, Waiting, Awaited)
BY DEF ListenersMatch, All

\* No listener serves two: the tags tell apart subscriptions, POSTs and queries
\* even of one name, but for the events, and clients are no messages.
LEMMA Apart ==
  /\ \A c \in Clients, d \in Clients : c # d => OfClient(c) \cap OfClient(d) = {}
  /\ \A c \in Clients, p \in Messages : OfClient(c) \cap OfPost(p) = {}
  /\ \A c \in Clients, q \in Queries : OfClient(c) \cap OfQuery(q) = {}
  /\ \A p \in Messages, o \in Messages : p # o => OfPost(p) \cap OfPost(o) = {}
  /\ \A p \in Messages, q \in Queries : OfPost(p) \cap OfQuery(q) = {}
  /\ \A q \in Queries, o \in Queries : q # o => OfQuery(q) \cap OfQuery(o) = {}
BY RelayAssumption DEF OfClient, OfPost, OfQuery, SessionEvents

LEMMA Tags ==
  ASSUME NEW e, NEW x, NEW y
  PROVE  /\ <<e, x>> \in OfClient(y) <=> e \in SessionEvents /\ x = y
         /\ <<e, x>> \in OfPost(y) <=> e \in {"event", "error"} /\ x = y
         /\ <<e, x>> \in OfQuery(y) <=> e = "answer" /\ x = y
BY DEF OfClient, OfPost, OfQuery

LEMMA Pairs ==
  ASSUME NEW y, NEW l \in OfClient(y) \cup OfPost(y) \cup OfQuery(y)
  PROVE  l = <<l[1], l[2]>>
BY DEF OfClient, OfPost, OfQuery

LEMMA Members ==
  ASSUME ListenersMatch, NEW l
  PROVE  l \in listeners <=> \/ \E c \in subs : l \in OfClient(c)
                             \/ \E p \in Waiting : l \in OfPost(p)
                             \/ \E q \in Awaited : l \in OfQuery(q)
BY InAll, MatchIsAll

\* Who hears what, when the listeners match.
LEMMA Hearers ==
  ASSUME TypeOK, ListenersMatch
  PROVE  /\ Listening("status") = subs
         /\ Messages \cap Listening("event") = Waiting
         /\ Queries \cap Listening("answer") = Awaited
<1>1. ASSUME NEW e, NEW x
      PROVE  <<e, x>> \in listeners <=>
                  \/ x \in subs /\ e \in SessionEvents
                  \/ x \in Waiting /\ e \in {"event", "error"}
                  \/ x \in Awaited /\ e = "answer"
  BY Members, Tags
<1>2. \A l \in listeners : l = <<l[1], l[2]>>
  BY Members, Pairs
<1>3. ASSUME NEW e, NEW x PROVE x \in Listening(e) <=> <<e, x>> \in listeners
  <2>1. ASSUME x \in Listening(e) PROVE <<e, x>> \in listeners
    <3>1. PICK l \in listeners : l[1] = e /\ l[2] = x
      BY <2>1 DEF Listening
    <3> QED
      BY <1>2, <3>1
  <2>2. ASSUME <<e, x>> \in listeners PROVE x \in Listening(e)
    <3>1. <<e, x>>[1] = e /\ <<e, x>>[2] = x
      OBVIOUS
    <3> QED
      BY <2>2, <3>1 DEF Listening
  <2> QED
    BY <2>1, <2>2
<1>4. subs \subseteq Clients /\ Waiting \subseteq Messages /\ Awaited \subseteq Queries
  BY DEF TypeOK, Waiting, Awaited
<1>5. subs \cap Messages = {}
  BY <1>4, RelayAssumption
<1>6. "status" \in SessionEvents /\ "answer" \notin SessionEvents
  BY DEF SessionEvents
<1>7. \A x : x \in Listening("status") <=> x \in subs
  BY <1>1, <1>3, <1>6
<1>8. \A x \in Messages : x \in Listening("event") <=> x \in Waiting
  <2> SUFFICES ASSUME NEW x \in Messages PROVE x \in Listening("event") <=> x \in Waiting
    OBVIOUS
  <2>1. x \notin subs /\ "event" # "answer"
    BY <1>5
  <2>2. <<"event", x>> \in listeners <=> x \in Waiting
    BY <1>1, <2>1
  <2> QED
    BY <1>3, <2>2
<1>9. \A x : x \in Listening("answer") <=> x \in Awaited
  BY <1>1, <1>3, <1>6
<1> QED
  BY <1>4, <1>7, <1>8, <1>9

\* The listeners of a step that changes no subscription, POST or query.
LEMMA SameListeners ==
  ASSUME ListenersMatch, UNCHANGED <<listeners, subs>>, Waiting' = Waiting, Awaited' = Awaited
  PROVE  ListenersMatch'
BY DEF ListenersMatch, Waiting, Awaited

\* A step that adds the listeners of what it begins to serve and removes those
\* of what it no longer serves.
LEMMA ListenersFollow ==
  ASSUME TypeOK, ListenersMatch,
         NEW C1 \in SUBSET Clients, NEW C0 \in SUBSET Clients,
         NEW P1 \in SUBSET Messages, NEW P0 \in SUBSET Messages,
         NEW Q1 \in SUBSET Queries, NEW Q0 \in SUBSET Queries,
         C1 \cap C0 = {}, P1 \cap P0 = {}, Q1 \cap Q0 = {},
         subs' = (subs \cup C1) \ C0,
         Waiting' = (Waiting \cup P1) \ P0,
         Awaited' = (Awaited \cup Q1) \ Q0,
         listeners' = (listeners \cup All(C1, P1, Q1)) \ All(C0, P0, Q0)
  PROVE  ListenersMatch'
<1>1. subs \subseteq Clients /\ Waiting \subseteq Messages /\ Awaited \subseteq Queries
  BY DEF TypeOK, Waiting, Awaited
<1>2. ASSUME NEW l
      PROVE  l \in listeners' <=> l \in All(subs', Waiting', Awaited')
  <2> DEFINE Old(l_) == l_ \in All(C0, P0, Q0)
  <2>1. ASSUME \E c \in subs \cup C1 : l \in OfClient(c)
        PROVE  Old(l) <=> ~\E c \in subs' : l \in OfClient(c)
    <3>1. PICK c \in subs \cup C1 : l \in OfClient(c)
      BY <2>1
    <3>2. Old(l) <=> c \in C0
      BY <1>1, <3>1, InAll, Apart
    <3>3. (\E d \in subs' : l \in OfClient(d)) <=> c \in subs'
      BY <1>1, <3>1, Apart
    <3> QED
      BY <3>2, <3>3
  <2>2. ASSUME \E p \in Waiting \cup P1 : l \in OfPost(p)
        PROVE  Old(l) <=> ~\E p \in Waiting' : l \in OfPost(p)
    <3>1. PICK p \in Waiting \cup P1 : l \in OfPost(p)
      BY <2>2
    <3>2. Old(l) <=> p \in P0
      BY <1>1, <3>1, InAll, Apart
    <3>3. (\E o \in Waiting' : l \in OfPost(o)) <=> p \in Waiting'
      BY <1>1, <3>1, Apart
    <3> QED
      BY <3>2, <3>3
  <2>3. ASSUME \E q \in Awaited \cup Q1 : l \in OfQuery(q)
        PROVE  Old(l) <=> ~\E q \in Awaited' : l \in OfQuery(q)
    <3>1. PICK q \in Awaited \cup Q1 : l \in OfQuery(q)
      BY <2>3
    <3>2. Old(l) <=> q \in Q0
      BY <1>1, <3>1, InAll, Apart
    <3>3. (\E o \in Awaited' : l \in OfQuery(o)) <=> q \in Awaited'
      BY <1>1, <3>1, Apart
    <3> QED
      BY <3>2, <3>3
  <2> DEFINE New == \/ \E c \in subs \cup C1 : l \in OfClient(c)
                    \/ \E p \in Waiting \cup P1 : l \in OfPost(p)
                    \/ \E q \in Awaited \cup Q1 : l \in OfQuery(q)
             Now == \/ \E c \in subs' : l \in OfClient(c)
                    \/ \E p \in Waiting' : l \in OfPost(p)
                    \/ \E q \in Awaited' : l \in OfQuery(q)
  <2>4. l \in listeners' <=> New /\ ~Old(l)
    <3>1. l \in All(C1, P1, Q1) <=> \/ \E c \in C1 : l \in OfClient(c)
                                    \/ \E p \in P1 : l \in OfPost(p)
                                    \/ \E q \in Q1 : l \in OfQuery(q)
      BY InAll
    <3>2. l \in listeners \/ l \in All(C1, P1, Q1) <=> New
      BY <3>1, Members
    <3> QED
      BY <3>2
  <2>5. Now <=> New /\ ~Old(l)
    <3>1. Now => New
      OBVIOUS
    <3>2. New /\ Old(l) => ~Now
      BY <1>1, <2>1, <2>2, <2>3, Apart
    <3> QED
      BY <2>1, <2>2, <2>3, <3>1, <3>2
  <2>6. l \in All(subs', Waiting', Awaited') <=> Now
    BY InAll
  <2> QED
    BY <2>4, <2>5, <2>6
<1>3. listeners' = All(subs', Waiting', Awaited')
  BY <1>2
<1> QED
  BY <1>3 DEF ListenersMatch, All

LEMMA AllOfOne ==
  /\ All({}, {}, {}) = {}
  /\ \A c : All({c}, {}, {}) = OfClient(c)
  /\ \A p : All({}, {p}, {}) = OfPost(p)
  /\ \A q : All({}, {}, {q}) = OfQuery(q)
<1>1. All({}, {}, {}) = {}
  BY InAll
<1>2. ASSUME NEW c PROVE All({c}, {}, {}) = OfClient(c)
  BY SMTT(30), InAll
<1>3. ASSUME NEW p PROVE All({}, {p}, {}) = OfPost(p)
  <2>1. \A l : l \in All({}, {p}, {}) <=> l \in OfPost(p)
    BY InAll
  <2> QED
    BY <2>1
<1>4. ASSUME NEW q PROVE All({}, {}, {q}) = OfQuery(q)
  BY InAll
<1> QED
  BY <1>1, <1>2, <1>3, <1>4

\* The special cases the actions need: one comes, or some go.
LEMMA ClientListens ==
  ASSUME TypeOK, ListenersMatch, NEW c \in Clients,
         \/ subs' = subs \cup {c} /\ listeners' = listeners \cup OfClient(c)
         \/ subs' = subs \ {c} /\ listeners' = listeners \ OfClient(c),
         UNCHANGED <<post, query>>
  PROVE  ListenersMatch'
<1>1. Waiting' = (Waiting \cup {}) \ {} /\ Awaited' = (Awaited \cup {}) \ {}
  BY DEF Waiting, Awaited
<1>2. CASE subs' = subs \cup {c} /\ listeners' = listeners \cup OfClient(c)
  <2>1. subs' = (subs \cup {c}) \ {} /\ listeners' = (listeners \cup All({c}, {}, {})) \ All({}, {}, {})
    BY <1>2, AllOfOne
  <2> QED
    BY <1>1, <2>1, ListenersFollow
<1>3. CASE subs' = subs \ {c} /\ listeners' = listeners \ OfClient(c)
  <2>1. subs' = (subs \cup {}) \ {c} /\ listeners' = (listeners \cup All({}, {}, {})) \ All({c}, {}, {})
    BY <1>3, AllOfOne
  <2> QED
    BY <1>1, <2>1, ListenersFollow
<1> QED
  BY <1>2, <1>3

LEMMA PostsListen ==
  ASSUME TypeOK, ListenersMatch, NEW P \in SUBSET Messages,
         \/ Waiting' = Waiting \cup P /\ listeners' = listeners \cup OfPosts(P)
         \/ Waiting' = Waiting \ P /\ listeners' = listeners \ OfPosts(P),
         UNCHANGED <<subs, query>>
  PROVE  ListenersMatch'
<1>1. subs' = (subs \cup {}) \ {} /\ Awaited' = (Awaited \cup {}) \ {}
  BY DEF Awaited
<1>2. All({}, P, {}) = OfPosts(P)
  <2>1. OfClients({}) = {} /\ OfQueries({}) = {}
    BY DEF OfClients, OfQueries
  <2> QED
    BY <2>1 DEF All
<1>3. CASE Waiting' = Waiting \cup P /\ listeners' = listeners \cup OfPosts(P)
  <2>1. Waiting' = (Waiting \cup P) \ {} /\ listeners' = (listeners \cup All({}, P, {})) \ All({}, {}, {})
    BY <1>2, <1>3, AllOfOne
  <2> QED
    BY <1>1, <2>1, ListenersFollow
<1>4. CASE Waiting' = Waiting \ P /\ listeners' = listeners \ OfPosts(P)
  <2>1. Waiting' = (Waiting \cup {}) \ P /\ listeners' = (listeners \cup All({}, {}, {})) \ All({}, P, {})
    BY <1>2, <1>4, AllOfOne
  <2> QED
    BY <1>1, <2>1, ListenersFollow
<1> QED
  BY <1>3, <1>4

LEMMA QueryListens ==
  ASSUME TypeOK, ListenersMatch, NEW q \in Queries,
         \/ Awaited' = Awaited \cup {q} /\ listeners' = listeners \cup OfQuery(q)
         \/ Awaited' = Awaited \ {q} /\ listeners' = listeners \ OfQuery(q),
         UNCHANGED <<subs, post>>
  PROVE  ListenersMatch'
<1>1. subs' = (subs \cup {}) \ {} /\ Waiting' = (Waiting \cup {}) \ {}
  BY DEF Waiting
<1>2. CASE Awaited' = Awaited \cup {q} /\ listeners' = listeners \cup OfQuery(q)
  <2>1. Awaited' = (Awaited \cup {q}) \ {} /\ listeners' = (listeners \cup All({}, {}, {q})) \ All({}, {}, {})
    BY <1>2, AllOfOne
  <2> QED
    BY <1>1, <2>1, ListenersFollow
<1>3. CASE Awaited' = Awaited \ {q} /\ listeners' = listeners \ OfQuery(q)
  <2>1. Awaited' = (Awaited \cup {}) \ {q} /\ listeners' = (listeners \cup All({}, {}, {})) \ All({}, {}, {q})
    BY <1>3, AllOfOne
  <2> QED
    BY <1>1, <2>1, ListenersFollow
<1> QED
  BY <1>2, <1>3
-----------------------------------------------------------------------------
\* The steps that leave the waits and the listeners alone.
Quiet == UNCHANGED <<listeners, subs, waitVars>>

LEMMA QuietListeners == ListenersMatch /\ Quiet => ListenersMatch'
BY SameListeners DEF Quiet, Waiting, Awaited, waitVars

LEMMA QuietSteps ==
  ASSUME \/ \E k \in Compacts : AskCompact(k)
         \/ \E q \in Queries : AnswerQuery(q)
         \/ TakeMessage \/ TakeCompact \/ TakeQuery
         \/ \E t \in turns : EndTurn(t)
         \/ HearStatus \/ HearContext
         \/ TimerFires \/ LinkBreaks \/ CloseHeard \/ Reconnect \/ StopBegins \/ StopEnds
         \/ UNCHANGED vars
  PROVE  Quiet
BY DEF Quiet, AskCompact, AnswerQuery, TakeMessage, TakeCompact, TakeQuery, EndTurn, HearStatus, HearContext,
       TimerFires, LinkBreaks, CloseHeard, Reconnect, StopBegins, StopEnds, vars, clientVars, waitVars

LEMMA ListenersStep ==
  ASSUME TypeOK, ListenersMatch, [Next]_vars
  PROVE  ListenersMatch'
<1>1. ASSUME NEW c \in Clients, Subscribe(c) \/ Unsubscribe(c) \/ ClientCloses(c) PROVE ListenersMatch'
  BY <1>1, ClientListens DEF Subscribe, Unsubscribe, ClientCloses, waitVars
<1>2. ASSUME NEW p \in Messages, PostMessage(p) PROVE ListenersMatch'
  <2>1. CASE link = "up"
    <3>1. Waiting' = Waiting \cup {p}
      BY <1>2, <2>1 DEF PostMessage, TypeOK, Waiting
    <3>2. listeners' = listeners \cup OfPosts({p})
      BY <1>2, <2>1 DEF PostMessage, OfPosts
    <3>3. {p} \in SUBSET Messages
      OBVIOUS
    <3> QED
      BY <1>2, <3>1, <3>2, <3>3, PostsListen DEF PostMessage, clientVars
  <2>2. CASE link # "up"
    <3>1. Waiting' = Waiting /\ Awaited' = Awaited
      BY <1>2, <2>2 DEF PostMessage, TypeOK, Waiting, Awaited
    <3> QED
      BY <1>2, <2>2, <3>1, SameListeners DEF PostMessage, clientVars
  <2> QED
    BY <2>1, <2>2
<1>3. ASSUME NEW p \in Messages, PostTimesOut(p) PROVE ListenersMatch'
  <2>1. Waiting' = Waiting \ {p}
    BY <1>3 DEF PostTimesOut, TypeOK, Waiting
  <2>2. listeners' = listeners \ OfPosts({p})
    BY <1>3 DEF PostTimesOut, OfPosts
  <2>3. {p} \in SUBSET Messages
    OBVIOUS
  <2> QED
    BY <1>3, <2>1, <2>2, <2>3, PostsListen DEF PostTimesOut, clientVars
<1>4. ASSUME NEW m \in Messages, SendMessage(m) PROVE ListenersMatch'
  <2>1. Waiting' = Waiting /\ Awaited' = Awaited
    BY <1>4 DEF SendMessage, TypeOK, Waiting, Awaited
  <2> QED
    BY <1>4, <2>1, SameListeners DEF SendMessage, clientVars
<1>5. ASSUME NEW q \in Queries, NEW step \in {"reads", "waits"}, Ask(q, step) PROVE ListenersMatch'
  <2>1. CASE link = "up"
    <3>1. Awaited' = Awaited \cup {q}
      BY <1>5, <2>1 DEF Ask, TypeOK, Awaited
    <3> QED
      BY <1>5, <2>1, <3>1, QueryListens DEF Ask, clientVars
  <2>2. CASE link # "up"
    <3>1. Waiting' = Waiting /\ Awaited' = Awaited
      BY <1>5, <2>2 DEF Ask, TypeOK, Waiting, Awaited
    <3> QED
      BY <1>5, <2>2, <3>1, SameListeners DEF Ask, clientVars
  <2> QED
    BY <2>1, <2>2
<1>6. ASSUME NEW q \in Queries, QueryTimesOut(q) PROVE ListenersMatch'
  <2>1. Awaited' = Awaited \ {q}
    BY <1>6 DEF QueryTimesOut, TypeOK, Awaited
  <2> QED
    BY <1>6, <2>1, QueryListens DEF QueryTimesOut, clientVars
<1>7. ASSUME HearResult PROVE ListenersMatch'
  <2>1. Messages \cap Listening("event") = Waiting
    BY Hearers
  <2>2. /\ post' = [p \in Messages |-> IF p \in Waiting THEN Head(uplink).of ELSE post[p]]
        /\ listeners' = listeners \ OfPosts(Waiting)
    BY <1>7, <2>1 DEF HearResult, OfPosts
  <2>3. Head(uplink).of # "waits"
    BY <1>7, HearType, FrameTypes, RelayAssumption DEF HearResult, TypeOK, PostStates
  <2>4. Waiting' = Waiting \ Waiting
    BY <2>2, <2>3 DEF Waiting
  <2>5. Waiting \in SUBSET Messages
    BY DEF Waiting
  <2> QED
    BY <1>7, <2>2, <2>4, <2>5, PostsListen DEF HearResult, clientVars
<1>8. ASSUME HearAnswer PROVE ListenersMatch'
  <2> DEFINE q == Head(uplink).of
  <2>1. q \in Queries /\ (q \in Listening("answer") <=> q \in Awaited)
    BY <1>8, Hearers, HearType, FrameTypes DEF HearAnswer, TypeOK
  <2>2. CASE q \in Listening("answer") /\ query' = [query EXCEPT ![q] = "waits"] /\ UNCHANGED listeners
    <3>1. Awaited' = Awaited /\ Waiting' = Waiting
      BY <1>8, <2>1, <2>2 DEF HearAnswer, TypeOK, Awaited, Waiting
    <3> QED
      BY <1>8, <2>2, <3>1, SameListeners DEF HearAnswer, clientVars
  <2>3. CASE query' = [query EXCEPT ![q] = "answered"] /\ listeners' = listeners \ OfQuery(q)
    <3>1. Awaited' = Awaited \ {q}
      BY <2>1, <2>3 DEF TypeOK, Awaited
    <3> QED
      BY <1>8, <2>1, <2>3, <3>1, QueryListens DEF HearAnswer, clientVars
  <2>4. CASE UNCHANGED <<query, listeners>>
    <3>1. Awaited' = Awaited /\ Waiting' = Waiting
      BY <1>8, <2>4 DEF HearAnswer, Awaited, Waiting
    <3> QED
      BY <1>8, <2>4, <3>1, SameListeners DEF HearAnswer, clientVars
  <2> QED
    BY <1>8, <2>2, <2>3, <2>4 DEF HearAnswer
<1>9. Quiet => ListenersMatch'
  BY QuietListeners
<1> QED
  BY <1>1, <1>2, <1>3, <1>4, <1>5, <1>6, <1>7, <1>8, <1>9, QuietSteps DEF Next, AskQuery, AskContext, ReadContext

LEMMA ListenersInvariant == Spec => []ListenersMatch
<1>1. Init => ListenersMatch
  <2> SUFFICES ASSUME Init PROVE ListenersMatch
    OBVIOUS
  <2>1. subs = {} /\ Waiting = {} /\ Awaited = {}
    BY DEF Init, Waiting, Awaited
  <2>2. All({}, {}, {}) = {}
    BY AllOfOne
  <2> QED
    BY <2>1, <2>2, MatchIsAll DEF Init
<1>2. TypeInv /\ ListenersMatch /\ [Next]_vars => ListenersMatch'
  BY ListenersStep DEF TypeInv
<1> QED
  BY <1>1, <1>2, TypeInvariant, PTL DEF Spec

\* No wait and no subscription leaks its listener or loses it: whichever of
\* answer, timer, refused write and closed connection ends it, the listeners of
\* the bridge are those of what is still waited for.
THEOREM ListenersAlwaysMatch == Spec => []ListenersMatch
BY ListenersInvariant
-----------------------------------------------------------------------------
(***************************************************************************)
(* What the subscribers are told.                                          *)
(***************************************************************************)

\* Statuses are told to all subscribers, since these are the listeners.
LEMMA TellsSubscribers ==
  ASSUME TypeOK, ListenersMatch, NEW s \in Statuses, Tell(s), row' = s, UNCHANGED subs
  PROVE  ToldAgrees'
<1>1. Listening("status") = subs /\ subs \subseteq Clients
  BY Hearers DEF TypeOK
<1>2. ASSUME NEW c \in subs PROVE told'[c] = row'
  BY <1>1 DEF Tell
<1> QED
  BY <1>2 DEF ToldAgrees

LEMMA ToldStep ==
  ASSUME TypeOK, ListenersMatch, ToldAgrees, [Next]_vars
  PROVE  ToldAgrees'
<1>1. ASSUME UNCHANGED <<row, told, subs, stop>> PROVE ToldAgrees'
  BY <1>1 DEF ToldAgrees
<1>2. ASSUME NEW c \in Clients, Subscribe(c) \/ Unsubscribe(c) \/ ClientCloses(c) PROVE ToldAgrees'
  BY <1>2 DEF Subscribe, Unsubscribe, ClientCloses, ToldAgrees, TypeOK
<1>3. ASSUME NEW m \in Messages, PostMessage(m) \/ PostTimesOut(m) \/ SendMessage(m) PROVE ToldAgrees'
  BY <1>1, <1>3 DEF PostMessage, PostTimesOut, SendMessage, clientVars
<1>4. ASSUME NEW k \in Compacts, AskCompact(k) PROVE ToldAgrees'
  BY <1>1, <1>4 DEF AskCompact
<1>5. ASSUME NEW q \in Queries,
             AskQuery(q) \/ AskContext(q) \/ ReadContext(q) \/ QueryTimesOut(q) \/ AnswerQuery(q)
      PROVE ToldAgrees'
  BY <1>1, <1>5 DEF AskQuery, AskContext, ReadContext, Ask, QueryTimesOut, AnswerQuery, clientVars
<1>6. ASSUME TakeMessage \/ TakeCompact \/ TakeQuery \/ (\E t \in turns : EndTurn(t)) PROVE ToldAgrees'
  BY <1>1, <1>6 DEF TakeMessage, TakeCompact, TakeQuery, EndTurn, clientVars
<1>7. ASSUME HearResult \/ HearContext \/ HearAnswer PROVE ToldAgrees'
  BY <1>1, <1>7 DEF HearResult, HearContext, HearAnswer, clientVars
<1>8. ASSUME HearStatus PROVE ToldAgrees'
  <2>1. Head(uplink).status \in Statuses
    BY <1>8, HearType, FrameTypes DEF HearStatus, TypeOK
  <2> QED
    BY <1>8, <2>1, TellsSubscribers DEF HearStatus
<1>9. ASSUME CloseHeard PROVE ToldAgrees'
  <2>1. CASE row = "stopped"
    BY <1>1, <1>9, <2>1 DEF CloseHeard
  <2>2. CASE row # "stopped"
    <3>1. "stopped" \in Statuses
      BY DEF Statuses
    <3> QED
      BY <1>9, <2>2, <3>1, TellsSubscribers DEF CloseHeard
  <2> QED
    BY <2>1, <2>2
<1>10. ASSUME StopBegins \/ StopEnds PROVE ToldAgrees'
  BY <1>10 DEF StopBegins, StopEnds, ToldAgrees, clientVars
<1>11. ASSUME TimerFires \/ LinkBreaks \/ Reconnect \/ UNCHANGED vars PROVE ToldAgrees'
  BY <1>1, <1>11 DEF TimerFires, LinkBreaks, Reconnect, vars, clientVars
<1> QED
  BY <1>2, <1>3, <1>4, <1>5, <1>6, <1>7, <1>8, <1>9, <1>10, <1>11 DEF Next

\* However clients come and go and sockets break and are replaced, a subscriber
\* has been told the status the session has, unless the session was stopped by
\* request. The proof needs ListenersMatch: who is told is who listens.
THEOREM ToldAlwaysAgrees == Spec => []ToldAgrees
<1>1. Init => ToldAgrees
  BY DEF Init, ToldAgrees
<1>2. TypeInv /\ ListenersMatch /\ ToldAgrees /\ [Next]_vars => ToldAgrees'
  BY ToldStep DEF TypeInv
<1> QED
  BY <1>1, <1>2, TypeInvariant, ListenersInvariant, PTL DEF Spec
-----------------------------------------------------------------------------
(***************************************************************************)
(* That a POST gets the result of its own message, and that the compaction *)
(* of an idle session finds the runner idle, although results carry no id  *)
(* and statuses arrive late.  Both rest on what can be under way between   *)
(* the bridge and the runner while nothing has gone wrong.                 *)
(***************************************************************************)

\* Where messages are on their way, busy reports and results unread.
Msgs == {i \in DOMAIN downlink : downlink[i].type = "message"}
Busys == {i \in DOMAIN uplink : uplink[i] = Status("busy")}
Results == {i \in DOMAIN uplink : uplink[i].type = "result"}
Autos == {i \in DOMAIN downlink : downlink[i] = [type |-> "compact", of |-> "auto"]}

\* Who has read the uplink up to its k-th frame believes the runner to be busy.
KnownBusy(k) ==
  \/ /\ row = "busy" /\ Busys = {}
     /\ \A h \in DOMAIN uplink : h < k => uplink[h].type # "status"
  \/ \E i \in Busys :
       i < k /\ \A h \in DOMAIN uplink : i < h /\ h < k => uplink[h].type # "status"

\* A socket that cannot be written to or read from has nothing under way; on a
\* new one the first frame comes before anything else; a stop leaves no socket.
SocketInv ==
  /\ stop # "no" => link \in {"closing", "dead"}
  /\ link \in {"closing", "down", "dead"} => uplink = <<>> /\ downlink = <<>>
  /\ link = "opening" => uplink = <<Status("ready")>> /\ downlink = <<>>

\* At most one message is between the bridge and its result.
OneMessage ==
  /\ \A i, j \in Msgs : i = j
  /\ \A i, j \in Busys : i = j
  /\ \A i, j \in Results : i = j
  /\ \A s, t \in turns : s = t
  /\ Msgs # {} => turns = {} /\ Busys = {} /\ Results = {}
  /\ Results # {} => turns = {}

\* A turn that runs, or has ended with a result not read, is known to run, and
\* it answers on the socket that is open.
BusyIsKnown ==
  /\ link \in {"up", "opening"} => \A t \in turns : t.by = socket /\ link = "up"
  /\ link = "up" /\ turns # {} => KnownBusy(Len(uplink) + 1)
  /\ \A j \in Results : KnownBusy(j)

\* The message of a POST that waits is somewhere between the bridge and its
\* result, if the connection has not broken since.
OnItsWay(p) ==
  \/ \E i \in Msgs : downlink[i].of = p
  \/ \E t \in turns : t.of = p /\ link = "up"
  \/ \E i \in Results : uplink[i].of = p

WaitersInv == \A p \in Waiting \ orphans : OnItsWay(p)

\* No turn runs, or begins, before the timer's compaction has arrived.
AutosFirst == \A i \in Autos : turns = {} /\ \A j \in Msgs : i < j

CalmInv == OneMessage /\ BusyIsKnown /\ WaitersInv /\ AutosFirst /\ OwnResult

PipeInv == SocketInv /\ (mishaps = {} => CalmInv)
-----------------------------------------------------------------------------
(***************************************************************************)
(* Sequences, as the two directions of a socket use them.                  *)
(***************************************************************************)
LEMMA AppendFacts ==
  ASSUME NEW S, NEW q \in Seq(S), NEW e \in S
  PROVE  /\ Len(q) \in Nat /\ DOMAIN q = 1 .. Len(q)
         /\ DOMAIN Append(q, e) = 1 .. Len(q) + 1
         /\ Len(Append(q, e)) = Len(q) + 1
         /\ \A i \in DOMAIN q : Append(q, e)[i] = q[i]
         /\ Append(q, e)[Len(q) + 1] = e
BY AppendProperties

LEMMA TailFacts ==
  ASSUME NEW S, NEW q \in Seq(S), q # <<>>
  PROVE  /\ Len(q) \in Nat \ {0} /\ DOMAIN q = 1 .. Len(q)
         /\ 1 \in DOMAIN q /\ Head(q) = q[1]
         /\ DOMAIN Tail(q) = 1 .. Len(q) - 1
         /\ Len(Tail(q)) = Len(q) - 1
         /\ \A i \in DOMAIN Tail(q) : Tail(q)[i] = q[i + 1]
<1>1. Tail(q) \in Seq(S) /\ Len(Tail(q)) = Len(q) - 1
  BY HeadTailProperties
<1>2. Len(q) \in Nat \ {0}
  BY EmptySeq, LenProperties
<1> QED
  BY <1>1, <1>2, HeadTailProperties, LenProperties

LEMMA ConcatFacts ==
  ASSUME NEW S, NEW q \in Seq(S), NEW e \in Seq(S)
  PROVE  /\ Len(q) \in Nat /\ DOMAIN q = 1 .. Len(q)
         /\ DOMAIN (q \o e) = 1 .. Len(q) + Len(e)
         /\ Len(q \o e) = Len(q) + Len(e)
         /\ \A i \in DOMAIN q : (q \o e)[i] = q[i]
         /\ \A i \in 1 .. Len(e) : (q \o e)[Len(q) + i] = e[i]
<1>1. q \o e \in Seq(S) /\ Len(q \o e) = Len(q) + Len(e)
  BY ConcatProperties
<1>2. Len(q) \in Nat /\ Len(e) \in Nat
  BY LenProperties
<1> QED
  BY <1>1, <1>2, ConcatProperties, LenProperties
-----------------------------------------------------------------------------
(***************************************************************************)
(* What a step does to the commands on their way.                          *)
(***************************************************************************)
LEMMA NatIndices ==
  ASSUME TypeOK
  PROVE  Msgs \cup Autos \subseteq Nat \ {0} /\ Busys \cup Results \subseteq Nat \ {0}
BY LenProperties DEF TypeOK, Msgs, Autos, Busys, Results

\* The frames, resp. commands, of the others stay where they are.
SameMessages ==
  /\ Msgs' = Msgs /\ \A i \in Msgs : downlink'[i] = downlink[i]

LEMMA SentOther ==
  ASSUME TypeOK, NEW o \in Orders, o.type # "message", Forward(o)
  PROVE  /\ SameMessages
         /\ o # [type |-> "compact", of |-> "auto"] => Autos' = Autos
         /\ Msgs = {} => Msgs' = {}
<1>1. CASE link = "up"
  <2>1. downlink \in Seq(Orders) /\ downlink' = Append(downlink, o)
    BY <1>1 DEF TypeOK, Forward
  <2> QED
    BY <2>1, AppendFacts DEF SameMessages, Msgs, Autos
<1>2. CASE link # "up"
  BY <1>2 DEF Forward, SameMessages, Msgs, Autos
<1> QED
  BY <1>1, <1>2

LEMMA SentMessage ==
  ASSUME TypeOK, NEW m \in Messages, link = "up", Forward([type |-> "message", of |-> m])
  PROVE  \E n \in Nat \ {0} :
           /\ Msgs' = Msgs \cup {n} /\ downlink'[n].of = m
           /\ Autos' = Autos /\ \A i \in Autos : i < n
<1> DEFINE o == [type |-> "message", of |-> m]
           n == Len(downlink) + 1
<1>1. downlink \in Seq(Orders) /\ o \in Orders /\ downlink' = Append(downlink, o)
  BY OrderTypes DEF TypeOK, Forward
<1>2. n \in Nat \ {0}
  BY <1>1, LenProperties
<1>3. Msgs' = Msgs \cup {n}
  BY <1>1, AppendFacts DEF Msgs
<1>4. Autos' = Autos /\ \A i \in Autos : i < n
  BY <1>1, AppendFacts DEF Autos
<1> QED
  BY <1>1, <1>2, <1>3, <1>4, AppendFacts

\* The first command is taken, and all others move up.
MovedUp ==
  /\ \A i \in Nat \ {0} : i \in Msgs' <=> i + 1 \in Msgs
  /\ \A i \in Nat \ {0} : i \in Autos' <=> i + 1 \in Autos
  /\ \A i \in Msgs' : downlink'[i] = downlink[i + 1]

LEMMA Took ==
  ASSUME TypeOK, NEW type, Take(type)
  PROVE  /\ MovedUp /\ link = "up"
         /\ 1 \in DOMAIN downlink /\ Taken = downlink[1] /\ Taken \in Orders /\ Taken.type = type
         /\ 1 \in Msgs <=> type = "message"
         /\ 1 \in Autos <=> type = "compact" /\ Taken.of = "auto"
<1>1. downlink \in Seq(Orders) /\ downlink # <<>> /\ downlink' = Tail(downlink) /\ link = "up"
  BY DEF TypeOK, Take
<1>2. Taken = downlink[1] /\ 1 \in DOMAIN downlink /\ Taken \in Orders /\ Taken.type = type
  BY <1>1, TailFacts, TakeType DEF Taken
<1>3. MovedUp
  BY <1>1, TailFacts DEF MovedUp, Msgs, Autos
<1>4. 1 \in Msgs <=> type = "message"
  BY <1>2 DEF Msgs
<1>5. 1 \in Autos <=> type = "compact" /\ Taken.of = "auto"
  BY <1>2 DEF Autos, Orders
<1> QED
  BY <1>1, <1>2, <1>3, <1>4, <1>5
-----------------------------------------------------------------------------
(***************************************************************************)
(* What a step does to what the runner has sent.                           *)
(***************************************************************************)

\* The first frame is read, and all others move up.
ReadOn ==
  /\ \A i \in Nat \ {0} : i \in DOMAIN uplink' <=> i + 1 \in DOMAIN uplink
  /\ \A i \in DOMAIN uplink' : uplink'[i] = uplink[i + 1]
  /\ Len(uplink') = Len(uplink) - 1 /\ Len(uplink) \in Nat \ {0}
  /\ \A i \in Nat \ {0} : i \in Busys' <=> i + 1 \in Busys
  /\ \A i \in Nat \ {0} : i \in Results' <=> i + 1 \in Results

LEMMA Heard ==
  ASSUME TypeOK, NEW type, Hear(type)
  PROVE  /\ ReadOn
         /\ 1 \in DOMAIN uplink /\ Head(uplink) = uplink[1]
         /\ Head(uplink) \in Frames /\ Head(uplink).type = type
         /\ 1 \in Results <=> type = "result"
         /\ 1 \in Busys <=> Head(uplink) = Status("busy")
<1>1. uplink \in Seq(Frames) /\ uplink # <<>> /\ uplink' = Tail(uplink)
  BY DEF TypeOK, Hear
<1>2. Head(uplink) \in Frames /\ Head(uplink).type = type
  BY <1>1, HearType
<1>3. 1 \in DOMAIN uplink /\ Head(uplink) = uplink[1]
  BY <1>1, TailFacts
<1>4. ReadOn
  BY <1>1, TailFacts DEF ReadOn, Busys, Results
<1> QED
  BY <1>2, <1>3, <1>4 DEF Results, Busys

LEMMA StatusFrames ==
  /\ \A s : Status(s).type = "status" /\ Status(s).status = s
  /\ Status("ready") # Status("busy")
  /\ \A f \in Frames : f.type = "status" => f = Status(f.status)
BY DEF Status, Frames

\* The runner sends one frame more.
LEMMA Spoke ==
  ASSUME TypeOK, NEW f \in Frames, uplink' = Append(uplink, f)
  PROVE  /\ Len(uplink) \in Nat /\ Len(uplink') = Len(uplink) + 1
         /\ DOMAIN uplink = 1 .. Len(uplink) /\ DOMAIN uplink' = 1 .. Len(uplink) + 1
         /\ \A i \in DOMAIN uplink : uplink'[i] = uplink[i]
         /\ uplink'[Len(uplink) + 1] = f
         /\ Busys' = Busys \cup IF f = Status("busy") THEN {Len(uplink) + 1} ELSE {}
         /\ Results' = Results \cup IF f.type = "result" THEN {Len(uplink) + 1} ELSE {}
<1>1. uplink \in Seq(Frames)
  BY DEF TypeOK
<1> QED
  BY <1>1, AppendFacts DEF Busys, Results
-----------------------------------------------------------------------------
(***************************************************************************)
(* What is known to be busy stays known.                                   *)
(***************************************************************************)
LEMMA KnownSame ==
  ASSUME UNCHANGED <<row, uplink>>, NEW k, KnownBusy(k)
  PROVE  KnownBusy(k)'
BY DEF KnownBusy, Busys

\* A busy report that has not been read moves up.
LEMMA KnownMoved ==
  ASSUME TypeOK, NEW type, Hear(type), NEW k \in Nat, NEW i \in Busys, i # 1, i < k + 1,
         \A h \in DOMAIN uplink : i < h /\ h < k + 1 => uplink[h].type # "status"
  PROVE  KnownBusy(k)'
<1>1. ReadOn
  BY Heard
<1>2. DOMAIN uplink' \subseteq Nat \ {0} /\ Busys \subseteq Nat \ {0}
  <2>1. uplink' \in Seq(Frames) /\ uplink \in Seq(Frames)
    BY HearType DEF TypeOK
  <2> QED
    BY <2>1, LenProperties DEF Busys
<1>3. PICK m \in Nat \ {0} : m + 1 = i
  <2>1. i - 1 \in Nat \ {0} /\ (i - 1) + 1 = i
    BY <1>2
  <2> QED
    BY <2>1
<1>4. m \in Busys' /\ m < k
  BY <1>1, <1>3 DEF ReadOn
<1>5. ASSUME NEW h \in DOMAIN uplink', m < h, h < k PROVE uplink'[h].type # "status"
  <2>1. h \in Nat \ {0} /\ h + 1 \in DOMAIN uplink /\ uplink'[h] = uplink[h + 1]
    BY <1>1, <1>2 DEF ReadOn
  <2>2. i < h + 1 /\ h + 1 < k + 1
    BY <2>1, <1>3, <1>5
  <2> QED
    BY <2>1, <2>2
<1> QED
  BY <1>4, <1>5 DEF KnownBusy

LEMMA KnownReadOn ==
  ASSUME TypeOK, NEW type, Hear(type), type # "status", row' = row,
         NEW k \in Nat, KnownBusy(k + 1)
  PROVE  KnownBusy(k)'
<1>1. ReadOn /\ 1 \notin Busys
  BY Heard, StatusFrames
<1>2. DOMAIN uplink' \subseteq Nat \ {0} /\ Busys' \subseteq DOMAIN uplink'
  <2>1. uplink' \in Seq(Frames)
    BY HearType DEF TypeOK
  <2> QED
    BY <2>1, LenProperties DEF Busys
<1>3. CASE row = "busy" /\ Busys = {} /\ \A h \in DOMAIN uplink : h < k + 1 => uplink[h].type # "status"
  <2>1. Busys' = {}
    BY <1>1, <1>2, <1>3 DEF ReadOn
  <2>2. ASSUME NEW h \in DOMAIN uplink', h < k PROVE uplink'[h].type # "status"
    <3>1. h \in Nat \ {0} /\ h + 1 \in DOMAIN uplink /\ uplink'[h] = uplink[h + 1]
      BY <1>1, <1>2 DEF ReadOn
    <3>2. h + 1 < k + 1
      BY <3>1, <2>2
    <3> QED
      BY <1>3, <3>1, <3>2
  <2> QED
    BY <1>3, <2>1, <2>2 DEF KnownBusy
<1>4. CASE \E i \in Busys :
             i < k + 1 /\ \A h \in DOMAIN uplink : i < h /\ h < k + 1 => uplink[h].type # "status"
  BY <1>1, <1>4, KnownMoved
<1> QED
  BY <1>3, <1>4 DEF KnownBusy

\* A status is read: what was known of a later frame is so still.
LEMMA KnownStatus ==
  ASSUME TypeOK, Hear("status"), row' = Head(uplink).status, \A i, j \in Busys : i = j,
         NEW k \in Nat \ {0}, KnownBusy(k + 1)
  PROVE  KnownBusy(k)'
<1>1. ReadOn /\ 1 \in DOMAIN uplink /\ uplink[1].type = "status" /\ uplink[1] = Head(uplink)
  BY Heard
<1>2. DOMAIN uplink' \subseteq Nat \ {0} /\ Busys' \subseteq DOMAIN uplink'
  <2>1. uplink' \in Seq(Frames)
    BY HearType DEF TypeOK
  <2> QED
    BY <2>1, LenProperties DEF Busys
<1>3. PICK i \in Busys :
             i < k + 1 /\ \A h \in DOMAIN uplink : i < h /\ h < k + 1 => uplink[h].type # "status"
  <2>1. 1 < k + 1
    OBVIOUS
  <2> QED
    BY <2>1, <1>1 DEF KnownBusy
<1>4. CASE i = 1
  <2>1. row' = "busy"
    BY <1>1, <1>3, <1>4, StatusFrames DEF Busys
  <2>2. ASSUME NEW j \in Busys' PROVE FALSE
    <3>1. j \in Nat \ {0} /\ j + 1 \in Busys
      BY <1>1, <1>2 DEF ReadOn
    <3>2. j + 1 = 1
      BY <3>1, <1>3, <1>4
    <3> QED
      BY <3>1, <3>2
  <2>3. ASSUME NEW h \in DOMAIN uplink', h < k PROVE uplink'[h].type # "status"
    <3>1. h \in Nat \ {0} /\ h + 1 \in DOMAIN uplink /\ uplink'[h] = uplink[h + 1]
      BY <1>1, <1>2 DEF ReadOn
    <3>2. i < h + 1 /\ h + 1 < k + 1
      BY <3>1, <2>3, <1>4
    <3> QED
      BY <1>3, <3>1, <3>2
  <2> QED
    BY <2>1, <2>2, <2>3 DEF KnownBusy
<1>5. CASE i # 1
  BY <1>3, <1>5, KnownMoved
<1> QED
  BY <1>4, <1>5

\* The runner sends a frame more, which is no busy report.
LEMMA KnownGrow ==
  ASSUME TypeOK, NEW f \in Frames, uplink' = Append(uplink, f), f # Status("busy"), row' = row,
         NEW k \in Nat, k <= Len(uplink) + 1, KnownBusy(k)
  PROVE  KnownBusy(k)'
<1>1. /\ Len(uplink) \in Nat
      /\ DOMAIN uplink = 1 .. Len(uplink) /\ DOMAIN uplink' = 1 .. Len(uplink) + 1
      /\ \A i \in DOMAIN uplink : uplink'[i] = uplink[i]
      /\ Busys' = Busys
  BY Spoke
<1>2. \A h \in DOMAIN uplink' : h < k => h \in DOMAIN uplink /\ uplink'[h] = uplink[h]
  BY <1>1
<1> QED
  BY <1>1, <1>2 DEF KnownBusy

LEMMA KnownToTheEnd ==
  ASSUME TypeOK, NEW f \in Frames, uplink' = Append(uplink, f), f.type # "status", row' = row,
         NEW n, n = Len(uplink) + 1, KnownBusy(n)
  PROVE  KnownBusy(n + 1)'
<1>1. /\ Len(uplink) \in Nat
      /\ DOMAIN uplink = 1 .. Len(uplink) /\ DOMAIN uplink' = 1 .. Len(uplink) + 1
      /\ \A i \in DOMAIN uplink : uplink'[i] = uplink[i]
      /\ uplink'[Len(uplink) + 1] = f
      /\ Busys' = Busys
  BY Spoke, StatusFrames
<1>2. \A h \in DOMAIN uplink' : h # n => h \in DOMAIN uplink /\ h < n /\ uplink'[h] = uplink[h]
  BY <1>1
<1>3. n \in Nat /\ uplink'[n].type # "status"
  BY <1>1
<1>4. CASE row = "busy" /\ Busys = {} /\ \A h \in DOMAIN uplink : h < n => uplink[h].type # "status"
  <2>1. \A h \in DOMAIN uplink' : uplink'[h].type # "status"
    BY <1>2, <1>3, <1>4
  <2> QED
    BY <1>1, <1>4, <2>1 DEF KnownBusy
<1>5. ASSUME NEW i \in Busys, \A h \in DOMAIN uplink : i < h /\ h < n => uplink[h].type # "status"
      PROVE  KnownBusy(n + 1)'
  <2>1. \A h \in DOMAIN uplink' : i < h => uplink'[h].type # "status"
    BY <1>2, <1>3, <1>5
  <2>2. i < n + 1
    BY <1>1 DEF Busys
  <2> QED
    BY <1>1, <2>1, <2>2 DEF KnownBusy
<1> QED
  BY <1>4, <1>5 DEF KnownBusy

LEMMA KnownAtEnd ==
  ASSUME NEW n, n = Len(uplink') + 1, KnownBusy(n)'
  PROVE  KnownBusy(Len(uplink) + 1)'
BY DEF KnownBusy
-----------------------------------------------------------------------------
(***************************************************************************)
(* Each direction by itself, while nothing has gone wrong.                 *)
(***************************************************************************)

\* No message has come or gone, and the timer's compaction comes first.
DownKept ==
  /\ \A i, j \in Msgs' : i = j
  /\ Msgs' # {} => Msgs # {}
  /\ \A p : (\E i \in Msgs : downlink[i].of = p) => \E i \in Msgs' : downlink'[i].of = p
  /\ Autos' # {} => turns = {}
  /\ \A i \in Autos', j \in Msgs' : i < j

LEMMA DownSame ==
  ASSUME OneMessage, AutosFirst, UNCHANGED downlink
  PROVE  DownKept
BY DEF DownKept, OneMessage, AutosFirst, Msgs, Autos

LEMMA DownSent ==
  ASSUME TypeOK, OneMessage, AutosFirst, NEW o \in Orders, o.type # "message", Forward(o),
         o = [type |-> "compact", of |-> "auto"] /\ link = "up" => Msgs = {} /\ turns = {}
  PROVE  DownKept
<1>1. SameMessages /\ (Msgs = {} => Msgs' = {})
  BY SentOther
<1>2. /\ \A i, j \in Msgs' : i = j
      /\ Msgs' # {} => Msgs # {}
      /\ \A p : (\E i \in Msgs : downlink[i].of = p) => \E i \in Msgs' : downlink'[i].of = p
  BY <1>1 DEF SameMessages, OneMessage
<1>3. CASE o # [type |-> "compact", of |-> "auto"]
  <2>1. Autos' = Autos
    BY <1>3, SentOther
  <2> QED
    BY <1>1, <1>2, <2>1 DEF DownKept, SameMessages, AutosFirst
<1>4. CASE o = [type |-> "compact", of |-> "auto"] /\ link = "up"
  BY <1>1, <1>2, <1>4 DEF DownKept
<1>5. CASE link # "up"
  BY <1>5, DownSame DEF Forward
<1> QED
  BY <1>3, <1>4, <1>5

LEMMA DownTook ==
  ASSUME TypeOK, OneMessage, AutosFirst, NEW type, Take(type), type # "message"
  PROVE  DownKept
<1>1. MovedUp /\ 1 \notin Msgs
  BY Took
<1>2. Msgs \cup Autos \subseteq Nat \ {0} /\ Msgs' \cup Autos' \subseteq Nat \ {0}
  <2>1. downlink \in Seq(Orders) /\ downlink' \in Seq(Orders)
    BY TakeType DEF TypeOK
  <2> QED
    BY <2>1, LenProperties DEF Msgs, Autos
<1>3. ASSUME NEW i \in Msgs', NEW j \in Msgs' PROVE i = j
  <2>1. i \in Nat \ {0} /\ j \in Nat \ {0} /\ i + 1 \in Msgs /\ j + 1 \in Msgs
    BY <1>1, <1>2 DEF MovedUp
  <2>2. i + 1 = j + 1
    BY <2>1 DEF OneMessage
  <2> QED
    BY <2>1, <2>2
<1>4. Msgs' # {} => Msgs # {}
  BY <1>1, <1>2 DEF MovedUp
<1>5. ASSUME NEW i \in Msgs PROVE \E m \in Msgs' : downlink'[m] = downlink[i]
  <2>1. PICK m \in Nat \ {0} : m + 1 = i
    <3>1. i - 1 \in Nat \ {0} /\ (i - 1) + 1 = i
      BY <1>1, <1>2
    <3> QED
      BY <3>1
  <2>2. m \in Msgs'
    BY <1>1, <2>1 DEF MovedUp
  <2> QED
    BY <1>1, <2>1, <2>2 DEF MovedUp
<1>6. Autos' # {} => turns = {}
  BY <1>1, <1>2 DEF MovedUp, AutosFirst
<1>7. ASSUME NEW i \in Autos', NEW j \in Msgs' PROVE i < j
  <2>1. i \in Nat \ {0} /\ j \in Nat \ {0} /\ i + 1 \in Autos /\ j + 1 \in Msgs
    BY <1>1, <1>2 DEF MovedUp
  <2>2. i + 1 < j + 1
    BY <2>1 DEF AutosFirst
  <2> QED
    BY <2>1, <2>2
<1> QED
  BY <1>3, <1>4, <1>5, <1>6, <1>7 DEF DownKept

\* No busy report and no result is new, and what a step leaves to be read says
\* of a turn what it said before.
UpKept ==
  /\ \A i, j \in Busys' : i = j
  /\ Busys' # {} => Busys # {}
  /\ \A i, j \in Results' : i = j
  /\ Results' # {} => Results # {}
  /\ \A p : (\E i \in Results : uplink[i].of = p) => \E i \in Results' : uplink'[i].of = p
  /\ \A j \in Results' : KnownBusy(j)'
  /\ link' = "up" /\ turns # {} => KnownBusy(Len(uplink) + 1)'

LEMMA UpSame ==
  ASSUME OneMessage, BusyIsKnown, UNCHANGED <<row, uplink>>, link' = "up" => link = "up"
  PROVE  UpKept
<1>1. Busys' = Busys /\ Results' = Results
  BY DEF Busys, Results
<1>2. ASSUME NEW j \in Results PROVE KnownBusy(j)'
  BY KnownSame DEF BusyIsKnown
<1>3. link' = "up" /\ turns # {} => KnownBusy(Len(uplink) + 1)'
  <2>1. SUFFICES ASSUME link' = "up", turns # {} PROVE KnownBusy(Len(uplink) + 1)'
    OBVIOUS
  <2>2. PICK n : n = Len(uplink) + 1
    OBVIOUS
  <2>3. KnownBusy(n)
    BY <2>1, <2>2 DEF BusyIsKnown
  <2>4. n = Len(uplink') + 1
    BY <2>2
  <2> QED
    BY <2>3, <2>4, KnownSame, KnownAtEnd
<1> QED
  BY <1>1, <1>2, <1>3 DEF UpKept, OneMessage

LEMMA UpSpoke ==
  ASSUME TypeOK, OneMessage, BusyIsKnown, UNCHANGED <<row, link>>,
         NEW f \in Frames, uplink' = Append(uplink, f),
         f # Status("busy"), f.type # "result", f.type # "status" \/ turns = {}
  PROVE  UpKept
<1>1. /\ Len(uplink) \in Nat /\ Len(uplink') = Len(uplink) + 1
      /\ DOMAIN uplink = 1 .. Len(uplink)
      /\ \A i \in DOMAIN uplink : uplink'[i] = uplink[i]
      /\ Busys' = Busys /\ Results' = Results
  BY Spoke
<1>2. Results \subseteq DOMAIN uplink
  BY DEF Results
<1>3. ASSUME NEW j \in Results PROVE KnownBusy(j)'
  <2>1. j \in Nat /\ j <= Len(uplink) + 1 /\ KnownBusy(j)
    BY <1>1, <1>2 DEF BusyIsKnown
  <2> QED
    BY <2>1, KnownGrow
<1>4. link' = "up" /\ turns # {} => KnownBusy(Len(uplink) + 1)'
  <2>1. SUFFICES ASSUME link' = "up", turns # {} PROVE KnownBusy(Len(uplink) + 1)'
    OBVIOUS
  <2>2. PICK n : n = Len(uplink) + 1
    OBVIOUS
  <2>3. KnownBusy(n)
    BY <2>1, <2>2 DEF BusyIsKnown
  <2>4. KnownBusy(n + 1)'
    BY <2>1, <2>2, <2>3, KnownToTheEnd
  <2>5. n + 1 = Len(uplink') + 1
    BY <1>1, <2>2
  <2>6. PICK k : k = n + 1
    OBVIOUS
  <2> QED
    BY <2>4, <2>5, <2>6, KnownAtEnd
<1> QED
  BY <1>1, <1>2, <1>3, <1>4 DEF UpKept, OneMessage

\* What moves up when a frame is read that is no result.
LEMMA HeardOther ==
  ASSUME TypeOK, OneMessage, NEW type, Hear(type), type # "result"
  PROVE  /\ \A i, j \in Busys' : i = j
         /\ Busys' # {} => Busys # {}
         /\ \A i, j \in Results' : i = j
         /\ Results' # {} => Results # {}
         /\ \A p : (\E i \in Results : uplink[i].of = p) => \E i \in Results' : uplink'[i].of = p
         /\ \A j \in Results' : j \in Nat \ {0} /\ j + 1 \in Results
<1>1. ReadOn /\ 1 \notin Results
  BY Heard
<1>2. Busys \cup Results \subseteq Nat \ {0} /\ Busys' \cup Results' \subseteq Nat \ {0}
  <2>1. uplink \in Seq(Frames) /\ uplink' \in Seq(Frames)
    BY HearType DEF TypeOK
  <2> QED
    BY <2>1, LenProperties DEF Busys, Results
<1>3. ASSUME NEW i \in Busys', NEW j \in Busys' PROVE i = j
  <2>1. i \in Nat \ {0} /\ j \in Nat \ {0} /\ i + 1 \in Busys /\ j + 1 \in Busys
    BY <1>1, <1>2 DEF ReadOn
  <2>2. i + 1 = j + 1
    BY <2>1 DEF OneMessage
  <2> QED
    BY <2>1, <2>2
<1>4. \A j \in Results' : j \in Nat \ {0} /\ j + 1 \in Results
  BY <1>1, <1>2 DEF ReadOn
<1>5. ASSUME NEW i \in Results', NEW j \in Results' PROVE i = j
  <2>1. i + 1 = j + 1
    BY <1>4 DEF OneMessage
  <2> QED
    BY <1>4, <2>1
<1>6. Busys' # {} => Busys # {}
  BY <1>1, <1>2 DEF ReadOn
<1>7. Results' # {} => Results # {}
  BY <1>4
<1>8. ASSUME NEW i \in Results PROVE \E m \in Results' : uplink'[m] = uplink[i]
  <2>1. PICK m \in Nat \ {0} : m + 1 = i
    <3>1. i - 1 \in Nat \ {0} /\ (i - 1) + 1 = i
      BY <1>1, <1>2
    <3> QED
      BY <3>1
  <2>2. m \in Results'
    BY <1>1, <2>1 DEF ReadOn
  <2>3. m \in DOMAIN uplink'
    BY <2>2 DEF Results
  <2> QED
    BY <1>1, <2>1, <2>2, <2>3 DEF ReadOn
<1> QED
  BY <1>3, <1>4, <1>5, <1>6, <1>7, <1>8

\* A frame is read that leaves what was known of later ones.
LEMMA UpHeard ==
  ASSUME TypeOK, OneMessage, BusyIsKnown, NEW type, Hear(type), type # "result",
         link' = "up" /\ turns # {} => link = "up",
         \A k \in Nat \ {0} : KnownBusy(k + 1) => KnownBusy(k)'
  PROVE  UpKept
<1>1. ASSUME NEW j \in Results' PROVE KnownBusy(j)'
  <2>1. j \in Nat \ {0} /\ KnownBusy(j + 1)
    BY HeardOther DEF BusyIsKnown
  <2> QED
    BY <2>1
<1>2. ASSUME link' = "up", turns # {} PROVE KnownBusy(Len(uplink) + 1)'
  <2>1. Len(uplink) \in Nat \ {0} /\ Len(uplink') = Len(uplink) - 1
    BY Heard DEF ReadOn
  <2>2. PICK n \in Nat \ {0} : n = Len(uplink)
    BY <2>1
  <2>3. n + 1 = Len(uplink) + 1
    BY <2>2
  <2>4. KnownBusy(n + 1)
    BY <1>2, <2>3 DEF BusyIsKnown
  <2>5. n = Len(uplink') + 1
    BY <2>1, <2>2
  <2>6. KnownBusy(n)'
    BY <2>4
  <2> QED
    BY <2>5, <2>6, KnownAtEnd
<1> QED
  BY <1>1, <1>2, HeardOther DEF UpKept

\* Both directions together.
LEMMA Kept ==
  ASSUME CalmInv, DownKept, UpKept, UNCHANGED <<turns, socket, orphans>>,
         link' = link \/ (link = "opening" /\ link' = "up"),
         Waiting' \subseteq Waiting, OwnResult'
  PROVE  CalmInv'
<1>1. OneMessage'
  BY DEF CalmInv, OneMessage, DownKept, UpKept
<1>2. BusyIsKnown'
  BY DEF CalmInv, BusyIsKnown, UpKept
<1>3. ASSUME NEW p \in Waiting' \ orphans' PROVE OnItsWay(p)'
  <2>1. OnItsWay(p)
    BY <1>3 DEF CalmInv, WaitersInv
  <2>2. CASE \E i \in Msgs : downlink[i].of = p
    BY <2>2 DEF DownKept, OnItsWay
  <2>3. CASE \E t \in turns : t.of = p /\ link = "up"
    BY <2>3 DEF OnItsWay
  <2>4. CASE \E i \in Results : uplink[i].of = p
    BY <2>4 DEF UpKept, OnItsWay
  <2> QED
    BY <2>1, <2>2, <2>3, <2>4 DEF OnItsWay
<1>4. AutosFirst'
  BY DEF CalmInv, AutosFirst, DownKept
<1> QED
  BY <1>1, <1>2, <1>3, <1>4 DEF CalmInv, WaitersInv

\* Nothing of this is about who listens or asks.
LEMMA PostsSame ==
  ASSUME OwnResult, UNCHANGED <<post, orphans>>, mishaps = {}
  PROVE  Waiting' = Waiting /\ OwnResult'
BY DEF OwnResult, Waiting

LEMMA Still ==
  ASSUME CalmInv, UNCHANGED <<row, link, socket, downlink, uplink, turns, orphans>>,
         Waiting' \subseteq Waiting, OwnResult'
  PROVE  CalmInv'
<1>1. DownKept /\ UpKept
  BY DownSame, UpSame DEF CalmInv
<1> QED
  BY <1>1, Kept

\* The connection is gone, or new, and every POST that waits has lost it.
LEMMA Cut ==
  ASSUME TypeOK, downlink' = <<>>, uplink' = <<>> \/ uplink' = <<Status("ready")>>,
         turns' \subseteq turns, \A s, t \in turns : s = t,
         link' # "up", link' = "opening" => turns' = {},
         Waiting' \subseteq orphans', OwnResult'
  PROVE  CalmInv'
<1>1. Msgs' = {} /\ Autos' = {}
  BY DEF Msgs, Autos
<1>2. Busys' = {} /\ Results' = {}
  BY StatusFrames DEF Busys, Results
<1> QED
  BY <1>1, <1>2 DEF CalmInv, OneMessage, BusyIsKnown, WaitersInv, AutosFirst
-----------------------------------------------------------------------------
(***************************************************************************)
(* The steps that leave nothing amiss.                                     *)
(***************************************************************************)
LEMMA CalmClient ==
  ASSUME CalmInv, mishaps = {},
         \/ \E c \in Clients : Subscribe(c) \/ Unsubscribe(c) \/ ClientCloses(c)
         \/ \E q \in Queries : QueryTimesOut(q)
  PROVE  CalmInv'
<1>1. UNCHANGED <<row, runnerVars, post, orphans>>
  BY DEF Subscribe, Unsubscribe, ClientCloses, QueryTimesOut, waitVars
<1>2. Waiting' = Waiting /\ OwnResult'
  BY <1>1, PostsSame DEF CalmInv
<1> QED
  BY <1>1, <1>2, Still DEF runnerVars

LEMMA CalmTimeout ==
  ASSUME TypeOK, CalmInv, mishaps = {}, NEW p \in Messages, PostTimesOut(p)
  PROVE  CalmInv'
<1>1. UNCHANGED <<row, runnerVars, orphans>> /\ post' = [post EXCEPT ![p] = "late"]
  BY DEF PostTimesOut
<1>2. Waiting' \subseteq Waiting
  BY <1>1 DEF Waiting, TypeOK
<1>3. OwnResult'
  BY <1>1, RelayAssumption DEF OwnResult, PostStates, TypeOK, CalmInv
<1> QED
  BY <1>1, <1>2, <1>3, Still DEF runnerVars

\* A runner that nobody believes to be busy, and no message on its way.
LEMMA Idle ==
  ASSUME TypeOK, CalmInv, row = "ready", link = "up", ~InFlight
  PROVE  Msgs = {} /\ Busys = {} /\ turns = {} /\ Results = {}
<1>1. Msgs = {} /\ Busys = {}
  BY DEF InFlight, Msgs, Busys, Status
<1>2. \A k : ~KnownBusy(k)
  BY <1>1 DEF KnownBusy
<1> QED
  BY <1>1, <1>2 DEF CalmInv, BusyIsKnown

\* A message is sent to a runner that is idle.
LEMMA CalmSends ==
  ASSUME TypeOK, CalmInv, mishaps' = {}, NEW m \in Messages, link = "up", Admits, Raced,
         Forward([type |-> "message", of |-> m]),
         UNCHANGED <<row, link, socket, uplink, turns, orphans>>,
         Waiting' \subseteq Waiting \cup {m}, OwnResult'
  PROVE  CalmInv'
<1>1. ~InFlight
  BY DEF Raced
<1>2. Msgs = {} /\ Busys = {} /\ turns = {} /\ Results = {}
  BY <1>1, Idle DEF Admits
<1>3. PICK n \in Nat \ {0} :
           /\ Msgs' = {n} /\ downlink'[n].of = m
           /\ Autos' = Autos /\ \A i \in Autos : i < n
  BY <1>2, SentMessage
<1>4. Busys' = {} /\ Results' = {} /\ turns' = {}
  BY <1>2 DEF Busys, Results
<1>5. OneMessage' /\ BusyIsKnown' /\ AutosFirst'
  BY <1>3, <1>4 DEF OneMessage, BusyIsKnown, AutosFirst
<1>6. ASSUME NEW p \in Waiting' \ orphans' PROVE OnItsWay(p)'
  <2>1. p = m
    BY <1>2, <1>6 DEF CalmInv, WaitersInv, OnItsWay
  <2> QED
    BY <1>3, <2>1 DEF OnItsWay
<1> QED
  BY <1>5, <1>6 DEF CalmInv, WaitersInv

LEMMA CalmMessage ==
  ASSUME TypeOK, CalmInv, mishaps = {}, mishaps' = {}, NEW m \in Messages, PostMessage(m) \/ SendMessage(m)
  PROVE  CalmInv'
<1>1. /\ Admits /\ Raced /\ Forward([type |-> "message", of |-> m])
      /\ UNCHANGED <<row, link, socket, uplink, turns, orphans>>
  BY DEF PostMessage, SendMessage
<1>2. PICK s \in {"waits", "sent", "unsent"} :
           post' = [post EXCEPT ![m] = s] /\ (s = "waits" => link = "up")
  BY DEF PostMessage, SendMessage
<1>3. OwnResult'
  BY <1>1, <1>2, RelayAssumption DEF CalmInv, OwnResult, PostStates, TypeOK
<1>4. CASE link = "up"
  <2>1. Waiting' \subseteq Waiting \cup {m}
    BY <1>2 DEF Waiting, TypeOK
  <2> QED
    BY <1>1, <1>3, <1>4, <2>1, CalmSends
<1>5. CASE link # "up"
  <2>1. Waiting' \subseteq Waiting
    BY <1>2, <1>5 DEF Waiting, TypeOK
  <2>2. UNCHANGED downlink
    BY <1>1, <1>5 DEF Forward
  <2> QED
    BY <1>1, <1>3, <2>1, <2>2, Still
<1> QED
  BY <1>4, <1>5

LEMMA CalmAsk ==
  ASSUME TypeOK, CalmInv, mishaps = {}, mishaps' = {},
         \/ \E k \in Compacts : AskCompact(k)
         \/ \E q \in Queries : AskQuery(q) \/ AskContext(q) \/ ReadContext(q)
         \/ TimerFires
  PROVE  CalmInv'
<1>1. /\ UNCHANGED <<row, link, socket, uplink, turns, orphans, post>>
      /\ \/ UNCHANGED downlink
         \/ \E o \in Orders : /\ Forward(o) /\ o.type # "message"
                              /\ o = [type |-> "compact", of |-> "auto"] => row = "ready" /\ Raced
  <2>1. ASSUME NEW k \in Compacts, AskCompact(k) PROVE <1>1!:
    BY <2>1, OrderTypes, RelayAssumption DEF AskCompact, SendCompact, waitVars
  <2>2. ASSUME NEW q \in Queries, AskQuery(q) \/ AskContext(q) \/ ReadContext(q) PROVE <1>1!:
    BY <2>2, OrderTypes DEF AskQuery, AskContext, ReadContext, Ask, SendQuery
  <2>3. CASE TimerFires
    BY <2>3, OrderTypes DEF TimerFires, SendCompact, waitVars
  <2> QED
    BY <2>1, <2>2, <2>3
<1>2. Waiting' = Waiting /\ OwnResult'
  BY <1>1, PostsSame DEF CalmInv
<1>3. UpKept
  BY <1>1, UpSame DEF CalmInv
<1>4. CASE UNCHANGED downlink
  BY <1>1, <1>2, <1>4, Still
<1>5. ASSUME NEW o \in Orders, Forward(o), o.type # "message",
             o = [type |-> "compact", of |-> "auto"] => row = "ready" /\ Raced
      PROVE  CalmInv'
  <2>1. o = [type |-> "compact", of |-> "auto"] /\ link = "up" => Msgs = {} /\ turns = {}
    BY <1>5, Idle DEF Raced
  <2>2. DownKept
    BY <1>5, <2>1, DownSent DEF CalmInv
  <2> QED
    BY <1>1, <1>2, <1>3, <2>2, Kept
<1> QED
  BY <1>1, <1>4, <1>5

LEMMA CalmTakesMessage ==
  ASSUME TypeOK, CalmInv, mishaps = {}, TakeMessage
  PROVE  CalmInv'
<1>1. /\ Take("message") /\ uplink' = Append(uplink, Status("busy"))
      /\ turns' = turns \cup {[of |-> Taken.of, by |-> socket]}
      /\ UNCHANGED <<row, link, socket, orphans, post>>
  BY DEF TakeMessage, waitVars
<1>2. MovedUp /\ link = "up" /\ 1 \in Msgs /\ Taken = downlink[1]
  BY <1>1, Took
<1>3. turns = {} /\ Busys = {} /\ Results = {} /\ \A i \in Msgs : i = 1
  BY <1>2 DEF CalmInv, OneMessage
<1>4. Msgs \cup Autos \subseteq Nat \ {0} /\ Msgs' \cup Autos' \subseteq Nat \ {0}
  <2>1. downlink \in Seq(Orders) /\ downlink' \in Seq(Orders)
    BY <1>1, TakeType DEF TypeOK
  <2> QED
    BY <2>1, LenProperties DEF Msgs, Autos
<1>5. Msgs' = {}
  <2>1. ASSUME NEW i \in Msgs' PROVE FALSE
    <3>1. i \in Nat \ {0} /\ i + 1 \in Msgs
      BY <1>2, <1>4 DEF MovedUp
    <3>2. i + 1 = 1
      BY <1>3, <3>1
    <3> QED
      BY <3>1, <3>2
  <2> QED
    BY <2>1
<1>6. Autos' = {}
  <2>1. ASSUME NEW i \in Autos PROVE FALSE
    <3>1. i \in Nat \ {0} /\ i < 1
      BY <1>2, <1>4 DEF CalmInv, AutosFirst
    <3> QED
      BY <3>1
  <2> QED
    BY <2>1, <1>2, <1>4 DEF MovedUp
<1>7. PICK n : n = Len(uplink) + 1
  OBVIOUS
<1>8. /\ n \in Nat /\ n + 1 = Len(uplink') + 1 /\ DOMAIN uplink' = 1 .. n
      /\ Busys' = {n} /\ Results' = {}
  <2>1. Status("busy") \in Frames
    BY FrameTypes DEF Statuses
  <2> QED
    BY <1>1, <1>3, <1>7, <2>1, Spoke, StatusFrames
<1>9. KnownBusy(Len(uplink) + 1)'
  <2>1. n < n + 1 /\ \A h \in DOMAIN uplink' : ~(n < h)
    BY <1>8
  <2>2. KnownBusy(n + 1)'
    BY <1>8, <2>1 DEF KnownBusy
  <2>3. PICK k : k = n + 1
    OBVIOUS
  <2> QED
    BY <1>8, <2>2, <2>3, KnownAtEnd
<1>10. turns' = {[of |-> Taken.of, by |-> socket]}
  BY <1>1, <1>3
<1>11. OneMessage' /\ BusyIsKnown' /\ AutosFirst'
  BY <1>1, <1>2, <1>5, <1>6, <1>8, <1>9, <1>10 DEF OneMessage, BusyIsKnown, AutosFirst
<1>12. Waiting' = Waiting /\ OwnResult'
  BY <1>1, PostsSame DEF CalmInv
<1>13. ASSUME NEW p \in Waiting' \ orphans' PROVE OnItsWay(p)'
  <2>1. OnItsWay(p)
    BY <1>1, <1>12, <1>13 DEF CalmInv, WaitersInv
  <2>2. Taken.of = p
    BY <1>2, <1>3, <2>1 DEF OnItsWay
  <2>3. [of |-> Taken.of, by |-> socket].of = p
    BY <2>2
  <2> QED
    BY <1>1, <1>2, <1>10, <2>3 DEF OnItsWay
<1> QED
  BY <1>11, <1>12, <1>13 DEF CalmInv, WaitersInv

LEMMA CalmTakesOther ==
  ASSUME TypeOK, CalmInv, mishaps = {}, mishaps' = {}, TakeCompact \/ TakeQuery
  PROVE  CalmInv'
<1>1. UNCHANGED <<row, link, socket, turns, orphans, post>>
  BY DEF TakeCompact, TakeQuery, waitVars
<1>2. Waiting' = Waiting /\ OwnResult'
  BY <1>1, PostsSame DEF CalmInv
<1>3. DownKept
  BY DownTook DEF TakeCompact, TakeQuery, CalmInv
<1>4. CASE TakeCompact
  <2>1. uplink' = Append(uplink, Status("ready")) /\ turns = {}
    BY <1>4 DEF TakeCompact
  <2>2. Status("ready") \in Frames
    BY FrameTypes DEF Statuses
  <2>3. UpKept
    BY <1>1, <2>1, <2>2, UpSpoke, StatusFrames DEF CalmInv
  <2> QED
    BY <1>1, <1>2, <1>3, <2>3, Kept
<1>5. CASE TakeQuery
  <2>1. UpKept
    BY <1>1, <1>5, UpSame DEF CalmInv, TakeQuery
  <2> QED
    BY <1>1, <1>2, <1>3, <2>1, Kept
<1> QED
  BY <1>4, <1>5

LEMMA CalmAnswers ==
  ASSUME TypeOK, CalmInv, mishaps = {}, NEW q \in Queries, AnswerQuery(q)
  PROVE  CalmInv'
<1> DEFINE f == [type |-> "answer", of |-> q]
<1>1. Speak(socket, <<f>>) /\ UNCHANGED <<row, link, socket, downlink, turns, orphans, post>>
  BY DEF AnswerQuery, waitVars
<1>2. Waiting' = Waiting /\ OwnResult'
  BY <1>1, PostsSame DEF CalmInv
<1>3. f \in Frames /\ uplink \in Seq(Frames)
  BY FrameTypes DEF TypeOK
<1>4. CASE link = "up"
  <2>1. uplink' = Append(uplink, f)
    BY <1>1, <1>3, <1>4, AppendIsConcat DEF Speak
  <2>2. UpKept
    BY <1>1, <1>3, <2>1, UpSpoke, StatusFrames DEF CalmInv
  <2>3. DownKept
    BY <1>1, DownSame DEF CalmInv
  <2> QED
    BY <1>1, <1>2, <2>2, <2>3, Kept
<1>5. CASE link # "up"
  <2>1. UNCHANGED uplink
    BY <1>1, <1>5 DEF Speak
  <2> QED
    BY <1>1, <1>2, <2>1, Still
<1> QED
  BY <1>4, <1>5

\* Who waits when there is no socket has lost the connection.
LEMMA AllLost ==
  ASSUME SocketInv, CalmInv, link \in {"closing", "down", "dead"}
  PROVE  Waiting \subseteq orphans /\ uplink = <<>> /\ downlink = <<>>
<1>1. uplink = <<>> /\ downlink = <<>>
  BY DEF SocketInv
<1>2. Msgs = {} /\ Results = {}
  BY <1>1 DEF Msgs, Results
<1>3. ASSUME NEW p \in Waiting \ orphans PROVE FALSE
  BY <1>2, <1>3 DEF CalmInv, WaitersInv, OnItsWay
<1> QED
  BY <1>1, <1>3

\* The last frames of a turn, on the socket that is open.
LEMMA LastFrames ==
  ASSUME TypeOK, OneMessage, BusyIsKnown, row' = row, NEW t \in turns, NEW high \in BOOLEAN,
         link = "up",
         uplink' = uplink \o <<[type |-> "result", of |-> t.of], [type |-> "context", high |-> high],
                               Status("ready")>>
  PROVE  \E n \in Nat \ {0} :
           /\ Results' = {n} /\ uplink'[n].of = t.of
           /\ Busys' = Busys /\ KnownBusy(n)'
<1> DEFINE r == [type |-> "result", of |-> t.of]
           c == [type |-> "context", high |-> high]
           e == <<r, c, Status("ready")>>
<1>1. uplink \in Seq(Frames) /\ e \in Seq(Frames) /\ Len(e) = 3
  <2>1. r \in Frames /\ c \in Frames /\ Status("ready") \in Frames
    BY FrameTypes DEF TypeOK, Statuses
  <2> QED
    BY <2>1 DEF TypeOK
<1>2. /\ Len(uplink) \in Nat /\ DOMAIN uplink = 1 .. Len(uplink)
      /\ DOMAIN uplink' = 1 .. Len(uplink) + 3
      /\ \A i \in DOMAIN uplink : uplink'[i] = uplink[i]
      /\ \A i \in 1 .. 3 : uplink'[Len(uplink) + i] = e[i]
  BY <1>1, ConcatFacts
<1>3. PICK n \in Nat \ {0} : n = Len(uplink) + 1
  BY <1>2
<1>4. uplink'[n] = r /\ uplink'[n + 1] = c /\ uplink'[n + 2] = Status("ready")
  <2>1. e[1] = r /\ e[2] = c /\ e[3] = Status("ready")
    OBVIOUS
  <2>2. Len(uplink) + 1 = n /\ Len(uplink) + 2 = n + 1 /\ Len(uplink) + 3 = n + 2
    BY <1>2, <1>3
  <2>3. 1 \in 1 .. 3 /\ 2 \in 1 .. 3 /\ 3 \in 1 .. 3
    OBVIOUS
  <2> QED
    BY <1>2, <2>1, <2>2, <2>3
<1>5. ASSUME NEW h \in DOMAIN uplink' PROVE h \in DOMAIN uplink \/ h \in {n, n + 1, n + 2}
  BY <1>2, <1>3
<1>6. Results = {}
  BY DEF OneMessage
<1>7. {n, n + 1, n + 2} \subseteq DOMAIN uplink' /\ DOMAIN uplink \subseteq DOMAIN uplink'
  BY <1>2, <1>3
<1>8. Results' = {n}
  BY SMTT(30), <1>2, <1>4, <1>5, <1>6, <1>7, StatusFrames DEF Results
<1>9. Busys' = Busys
  BY <1>2, <1>4, <1>5, <1>7, StatusFrames DEF Busys
<1>10. KnownBusy(n)
  BY <1>3 DEF BusyIsKnown
<1>11. \A h \in DOMAIN uplink' : h < n => h \in DOMAIN uplink /\ uplink'[h] = uplink[h]
  BY <1>2, <1>3
<1>12. KnownBusy(n)'
  BY <1>9, <1>10, <1>11 DEF KnownBusy
<1>13. uplink'[n].of = t.of
  <2>1. uplink'[n] = r
    BY <1>4
  <2>2. r.of = t.of
    OBVIOUS
  <2> HIDE DEF r
  <2> QED
    BY <2>1, <2>2
<1> QED
  BY <1>8, <1>9, <1>12, <1>13

LEMMA CalmEnds ==
  ASSUME TypeOK, SocketInv, CalmInv, mishaps = {}, NEW t \in turns, EndTurn(t)
  PROVE  CalmInv'
<1>1. /\ turns' = turns \ {t} /\ \A s \in turns : s = t
      /\ UNCHANGED <<row, link, socket, downlink, orphans, post>>
  BY DEF EndTurn, CalmInv, OneMessage, waitVars
<1>2. Waiting' = Waiting /\ OwnResult'
  BY <1>1, PostsSame DEF CalmInv
<1>3. CASE link = "up"
  <2>1. t.by = socket
    BY <1>3 DEF CalmInv, BusyIsKnown
  <2>2. PICK high \in BOOLEAN :
             uplink' = uplink \o <<[type |-> "result", of |-> t.of], [type |-> "context", high |-> high],
                                   Status("ready")>>
    BY <1>3, <2>1 DEF EndTurn, Speak
  <2>3. PICK n \in Nat \ {0} :
             /\ Results' = {n} /\ uplink'[n].of = t.of
             /\ Busys' = Busys /\ KnownBusy(n)'
    BY <1>1, <1>3, <2>2, LastFrames DEF CalmInv
  <2>4. Msgs = {} /\ Autos = {} /\ Results = {}
    BY DEF CalmInv, OneMessage, AutosFirst
  <2>5. Msgs' = {} /\ Autos' = {} /\ turns' = {}
    BY <1>1, <2>4 DEF Msgs, Autos
  <2>6. OneMessage' /\ BusyIsKnown' /\ AutosFirst'
    BY <2>3, <2>5 DEF CalmInv, OneMessage, BusyIsKnown, AutosFirst
  <2>7. ASSUME NEW p \in Waiting' \ orphans' PROVE OnItsWay(p)'
    <3>1. OnItsWay(p)
      BY <1>1, <1>2, <2>7 DEF CalmInv, WaitersInv
    <3>2. t.of = p
      BY <1>1, <2>4, <3>1 DEF OnItsWay
    <3> QED
      BY <2>3, <3>2 DEF OnItsWay
  <2> QED
    BY <1>2, <2>6, <2>7 DEF CalmInv, WaitersInv
<1>4. CASE link = "opening"
  BY <1>4 DEF CalmInv, BusyIsKnown
<1>5. CASE link \in {"closing", "down", "dead"}
  <2>1. Waiting \subseteq orphans /\ uplink = <<>> /\ downlink = <<>>
    BY <1>5, AllLost
  <2>2. UNCHANGED uplink
    BY <1>5 DEF EndTurn, Speak
  <2> QED
    BY <1>1, <1>2, <1>5, <2>1, <2>2, Cut
<1> QED
  BY <1>3, <1>4, <1>5 DEF TypeOK

\* A frame but the result is read; a socket that opens has only its first.
LEMMA CalmHears ==
  ASSUME TypeOK, SocketInv, CalmInv, mishaps = {}, HearStatus \/ HearContext \/ HearAnswer
  PROVE  CalmInv'
<1>1. /\ UNCHANGED <<socket, turns, orphans, post>>
      /\ link' = link \/ (link = "opening" /\ link' = "up")
  <2>1. link \in {"up", "opening"}
    BY DEF HearStatus, HearContext, HearAnswer, Hear
  <2> QED
    BY <2>1 DEF HearStatus, HearContext, HearAnswer, waitVars
<1>2. Waiting' = Waiting /\ OwnResult'
  BY <1>1, PostsSame DEF CalmInv
<1>3. OneMessage /\ BusyIsKnown /\ AutosFirst
  BY DEF CalmInv
<1>4. link' = "up" /\ turns # {} => link = "up"
  BY <1>1, <1>3 DEF BusyIsKnown
<1>5. DownKept
  <2>1. CASE UNCHANGED downlink
    BY <1>3, <2>1, DownSame
  <2>2. ASSUME NEW q \in Queries, SendQuery(q) PROVE DownKept
    <3> DEFINE o == [type |-> "query", of |-> q]
    <3>1. o \in Orders /\ o.type # "message" /\ o # [type |-> "compact", of |-> "auto"] /\ Forward(o)
      BY <2>2, OrderTypes DEF SendQuery
    <3> QED
      BY <1>3, <3>1, DownSent
  <2>3. HearAnswer => UNCHANGED downlink \/ \E q \in Queries : SendQuery(q)
    <3>1. HearAnswer => Head(uplink).of \in Queries
      BY HearType, FrameTypes DEF HearAnswer, TypeOK
    <3> QED
      BY <3>1 DEF HearAnswer
  <2> QED
    BY <2>1, <2>2, <2>3 DEF HearStatus, HearContext
<1>6. UpKept
  <2>1. CASE HearStatus
    <3>1. Hear("status") /\ row' = Head(uplink).status
      BY <2>1 DEF HearStatus
    <3>2. \A k \in Nat \ {0} : KnownBusy(k + 1) => KnownBusy(k)'
      BY <1>3, <3>1, KnownStatus DEF OneMessage
    <3> QED
      BY <1>3, <1>4, <3>1, <3>2, UpHeard
  <2>2. ASSUME NEW type \in {"context", "answer"}, Hear(type), row' = row PROVE UpKept
    <3>1. \A k \in Nat \ {0} : KnownBusy(k + 1) => KnownBusy(k)'
      BY <2>2, KnownReadOn
    <3> QED
      BY <1>3, <1>4, <2>2, <3>1, UpHeard
  <2> QED
    BY <2>1, <2>2 DEF HearContext, HearAnswer
<1> QED
  BY <1>1, <1>2, <1>5, <1>6, Kept

\* The only result under way goes to the only POST that can have caused it.
LEMMA CalmResult ==
  ASSUME TypeOK, ListenersMatch, CalmInv, mishaps = {}, HearResult
  PROVE  CalmInv'
<1>1. /\ Hear("result") /\ UNCHANGED <<row, link, socket, downlink, turns, orphans>>
      /\ post' = [p \in Messages |-> IF p \in Messages \cap Listening("event")
                                       THEN Head(uplink).of ELSE post[p]]
  BY DEF HearResult
<1>2. /\ ReadOn /\ 1 \in Results /\ Head(uplink) = uplink[1] /\ Head(uplink).of \in Messages
  BY <1>1, Heard, FrameTypes
<1>3. Messages \cap Listening("event") = Waiting
  BY Hearers
<1>4. Msgs = {} /\ turns = {} /\ \A i \in Results : i = 1
  BY <1>2 DEF CalmInv, OneMessage
<1>5. Busys \cup Results \subseteq Nat \ {0} /\ Busys' \cup Results' \subseteq Nat \ {0}
  <2>1. uplink \in Seq(Frames) /\ uplink' \in Seq(Frames)
    BY <1>1, HearType DEF TypeOK
  <2> QED
    BY <2>1, LenProperties DEF Busys, Results
<1>6. Results' = {}
  <2>1. ASSUME NEW i \in Results' PROVE FALSE
    <3>1. i \in Nat \ {0} /\ i + 1 \in Results
      BY <1>2, <1>5 DEF ReadOn
    <3>2. i + 1 = 1
      BY <1>4, <3>1
    <3> QED
      BY <3>1, <3>2
  <2> QED
    BY <2>1
<1>7. ASSUME NEW i \in Busys', NEW j \in Busys' PROVE i = j
  <2>1. i \in Nat \ {0} /\ j \in Nat \ {0} /\ i + 1 \in Busys /\ j + 1 \in Busys
    BY <1>2, <1>5 DEF ReadOn
  <2>2. i + 1 = j + 1
    BY <2>1 DEF CalmInv, OneMessage
  <2> QED
    BY <2>1, <2>2
<1>8. Msgs' = {} /\ Autos' = Autos /\ turns' = {}
  BY <1>1, <1>4 DEF Msgs, Autos
<1>9. OneMessage' /\ BusyIsKnown' /\ AutosFirst'
  BY <1>6, <1>7, <1>8 DEF OneMessage, BusyIsKnown, AutosFirst
<1>10. Waiting' = {}
  BY <1>1, <1>2, <1>3, RelayAssumption DEF Waiting, PostStates
<1>11. OwnResult'
  <2>1. ASSUME NEW p \in Messages \ orphans, p \in Waiting PROVE Head(uplink).of = p
    <3>1. OnItsWay(p)
      BY <2>1 DEF CalmInv, WaitersInv
    <3> QED
      BY <1>2, <1>4, <3>1 DEF OnItsWay
  <2>2. ASSUME NEW p \in Messages \ orphans', post'[p] \in Messages PROVE post'[p] = p
    <3>1. CASE p \in Waiting
      BY <1>1, <1>3, <2>1, <3>1
    <3>2. CASE p \notin Waiting
      BY <1>1, <1>3, <2>2, <3>2 DEF CalmInv, OwnResult
    <3> QED
      BY <3>1, <3>2
  <2> QED
    BY <2>2 DEF OwnResult
<1> QED
  BY <1>9, <1>10, <1>11 DEF CalmInv, WaitersInv

LEMMA CalmSocket ==
  ASSUME TypeOK, SocketInv, CalmInv, mishaps = {}, mishaps' = {},
         LinkBreaks \/ CloseHeard \/ Reconnect \/ StopBegins \/ StopEnds
  PROVE  CalmInv'
<1>1. UNCHANGED post /\ Waiting' = Waiting /\ \A s, t \in turns : s = t
  BY DEF LinkBreaks, CloseHeard, Reconnect, StopBegins, StopEnds, runnerVars, waitVars, Waiting,
         CalmInv, OneMessage
<1>2. orphans \subseteq orphans'
  BY DEF LinkBreaks, CloseHeard, Reconnect, StopBegins, StopEnds
<1>3. OwnResult'
  BY <1>1, <1>2 DEF CalmInv, OwnResult
<1>4. CASE LinkBreaks \/ StopBegins
  <2>1. downlink' = <<>> /\ uplink' = <<>> /\ link' \in {"closing", "dead"} /\ turns' \subseteq turns
    BY <1>4 DEF LinkBreaks, StopBegins
  <2>2. Waiting' \subseteq orphans'
    BY <1>1, <1>4 DEF LinkBreaks, StopBegins
  <2> QED
    BY <1>1, <1>3, <2>1, <2>2, Cut
<1>5. CASE CloseHeard \/ Reconnect \/ StopEnds
  <2>1. link \in {"closing", "down", "dead"}
    BY <1>5 DEF CloseHeard, Reconnect, StopEnds, SocketInv
  <2>2. Waiting \subseteq orphans /\ uplink = <<>> /\ downlink = <<>>
    BY <2>1, AllLost
  <2>3. /\ UNCHANGED <<downlink, turns, orphans>>
        /\ uplink' = <<>> \/ uplink' = <<Status("ready")>>
        /\ link' # "up" /\ (link' = "opening" => turns = {})
    BY <1>5, <2>1, <2>2 DEF CloseHeard, Reconnect, StopEnds, runnerVars
  <2> QED
    BY <1>1, <1>3, <2>2, <2>3, Cut
<1> QED
  BY <1>4, <1>5
-----------------------------------------------------------------------------
(***************************************************************************)
(* All steps.                                                              *)
(***************************************************************************)
LEMMA SocketStep ==
  ASSUME TypeOK, SocketInv, [Next]_vars
  PROVE  SocketInv'
<1>1. ASSUME UNCHANGED <<stop, link, uplink, downlink>> PROVE SocketInv'
  BY <1>1 DEF SocketInv
<1>2. ASSUME link = "up", UNCHANGED <<stop, link>> PROVE SocketInv'
  BY <1>2 DEF SocketInv
<1>3. ASSUME NEW c \in Clients, Subscribe(c) \/ Unsubscribe(c) \/ ClientCloses(c) PROVE SocketInv'
  BY <1>1, <1>3 DEF Subscribe, Unsubscribe, ClientCloses, runnerVars
<1>4. ASSUME NEW m \in Messages, PostMessage(m) \/ PostTimesOut(m) \/ SendMessage(m) PROVE SocketInv'
  BY <1>1, <1>2, <1>4 DEF PostMessage, PostTimesOut, SendMessage, Forward, runnerVars
<1>5. ASSUME NEW k \in Compacts, AskCompact(k) PROVE SocketInv'
  BY <1>1, <1>2, <1>5 DEF AskCompact, SendCompact, Forward
<1>6. ASSUME NEW q \in Queries, AskQuery(q) \/ AskContext(q) \/ ReadContext(q) PROVE SocketInv'
  BY <1>1, <1>2, <1>6 DEF AskQuery, AskContext, ReadContext, Ask, SendQuery, Forward
<1>7. ASSUME NEW q \in Queries, QueryTimesOut(q) \/ AnswerQuery(q) PROVE SocketInv'
  BY <1>1, <1>2, <1>7 DEF QueryTimesOut, AnswerQuery, Speak, runnerVars
<1>8. CASE TakeMessage \/ TakeCompact \/ TakeQuery
  BY <1>2, <1>8 DEF TakeMessage, TakeCompact, TakeQuery, Take
<1>9. ASSUME NEW t \in turns, EndTurn(t) PROVE SocketInv'
  BY <1>1, <1>2, <1>9 DEF EndTurn, Speak
<1>10. CASE HearStatus
  BY <1>10 DEF HearStatus, Hear, SocketInv
<1>11. ASSUME NEW type, type # "status", Hear(type) PROVE link = "up"
  <2>1. uplink # <<Status("ready")>>
    BY <1>11, StatusFrames DEF Hear
  <2> QED
    BY <1>11, <2>1 DEF Hear, SocketInv
<1>12. CASE HearResult \/ HearContext \/ HearAnswer
  BY <1>2, <1>11, <1>12 DEF HearResult, HearContext, HearAnswer
<1>13. CASE TimerFires
  BY <1>1, <1>2, <1>13 DEF TimerFires, SendCompact, Forward
<1>14. CASE LinkBreaks \/ CloseHeard \/ StopBegins
  BY <1>14 DEF LinkBreaks, CloseHeard, StopBegins, SocketInv
<1>15. CASE Reconnect
  BY <1>15 DEF Reconnect, SocketInv
<1>16. CASE StopEnds
  BY <1>16 DEF StopEnds, SocketInv, runnerVars
<1>17. CASE UNCHANGED vars
  BY <1>1, <1>17 DEF vars, runnerVars
<1> QED
  BY <1>3, <1>4, <1>5, <1>6, <1>7, <1>8, <1>9, <1>10, <1>12, <1>13, <1>14, <1>15, <1>16, <1>17 DEF Next

LEMMA MishapsStay ==
  ASSUME [Next]_vars
  PROVE  mishaps \subseteq mishaps'
BY DEF Next, Subscribe, Unsubscribe, ClientCloses, PostMessage, PostTimesOut, SendMessage, AskCompact, AskQuery,
       AskContext, ReadContext, Ask, QueryTimesOut, AnswerQuery, TakeMessage, TakeCompact, TakeQuery, EndTurn,
       HearStatus, HearResult, HearContext, HearAnswer, TimerFires, Raced, LinkBreaks, CloseHeard, Reconnect,
       StopBegins, StopEnds, vars

LEMMA PipeStep ==
  ASSUME TypeOK, ListenersMatch, PipeInv, [Next]_vars
  PROVE  PipeInv'
<1>1. SocketInv'
  BY SocketStep DEF PipeInv
<1> SUFFICES ASSUME mishaps' = {} PROVE CalmInv'
  BY <1>1 DEF PipeInv
<1>2. mishaps = {} /\ SocketInv /\ CalmInv
  BY MishapsStay DEF PipeInv
<1>3. ASSUME NEW c \in Clients, Subscribe(c) \/ Unsubscribe(c) \/ ClientCloses(c) PROVE CalmInv'
  BY <1>2, <1>3, CalmClient
<1>4. ASSUME NEW m \in Messages, PostMessage(m) \/ PostTimesOut(m) \/ SendMessage(m) PROVE CalmInv'
  BY <1>2, <1>4, CalmMessage, CalmTimeout
<1>5. ASSUME NEW k \in Compacts, AskCompact(k) PROVE CalmInv'
  BY <1>2, <1>5, CalmAsk
<1>6. ASSUME NEW q \in Queries,
             AskQuery(q) \/ AskContext(q) \/ ReadContext(q) \/ QueryTimesOut(q) \/ AnswerQuery(q)
      PROVE  CalmInv'
  BY <1>2, <1>6, CalmAsk, CalmClient, CalmAnswers
<1>7. CASE TakeMessage \/ TakeCompact \/ TakeQuery
  BY <1>2, <1>7, CalmTakesMessage, CalmTakesOther
<1>8. ASSUME NEW t \in turns, EndTurn(t) PROVE CalmInv'
  BY <1>2, <1>8, CalmEnds
<1>9. CASE HearStatus \/ HearResult \/ HearContext \/ HearAnswer
  BY <1>2, <1>9, CalmHears, CalmResult
<1>10. CASE TimerFires
  BY <1>2, <1>10, CalmAsk
<1>11. CASE LinkBreaks \/ CloseHeard \/ Reconnect \/ StopBegins \/ StopEnds
  BY <1>2, <1>11, CalmSocket
<1>12. CASE UNCHANGED vars
  <2>1. UNCHANGED <<row, runnerVars, post, orphans>>
    BY <1>12 DEF vars, waitVars
  <2>2. Waiting' = Waiting /\ OwnResult'
    BY <1>2, <2>1, PostsSame DEF CalmInv
  <2> QED
    BY <1>2, <2>1, <2>2, Still DEF runnerVars
<1> QED
  BY <1>3, <1>4, <1>5, <1>6, <1>7, <1>8, <1>9, <1>10, <1>11, <1>12 DEF Next

LEMMA PipeInit == Init => PipeInv
<1> SUFFICES ASSUME Init PROVE PipeInv
  OBVIOUS
<1>1. Msgs = {} /\ Busys = {} /\ Results = {} /\ Autos = {} /\ turns = {}
  BY DEF Init, Msgs, Busys, Results, Autos
<1>2. Waiting = {} /\ \A p \in Messages : post[p] \notin Messages
  BY RelayAssumption DEF Init, Waiting, PostStates
<1>3. SocketInv
  BY DEF Init, SocketInv
<1> QED
  BY <1>1, <1>2, <1>3 DEF PipeInv, CalmInv, OneMessage, BusyIsKnown, WaitersInv, AutosFirst, OwnResult

LEMMA PipeInvariant == Spec => []PipeInv
<1>1. TypeInv /\ ListenersMatch /\ PipeInv /\ [Next]_vars => PipeInv'
  BY PipeStep DEF TypeInv
<1> QED
  BY <1>1, PipeInit, TypeInvariant, ListenersInvariant, PTL DEF Spec
-----------------------------------------------------------------------------
\* A POST is answered with the result of its own message, whatever timed out,
\* subscribed or asked in between: unless the connection broke while it waited,
\* two messages raced, or "ready" was reported in the middle of a turn.
THEOREM OwnResultAlways == Spec => []OwnResult
<1>1. PipeInv => OwnResult
  BY DEF PipeInv, CalmInv, OwnResult
<1> QED
  BY <1>1, PipeInvariant, PTL

\* The compaction that the idle timer asks for never reaches a runner with a
\* turn, but for the same accidents.
THEOREM CompactsIdleAlways == Spec => CompactsIdle
<1>1. TypeOK /\ PipeInv => (Take("compact") /\ Taken.of = "auto" /\ turns # {} => mishaps # {})
  <2> SUFFICES ASSUME TypeOK, PipeInv, Take("compact"), Taken.of = "auto", mishaps = {} PROVE turns = {}
    OBVIOUS
  <2>1. 1 \in Autos
    BY Took
  <2> QED
    BY <2>1 DEF PipeInv, CalmInv, AutosFirst
<1>2. TypeInv => TypeOK
  BY DEF TypeInv
<1> QED
  BY <1>1, <1>2, TypeInvariant, PipeInvariant, PTL DEF CompactsIdle
=============================================================================
