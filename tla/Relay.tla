-------------------------------- MODULE Relay --------------------------------
(***************************************************************************)
(* The orchestrator between the clients of one session and its runner:     *)
(* subscriptions and frames of the client WebSocket (client-ws.ts), the    *)
(* events of the runner's socket and the waits for answers (ws-bridge.ts), *)
(* messages posted over HTTP that wait for a result (session-runtime.ts),  *)
(* and the timer that compacts an idle session (auto-compact.ts).          *)
(*                                                                         *)
(* Results carry no id: who listens when one arrives takes it.  The runner *)
(* is what RunnerTurn and Conversation show it to be, without steers.      *)
(***************************************************************************)
EXTENDS Integers, FiniteSets, SequencesExt

CONSTANTS
  Clients,     \* connections of clients
  Messages,    \* messages for the runner, over HTTP or by a "send" frame
  Queries,     \* get_commands, mcp and context requests
  Compacts,    \* "compact" frames and POST /sessions/:id/context/compact
  Faults,      \* a subset of {"breaks", "stops", "grows", "timeouts"}
  MaxSockets   \* bound on the sockets the runner opens after its first

\* What becomes of a message, other than the answer to its POST.
PostStates == {"new", "sent", "waits", "unsent", "late"}

ASSUME RelayAssumption ==
  /\ IsFiniteSet(Clients) /\ IsFiniteSet(Messages)
  /\ Messages \cap (Queries \cup Clients \cup PostStates) = {}
  /\ "auto" \notin Compacts
  /\ MaxSockets \in Nat

VARIABLES
  row,        \* the status column of the session
  link,       \* the runner's socket: "up", "closing", "down", "opening" or "dead"
  socket,     \* the number of the runner's current socket
  downlink,   \* commands on their way to the runner
  uplink,     \* what the runner sent and the bridge has not read yet
  turns,      \* the turns of the runner: the message and the socket it came by
  asking,     \* the queries the runner has not answered yet
  listeners,  \* the listeners of the bridge: <<event, who>>
  subs,       \* the clients that have subscribed
  gone,       \* the clients that have closed their connection
  told,       \* client -> the status it was last told
  post,       \* message -> "new", "sent" by a frame, or of its POST: "waits", or the answer
  query,      \* query -> "new", "reads" (statistics follow), "waits", "answered"
  asked,      \* the other commands clients have sent
  full,       \* contextPct: is the context above the threshold?
  timer,      \* the idle timer is set
  stop,       \* "no", "killing", "done": POST /sessions/:id/stop
  orphans,    \* POSTs that waited when the connection broke
  mishaps     \* what makes the runner's status, or the next result, another's

runnerVars == <<link, socket, downlink, uplink, turns, asking>>
clientVars == <<subs, gone, told, asked>>
waitVars   == <<post, query>>
timerVars  == <<full, timer>>
vars == <<row, runnerVars, listeners, clientVars, waitVars, timerVars, stop, orphans, mishaps>>

Statuses == {"ready", "busy", "stopped"}

SessionEvents == {"status", "event", "error", "context_state", "permission_request"}

\* The POSTs and the queries that wait for the runner.
Waiting == {p \in Messages : post[p] = "waits"}
Awaited == {q \in Queries : query[q] \in {"reads", "waits"}}

\* The listeners of a subscription, of a POST and of a query.
OfClient(c) == SessionEvents \X {c}
OfPost(p) == {"event", "error"} \X {p}
OfQuery(q) == {"answer"} \X {q}

OfClients(C) == UNION {OfClient(c) : c \in C}
OfPosts(P) == UNION {OfPost(p) : p \in P}
OfQueries(Q) == UNION {OfQuery(q) : q \in Q}

Frames == [type : {"status"}, status : Statuses] \cup [type : {"result"}, of : Messages]
            \cup [type : {"context"}, high : BOOLEAN] \cup [type : {"answer"}, of : Queries]

\* "auto" is the compaction the timer asks for.
Orders == [type : {"message"}, of : Messages] \cup [type : {"query"}, of : Queries]
            \cup [type : {"compact"}, of : Compacts \cup {"auto"}]

TypeOK ==
  /\ row \in Statuses
  /\ link \in {"up", "closing", "down", "opening", "dead"}
  /\ socket \in 0 .. MaxSockets
  /\ downlink \in Seq(Orders) /\ uplink \in Seq(Frames)
  /\ turns \subseteq [of : Messages, by : 0 .. MaxSockets]
  /\ asking \subseteq Queries
  /\ \A l \in listeners : \/ \E c \in Clients : l \in OfClient(c)
                          \/ \E p \in Messages : l \in OfPost(p)
                          \/ \E q \in Queries : l \in OfQuery(q)
  /\ subs \subseteq Clients /\ gone \subseteq Clients \ subs
  /\ told \in [Clients -> Statuses \cup {"nothing"}]
  /\ post \in [Messages -> PostStates \cup Messages]
  /\ query \in [Queries -> {"new", "reads", "waits", "answered"}]
  /\ asked \subseteq Compacts
  /\ full \in BOOLEAN /\ timer \in BOOLEAN
  /\ stop \in {"no", "killing", "done"}
  /\ orphans \subseteq Messages
  /\ mishaps \subseteq {"raced", "misreported"}

\* A session that is ready, its runner connected.
Init ==
  /\ row = "ready" /\ link = "up" /\ socket = 0
  /\ downlink = <<>> /\ uplink = <<>> /\ turns = {} /\ asking = {}
  /\ listeners = {} /\ subs = {} /\ gone = {}
  /\ told = [c \in Clients |-> "nothing"]
  /\ post = [p \in Messages |-> "new"]
  /\ query = [q \in Queries |-> "new"]
  /\ asked = {} /\ full = FALSE /\ timer = FALSE
  /\ stop = "no" /\ orphans = {} /\ mishaps = {}
-----------------------------------------------------------------------------
(***************************************************************************)
(* Subscriptions.                                                          *)
(***************************************************************************)
Subscribe(c) ==
  /\ c \notin subs \cup gone
  /\ subs' = subs \cup {c}
  /\ listeners' = listeners \cup OfClient(c)
  /\ told' = [told EXCEPT ![c] = row]
  /\ UNCHANGED <<row, runnerVars, gone, asked, waitVars, timerVars, stop, orphans, mishaps>>

Unsubscribe(c) ==
  /\ c \in subs
  /\ subs' = subs \ {c}
  /\ listeners' = listeners \ OfClient(c)
  /\ told' = [told EXCEPT ![c] = "nothing"]
  /\ UNCHANGED <<row, runnerVars, gone, asked, waitVars, timerVars, stop, orphans, mishaps>>

\* Mutant of ClientCloses: the subscriptions are dropped, their listeners not.
ClientClosesOnly(c) ==
  /\ c \notin gone
  /\ gone' = gone \cup {c} /\ subs' = subs \ {c}
  /\ told' = [told EXCEPT ![c] = "nothing"]
  /\ UNCHANGED <<row, runnerVars, listeners, asked, waitVars, timerVars, stop, orphans, mishaps>>

\* The connection of a client closes, with its subscription if it has one.
ClientCloses(c) ==
  /\ c \notin gone
  /\ gone' = gone \cup {c} /\ subs' = subs \ {c}
  /\ listeners' = listeners \ OfClient(c)
  /\ told' = [told EXCEPT ![c] = "nothing"]
  /\ UNCHANGED <<row, runnerVars, asked, waitVars, timerVars, stop, orphans, mishaps>>
-----------------------------------------------------------------------------
(***************************************************************************)
(* What clients ask for.  Refusals change nothing and are left out.        *)
(***************************************************************************)

\* A message the runner has not reported yet to have begun.
InFlight ==
  \/ \E i \in DOMAIN downlink : downlink[i].type = "message"
  \/ \E i \in DOMAIN uplink : uplink[i] = [type |-> "status", status |-> "busy"]

\* Mutant of Admits: no look at whether a turn runs.
AdmitsBusy == row # "stopped"

\* A message is refused by a busy or stopped session.
Admits == row = "ready"

\* send*() of the bridge: the command is written if the socket is open.
Forward(command) ==
  downlink' = IF link = "up" THEN Append(downlink, command) ELSE downlink

Raced == mishaps' = mishaps \cup IF InFlight /\ link = "up" THEN {"raced"} ELSE {}

\* sendAndCollect(): the listeners are removed again if nothing was sent.
PostMessage(p) ==
  /\ post[p] = "new" /\ Admits
  /\ Forward([type |-> "message", of |-> p])
  /\ Raced
  /\ IF link = "up"
     THEN /\ post' = [post EXCEPT ![p] = "waits"]
          /\ listeners' = listeners \cup OfPost(p)
     ELSE /\ post' = [post EXCEPT ![p] = "unsent"]
          /\ UNCHANGED listeners
  /\ UNCHANGED <<row, link, socket, uplink, turns, asking, clientVars, query, timerVars, stop, orphans>>

\* A "send" frame: acknowledged at once, its result is one of the events.
SendMessage(m) ==
  /\ post[m] = "new" /\ Admits
  /\ Forward([type |-> "message", of |-> m])
  /\ Raced
  /\ post' = [post EXCEPT ![m] = "sent"]
  /\ UNCHANGED <<row, link, socket, uplink, turns, asking, listeners, clientVars, query, timerVars, stop,
                 orphans>>

SendCompact(k) == Forward([type |-> "compact", of |-> k])

\* A compaction a client asks for, of a busy session too.
AskCompact(k) ==
  /\ k \in Compacts \ asked /\ row # "stopped"
  /\ SendCompact(k)
  /\ asked' = asked \cup {k}
  /\ UNCHANGED <<row, link, socket, uplink, turns, asking, listeners, subs, gone, told, waitVars,
                 timerVars, stop, orphans, mishaps>>

SendQuery(q) == Forward([type |-> "query", of |-> q])

\* A query is sent, and waited for as step says; without a socket it is
\* answered at once.
Ask(q, step) ==
  /\ query[q] = "new"
  /\ SendQuery(q)
  /\ IF link = "up"
     THEN /\ query' = [query EXCEPT ![q] = step]
          /\ listeners' = listeners \cup OfQuery(q)
     ELSE /\ query' = [query EXCEPT ![q] = "answered"]
          /\ UNCHANGED listeners
  /\ UNCHANGED <<row, link, socket, uplink, turns, asking, clientVars, post, timerVars, stop, orphans, mishaps>>

\* get_commands and mcp frames, of whatever session.
AskQuery(q) == Ask(q, "waits")

\* An injection, removal or truncation: refused by a busy or stopped session.
AskContext(q) == Admits /\ Ask(q, "waits")

\* GET /sessions/:id/context, which asks for the messages, then for statistics.
ReadContext(q) == Admits /\ Ask(q, "reads")

\* messageTimeoutMs is over.
PostTimesOut(p) ==
  /\ "timeouts" \in Faults /\ post[p] = "waits"
  /\ post' = [post EXCEPT ![p] = "late"]
  /\ listeners' = listeners \ OfPost(p)
  /\ UNCHANGED <<row, runnerVars, clientVars, query, timerVars, stop, orphans, mishaps>>

\* The 10 s (30 s for a context operation) of a wait are over.
QueryTimesOut(q) ==
  /\ "timeouts" \in Faults /\ query[q] \in {"reads", "waits"}
  /\ query' = [query EXCEPT ![q] = "answered"]
  /\ listeners' = listeners \ OfQuery(q)
  /\ UNCHANGED <<row, runnerVars, clientVars, post, timerVars, stop, orphans, mishaps>>
-----------------------------------------------------------------------------
(***************************************************************************)
(* The runner.                                                             *)
(***************************************************************************)
Status(s) == [type |-> "status", status |-> s]

Taken == Head(downlink)

Take(type) == link = "up" /\ downlink # <<>> /\ Taken.type = type /\ downlink' = Tail(downlink)

\* Mutant of TakeMessage: the runner does not report that it is busy.
TakeMessageSilently ==
  /\ Take("message")
  /\ turns' = turns \cup {[of |-> Taken.of, by |-> socket]}
  /\ UNCHANGED <<row, link, socket, uplink, asking, listeners, clientVars, waitVars, timerVars, stop,
                 orphans, mishaps>>

\* A turn begins, whatever else runs.
TakeMessage ==
  /\ Take("message")
  /\ turns' = turns \cup {[of |-> Taken.of, by |-> socket]}
  /\ uplink' = Append(uplink, Status("busy"))
  /\ UNCHANGED <<row, link, socket, asking, listeners, clientVars, waitVars, timerVars, stop, orphans,
                 mishaps>>

\* Marks the next turn, and reports "ready" even in the middle of one.
TakeCompact ==
  /\ Take("compact")
  /\ uplink' = Append(uplink, Status("ready"))
  /\ mishaps' = mishaps \cup IF turns # {} THEN {"misreported"} ELSE {}
  /\ UNCHANGED <<row, link, socket, turns, asking, listeners, clientVars, waitVars, timerVars, stop, orphans>>

TakeQuery ==
  /\ Take("query")
  /\ asking' = asking \cup {Taken.of}
  /\ UNCHANGED <<row, link, socket, uplink, turns, listeners, clientVars, waitVars, timerVars, stop,
                 orphans, mishaps>>

\* What is sent on a socket that is not the current one is lost.
Speak(by, frames) == uplink' = IF link = "up" /\ by = socket THEN uplink \o frames ELSE uplink

\* A query is answered, in whatever order the SDK does (by this socket or not:
\* an answer for a query of an earlier one goes there and is lost).
AnswerQuery(q) ==
  /\ q \in asking
  /\ asking' = asking \ {q}
  /\ Speak(socket, <<[type |-> "answer", of |-> q]>>)
  /\ UNCHANGED <<row, link, socket, downlink, turns, listeners, clientVars, waitVars, timerVars, stop,
                 orphans, mishaps>>

\* A turn ends, with a result or the error that stands for one.
EndTurn(t) ==
  /\ t \in turns
  /\ turns' = turns \ {t}
  /\ \E high \in IF "grows" \in Faults THEN BOOLEAN ELSE {FALSE} :
       Speak(t.by, <<[type |-> "result", of |-> t.of], [type |-> "context", high |-> high],
                     Status("ready")>>)
  /\ UNCHANGED <<row, link, socket, downlink, asking, listeners, clientVars, waitVars, timerVars, stop,
                 orphans, mishaps>>
-----------------------------------------------------------------------------
(***************************************************************************)
(* The bridge reads what the runner sent, and its listeners hear of it.    *)
(***************************************************************************)
Listening(event) == {l[2] : l \in {k \in listeners : k[1] = event}}

\* Every subscriber is told.
Tell(s) == told' = [c \in Clients |-> IF c \in Listening("status") THEN s ELSE told[c]]

Hear(type) == link \in {"up", "opening"} /\ uplink # <<>> /\ Head(uplink).type = type /\ uplink' = Tail(uplink)

\* The first frame of a new socket registers it; the row, the subscribers and
\* the compactor learn the status, and a "ready" sets the timer anew.
HearStatus ==
  /\ Hear("status")
  /\ LET s == Head(uplink).status
     IN  /\ row' = s
         /\ Tell(s)
         /\ timer' = (s = "ready" /\ full)
  /\ link' = "up"
  /\ UNCHANGED <<socket, downlink, turns, asking, listeners, subs, gone, asked, waitVars, full, stop,
                 orphans, mishaps>>

\* Every POST that waits takes the result.
HearResult ==
  /\ Hear("result")
  /\ LET takers == Messages \cap Listening("event")
     IN  /\ post' = [p \in Messages |-> IF p \in takers THEN Head(uplink).of ELSE post[p]]
         /\ listeners' = listeners \ OfPosts(takers)
  /\ UNCHANGED <<row, link, socket, downlink, turns, asking, clientVars, query, timerVars, stop, orphans,
                 mishaps>>

HearContext ==
  /\ Hear("context")
  /\ full' = Head(uplink).high
  /\ UNCHANGED <<row, link, socket, downlink, turns, asking, listeners, clientVars, waitVars, timer, stop,
                 orphans, mishaps>>

\* An answer nobody waits for any more is dropped. After the first of two, if it
\* is no error, the route waits for the second, whether or not its question
\* could be sent.
HearAnswer ==
  /\ Hear("answer")
  /\ LET q == Head(uplink).of
         heard == q \in Listening("answer")
     IN  \/ /\ heard /\ query[q] = "reads"
            /\ query' = [query EXCEPT ![q] = "waits"]
            /\ SendQuery(q)
            /\ UNCHANGED listeners
         \/ /\ heard
            /\ query' = [query EXCEPT ![q] = "answered"]
            /\ listeners' = listeners \ OfQuery(q)
            /\ UNCHANGED downlink
         \/ ~heard /\ UNCHANGED <<query, listeners, downlink>>
  /\ UNCHANGED <<row, link, socket, turns, asking, clientVars, post, timerVars, stop, orphans, mishaps>>
-----------------------------------------------------------------------------
\* The timer of the compactor, if the session is still idle: what the bridge
\* could not send is forgotten.
TimerFires ==
  /\ timer /\ timer' = FALSE
  /\ IF row = "ready" /\ full
     THEN /\ SendCompact("auto")
          /\ full' = FALSE
          /\ Raced
     ELSE UNCHANGED <<downlink, full, mishaps>>
  /\ UNCHANGED <<row, link, socket, uplink, turns, asking, listeners, clientVars, waitVars, stop, orphans>>

\* The socket breaks: what is under way is lost, and nothing can be sent.
LinkBreaks ==
  /\ "breaks" \in Faults /\ socket < MaxSockets
  /\ link = "up"
  /\ link' = "closing" /\ downlink' = <<>> /\ uplink' = <<>>
  /\ orphans' = orphans \cup Waiting
  /\ UNCHANGED <<row, socket, turns, asking, listeners, clientVars, waitVars, timerVars, stop, mishaps>>

\* Mutant of CloseHeard: the status changes and nobody is told.
CloseHeardSilently ==
  /\ link = "closing" /\ link' = IF stop = "no" THEN "down" ELSE "dead"
  /\ row' = "stopped"
  /\ UNCHANGED <<socket, downlink, uplink, turns, asking, listeners, clientVars, waitVars, timerVars, stop,
                 orphans, mishaps>>

\* Mutant of CloseHeard: the row gets a status that is none.
CloseHeardAsDown ==
  /\ link = "closing" /\ link' = IF stop = "no" THEN "down" ELSE "dead"
  /\ IF row = "stopped" THEN UNCHANGED <<row, told>> ELSE row' = "down" /\ Tell("down")
  /\ UNCHANGED <<socket, downlink, uplink, turns, asking, listeners, subs, gone, asked, waitVars, timerVars,
                 stop, orphans, mishaps>>

\* The close handler of the bridge: the compactor is not told.
CloseHeard ==
  /\ link = "closing" /\ link' = IF stop = "no" THEN "down" ELSE "dead"
  /\ IF row = "stopped" THEN UNCHANGED <<row, told>> ELSE row' = "stopped" /\ Tell("stopped")
  /\ UNCHANGED <<socket, downlink, uplink, turns, asking, listeners, subs, gone, asked, waitVars, timerVars,
                 stop, orphans, mishaps>>

\* Three seconds later the runner has a new socket, and reports "ready" in the
\* middle of a turn too.
Reconnect ==
  /\ link = "down" /\ stop = "no"
  /\ link' = "opening" /\ socket' = socket + 1
  /\ uplink' = <<Status("ready")>>
  /\ mishaps' = mishaps \cup IF turns # {} THEN {"misreported"} ELSE {}
  /\ UNCHANGED <<row, downlink, turns, asking, listeners, clientVars, waitVars, timerVars, stop, orphans>>

\* POST /sessions/:id/stop: the runner is killed, and its socket closes ...
StopBegins ==
  /\ "stops" \in Faults /\ stop = "no"
  /\ stop' = "killing"
  /\ link' = IF link = "up" THEN "closing" ELSE "dead"
  /\ downlink' = <<>> /\ uplink' = <<>> /\ turns' = {} /\ asking' = {}
  /\ orphans' = orphans \cup Waiting
  /\ UNCHANGED <<row, socket, listeners, clientVars, waitVars, timerVars, mishaps>>

\* ... before or after the route has updated the status, without an event.
StopEnds ==
  /\ stop = "killing" /\ stop' = "done"
  /\ row' = "stopped"
  /\ UNCHANGED <<runnerVars, listeners, clientVars, waitVars, timerVars, orphans, mishaps>>
-----------------------------------------------------------------------------
Next ==
  \/ \E c \in Clients : Subscribe(c) \/ Unsubscribe(c) \/ ClientCloses(c)
  \/ \E m \in Messages : PostMessage(m) \/ PostTimesOut(m) \/ SendMessage(m)
  \/ \E k \in Compacts : AskCompact(k)
  \/ \E q \in Queries : AskQuery(q) \/ AskContext(q) \/ ReadContext(q) \/ QueryTimesOut(q) \/ AnswerQuery(q)
  \/ TakeMessage \/ TakeCompact \/ TakeQuery
  \/ \E t \in turns : EndTurn(t)
  \/ HearStatus \/ HearResult \/ HearContext \/ HearAnswer
  \/ TimerFires \/ LinkBreaks \/ CloseHeard \/ Reconnect \/ StopBegins \/ StopEnds

Spec == Init /\ [][Next]_vars
-----------------------------------------------------------------------------
\* A POST is answered with the result of its own message and not with that of
\* one before, which may have timed out, or come from another client: unless
\* the connection broke while it waited, two messages raced for an idle
\* runner, or the runner said "ready" in the middle of a turn.
OwnResult ==
  mishaps = {} =>
    \A p \in Messages \ orphans : post[p] \in Messages => post[p] = p

\* No listener outlives what it serves and none is missing, whichever of
\* answer, timer, refused write and closed connection comes first.
ListenersMatch == listeners = OfClients(subs) \cup OfPosts(Waiting) \cup OfQueries(Awaited)

\* A subscriber knows the status of the session, wherever it has been through
\* since; only a stop by request is something it may never hear of.
ToldAgrees == \A c \in subs : told[c] = row \/ stop = "done"

\* The compaction of an idle session does not reach a runner that runs a turn,
\* late as its timer may be, unless a message was on its way when the timer
\* fired or the runner had said "ready" in the middle of a turn.
CompactsIdle ==
  [][Take("compact") /\ Taken.of = "auto" /\ turns # {} => mishaps # {}]_vars
=============================================================================
