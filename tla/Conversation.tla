---------------------------- MODULE Conversation ----------------------------
(***************************************************************************)
(* A client, the orchestrator and one runner: which commands reach the     *)
(* runner when (client-ws.ts, routes/sessions.ts), how its handler takes   *)
(* them (command-handler.ts), what the orchestrator believes about it, and *)
(* a socket that breaks and is opened again (runner/src/index.ts).         *)
(***************************************************************************)
EXTENDS RunnerTurn

CONSTANT MaxSockets   \* bound on the sockets the runner opens after its first

ASSUME SocketsAssumption == MaxSockets \in Nat

VARIABLES
  shown,    \* the session's status in the orchestrator
  asked     \* the commands clients have sent so far

vars == <<runnerVars, shown, asked>>

AllCommands == Commands \cup Cancels \cup Options \cup Compacts

TypeOK ==
  /\ RunnerTypeOK
  /\ shown \in {"ready", "busy", "stopped"}
  /\ asked \in SUBSET AllCommands

Init == RunnerInit /\ shown = "ready" /\ asked = {}
-----------------------------------------------------------------------------
\* The bridge reads a status of the runner.
ShowStatus ==
  /\ outbox # <<>>
  /\ shown' = Head(outbox)
  /\ outbox' = Tail(outbox)
  /\ UNCHANGED <<sdk, stateVars, turn, background, linkVars, mishaps, asked>>

\* The orchestrator refuses a message while the status it shows is "busy", and
\* everything but options once it shows "stopped".
Admits(c) ==
  /\ shown # "stopped" \/ c \in Options
  /\ c \in Messages => shown # "busy"

(***************************************************************************)
(* A client's command is admitted, forwarded, and handled by the runner up *)
(* to its first await.  Nothing is lost by the command taking no time on   *)
(* its way: what it may miss meanwhile are statuses the runner sends, and  *)
(* these take as long as they like.                                        *)
(***************************************************************************)
Receive(c) ==
  /\ c \notin asked /\ Admits(c)
  /\ link = "up"
  /\ asked' = asked \cup {c}
  /\ UNCHANGED <<linkVars, shown>>

\* A handler that will run a turn begins at the given step.
BeginLoop(c, step) ==
  /\ isBusy' = TRUE
  /\ outbox' = Append(outbox, "busy")
  /\ turn' = [turn EXCEPT ![c] = [Off EXCEPT !.pc = step, !.cur = c, !.ws = socket]]

FirstStep == IF session = None THEN "create" ELSE "prompt"

\* No look at isBusy: a second loop begins when one is running.
HandleMessage(c) ==
  /\ c \in Messages /\ Receive(c)
  /\ "overtake" \in Faults \/ \A l \in Commands : ~Active(l)
  /\ BeginLoop(c, FirstStep)
  /\ mishaps' = mishaps \cup IF \E l \in Commands : Active(l) THEN {"overtaken"} ELSE {}
  /\ UNCHANGED <<sdk, pendingSteer, pendingForkAndSteer, session, background>>

\* Mutant of HandleSteer: a busy runner begins the steer's turn at once.
SteerAtOnce(c) ==
  /\ c \in Steers /\ Receive(c)
  /\ BeginLoop(c, "steering")
  /\ UNCHANGED <<sdk, pendingSteer, pendingForkAndSteer, session, background, mishaps>>

\* Mutant of HandleSteer: the steer is stored as a pending fork.
SteerAsFork(c) ==
  /\ c \in Steers /\ Receive(c)
  /\ IF isBusy
     THEN /\ pendingForkAndSteer' = c
          /\ UNCHANGED <<isBusy, outbox, turn>>
     ELSE /\ BeginLoop(c, "steering")
          /\ UNCHANGED pendingForkAndSteer
  /\ UNCHANGED <<sdk, pendingSteer, session, background, mishaps>>

\* While busy the steer is left to the running loop (and its turn interrupted).
HandleSteer(c) ==
  /\ c \in Steers /\ Receive(c)
  /\ IF isBusy
     THEN /\ pendingSteer' = c
          /\ UNCHANGED <<isBusy, outbox, turn>>
     ELSE /\ BeginLoop(c, "steering")
          /\ UNCHANGED pendingSteer
  /\ UNCHANGED <<sdk, pendingForkAndSteer, session, background, mishaps>>

HandleCancel(c) ==
  /\ c \in Cancels /\ Receive(c)
  /\ IF isBusy
     THEN pendingSteer' = c /\ UNCHANGED outbox
     ELSE outbox' = Append(outbox, "ready") /\ UNCHANGED pendingSteer
  /\ UNCHANGED <<sdk, isBusy, pendingForkAndSteer, session, turn, background, mishaps>>

HandleForkAndSteer(c) ==
  /\ c \in Forks /\ Receive(c)
  /\ IF isBusy
     THEN /\ pendingForkAndSteer' = c
          /\ UNCHANGED <<isBusy, outbox, turn>>
     ELSE /\ BeginLoop(c, FirstStep)
          /\ UNCHANGED pendingForkAndSteer
  /\ UNCHANGED <<sdk, pendingSteer, session, background, mishaps>>

\* Mutant of HandleSetOptions: it answers "ready" as compact does.
SetOptionsReady(c) ==
  /\ c \in Options /\ Receive(c)
  /\ CloseSession
  /\ outbox' = Append(outbox, "ready")
  /\ UNCHANGED <<isBusy, pendingSteer, pendingForkAndSteer, turn, background, mishaps>>

\* The session is closed even under a running turn, to be opened again with
\* the new options by the next one.
HandleSetOptions(c) ==
  /\ c \in Options /\ Receive(c)
  /\ CloseSession
  /\ outbox' = Append(outbox, IF isBusy THEN "busy" ELSE "ready")
  /\ UNCHANGED <<isBusy, pendingSteer, pendingForkAndSteer, turn, background, mishaps>>

\* Only marks the next turn; "ready" is sent whatever the runner does.
HandleCompact(c) ==
  /\ c \in Compacts /\ Receive(c)
  /\ outbox' = Append(outbox, "ready")
  /\ mishaps' = mishaps \cup IF isBusy THEN {"misreported"} ELSE {}
  /\ UNCHANGED <<sdk, stateVars, turn, background>>

Handle(c) ==
  \/ HandleMessage(c) \/ HandleSteer(c) \/ HandleCancel(c)
  \/ HandleForkAndSteer(c) \/ HandleSetOptions(c) \/ HandleCompact(c)
-----------------------------------------------------------------------------
\* The socket breaks: what is on its way is lost and the session is "stopped".
Disconnect ==
  /\ "disconnect" \in Faults /\ socket < MaxSockets
  /\ link = "up"
  /\ link' = "down"
  /\ outbox' = <<>> /\ shown' = "stopped"
  /\ UNCHANGED <<sdk, stateVars, turn, background, socket, mishaps, asked>>

\* Three seconds later: the "open" handler, up to preloadWarmSession()'s await.
Connect ==
  /\ link = "down"
  /\ socket' = socket + 1
  /\ link' = IF session = None THEN "preloading" ELSE "opening"
  /\ UNCHANGED <<sdk, stateVars, turn, background, outbox, mishaps, shown, asked>>

\* "ready" is sent, busy or not; it registers the new socket.
Register ==
  /\ link' = "up"
  /\ outbox' = <<"ready">>
  /\ mishaps' = mishaps \cup IF isBusy THEN {"misreported"} ELSE {}
  /\ UNCHANGED <<isBusy, pendingSteer, pendingForkAndSteer, turn, background, socket, shown,
                 asked>>

ConnectDone ==
  \/ link = "opening" /\ Register /\ UNCHANGED <<sdk, session>>
  \/ link = "preloading" /\ Register /\ NewSession
  \/ link = "preloading" /\ Register /\ UNCHANGED <<sdk, session>>
-----------------------------------------------------------------------------
\* A step of the runner that is not the handling of a command.
RunnerStep ==
  \/ \E l \in Commands : Continue(l) \/ FirstEventTimeout(l)
  \/ \E f \in Forks : DrainEvent(f) \/ DrainEnd(f)
  \/ \E s \in Sdks : SdkStep(s) \/ SdkDies(s)

Next ==
  \/ \E c \in AllCommands : Handle(c)
  \/ RunnerStep /\ UNCHANGED <<shown, asked>>
  \/ ShowStatus \/ Disconnect \/ Connect \/ ConnectDone

Spec == Init /\ [][Next]_vars

Alone(A) == A /\ UNCHANGED <<shown, asked>>

(***************************************************************************)
(* Promises settle, timers fire, what was sent is read, and the SDK brings *)
(* every turn to a result.                                                 *)
(***************************************************************************)
Fairness ==
  /\ \A l \in Commands : WF_vars(Alone(Continue(l))) /\ WF_vars(Alone(FirstEventTimeout(l)))
  /\ \A f \in Forks : WF_vars(Alone(DrainEvent(f))) /\ WF_vars(Alone(DrainEnd(f)))
  /\ \A s \in Sdks : WF_vars(YieldResult(s) /\ Alone(UNCHANGED <<stateVars, turn, background,
                                                   linkVars, outbox, mishaps>>))
  /\ WF_vars(ShowStatus) /\ WF_vars(Connect) /\ WF_vars(ConnectDone)

FairSpec == Spec /\ Fairness
-----------------------------------------------------------------------------
\* Unless a message overtook it, one handler runs turns while the runner is
\* busy and none does while it is not: a steer or a fork never starts a second.
OneLoop ==
  Without({"overtaken"}) =>
    /\ isBusy <=> \E l \in Commands : Active(l)
    /\ \A l, k \in Commands : Active(l) /\ Active(k) => l = k

\* The loops and drains in the middle of an iteration of the session s.
Readers(s) == {l \in Commands : turn[l].reads = s}
Drains(s)  == {f \in Forks : background[f] = s}

\* After a fork the foreground and the background read different sessions; a
\* stream never has two readers that take each other's events.
OneReader ==
  Without({"overtaken", "forkFailed"}) =>
    \A s \in Sdks : /\ \A l, k \in Readers(s) : l = k
                    /\ \A f, g \in Drains(s) : f = g
                    /\ Readers(s) = {} \/ Drains(s) = {}

\* A turn reads the answer to its own prompt, as long as no turn before it was
\* left before its result.
OwnEvents ==
  Without({"overtaken", "forkFailed", "cutShort"}) =>
    \A l \in Commands :
      turn[l].pc = "read" =>
        \A i \in DOMAIN sdk[turn[l].reads].yielded :
           sdk[turn[l].reads].yielded[i].of = turn[l].cur

\* The status the orchestrator shows, or will when it has read what was sent.
Latest == IF outbox = <<>> THEN shown ELSE outbox[Len(outbox)]

\* The orchestrator ends up with the truth about a connected runner, so that a
\* message is refused when a turn runs and none is refused for ever.
StatusAgrees ==
  link = "up" /\ Without({"overtaken", "misreported"}) =>
    Latest = IF isBusy THEN "busy" ELSE "ready"

\* The handler of a message takes what is pending before it ends, except for
\* what comes while it waits for the interrupt of a cancel.
MessageLoopDrains ==
  [][\A m \in Messages :
       Active(m) /\ turn[m].pc # "cancelling" /\ turn'[m].pc = "off" =>
         pendingSteer' = None /\ pendingForkAndSteer' = None]_vars

\* A busy runner gets ready again: no turn waits for events somebody else took.
BusyEnds ==
  isBusy /\ Without({"overtaken", "forkFailed"}) ~>
    ~isBusy \/ ~Without({"overtaken", "forkFailed"})

\* The session f reads still has a result for it, or will have, or ends.
Owed(f) ==
  /\ background[f] # None
  /\ \/ StreamEnded(background[f])
     \/ sdk[background[f]].prompts # <<>>
     \/ \E i \in DOMAIN sdk[background[f]].yielded :
          sdk[background[f]].yielded[i].type = "result"

\* A background turn that a fork left running is drained to its end.
BackgroundEnds ==
  \A f \in Forks :
    Owed(f) /\ Without({"overtaken", "forkFailed"}) ~>
      background[f] = None \/ ~Without({"overtaken", "forkFailed"})
-----------------------------------------------------------------------------
\* What the documentation says and the code does not do.

\* FORK-AND-STEER.md: "steer: Abort stream, discard remaining output, deliver
\* now".  A steer does not outlive the busy period it came in.
SteersAreDelivered == ~isBusy => pendingSteer \notin Steers
=============================================================================
