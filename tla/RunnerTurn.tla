----------------------------- MODULE RunnerTurn -----------------------------
(***************************************************************************)
(* runner/src/command-handler.ts and run-turn.ts: what a runner does with  *)
(* the commands that start, redirect or disturb a turn.                    *)
(*                                                                         *)
(* The runner is one Node process and its message handler is not           *)
(* serialised: a command is handled up to its first await even while the   *)
(* handler of an earlier one is suspended.  A command whose handler runs   *)
(* turns is a process; turn[c].pc names the await it is suspended at.      *)
(***************************************************************************)
EXTENDS SdkSession

CONSTANTS
  Messages,   \* message commands
  Steers,     \* steer commands with a message
  Forks,      \* fork_and_steer commands
  Cancels,    \* steer commands without a message
  Options,    \* set_options commands that change effort, thinking or permissions
  Compacts,   \* compact commands
  Faults      \* what may go wrong around the runner: see RunnerFaults

\* createFails: the SDK does not create or resume a session
\* forkFails:   the SDK does not fork one
\* sdkDies:     the process behind an SDK session ends
\* disconnect:  the socket to the orchestrator breaks
\* overtake:    a message comes while an earlier command is being handled, since
\*              the orchestrator has not read "busy" yet
RunnerFaults == {"createFails", "forkFails", "sdkDies", "disconnect", "overtake"}

ASSUME CommandsAssumption ==
  /\ Commands = Messages \cup Steers \cup Forks
  /\ None \notin Commands \cup Cancels \cup Sdks /\ Sdks # {}
  /\ Messages \cap (Steers \cup Forks) = {}
  /\ Cancels \cap Commands = {}
  /\ Faults \subseteq RunnerFaults

VARIABLES
  isBusy, pendingSteer, pendingForkAndSteer,   \* fields of state.ts
  session,      \* state.session: the SDK session of the foreground, or None
  turn,         \* command -> its handler
  background,   \* fork -> the SDK session drainBackground() reads for it, or None
  link,         \* the runner's socket, see LinkStates
  socket,       \* how many sockets the runner has opened
  outbox,       \* statuses sent to the orchestrator and not read by it
  mishaps       \* history: what has happened that lets turns get mixed up

stateVars  == <<isBusy, pendingSteer, pendingForkAndSteer, session>>
linkVars   == <<link, socket>>
runnerVars == <<sdk, stateVars, turn, background, linkVars, outbox, mishaps>>

\* up: registered with the orchestrator; preloading: open, in preloadWarmSession()
LinkStates == {"up", "down", "opening", "preloading"}

\* overtaken:   a message came while another command was being handled
\* misreported: "ready" was sent while the runner was busy
\* cutShort:    a turn was left before its result, for a steer or a fork
\* forkFailed:  a fork failed after the background had begun to read its session
Mishaps == {"overtaken", "misreported", "cutShort", "forkFailed"}

\* None of the given mishaps has happened.
Without(kinds) == mishaps \cap kinds = {}

\* create:     createOrResumeSession()        prompt:  up to session.send()
\* stream:     send() awaited                 read:    in for await (... stream())
\* forking:    resumeSession() of a fork      steering: operations and emitSnapshot()
\* cancelling: query.interrupt() of a cancel
Steps == {"off", "create", "prompt", "stream", "read", "forking", "steering", "cancelling"}

Handlers == [pc : Steps, cur : Commands \cup {None}, reads : Sdks \cup {None}, timer : BOOLEAN,
             ws : Nat]

Off == [pc |-> "off", cur |-> None, reads |-> None, timer |-> FALSE, ws |-> 0]

\* The handler of l between two turns: no stream, no timer.
Suspended(l, step, c) == [Off EXCEPT !.pc = step, !.cur = c, !.ws = turn[l].ws]

Active(l) == turn[l].pc # "off"

RunnerTypeOK ==
  /\ SdkTypeOK
  /\ isBusy \in BOOLEAN
  /\ pendingSteer \in Steers \cup Forks \cup Cancels \cup {None}
  /\ pendingForkAndSteer \in Forks \cup {None}
  /\ session \in Sdks \cup {None}
  /\ turn \in [Commands -> Handlers]
  /\ background \in [Forks -> Sdks \cup {None}]
  /\ link \in LinkStates /\ socket \in Nat
  /\ outbox \in Seq({"busy", "ready"})
  /\ mishaps \in SUBSET Mishaps

\* A runner whose first "ready" the orchestrator has read, with or without a
\* preloaded session.
RunnerInit ==
  /\ \/ session = None /\ sdk = [s \in Sdks |-> Closed]
     \/ /\ session = CHOOSE s \in Sdks : TRUE
        /\ sdk = [s \in Sdks |-> IF s = session THEN Opened ELSE Closed]
  /\ isBusy = FALSE /\ pendingSteer = None /\ pendingForkAndSteer = None
  /\ turn = [c \in Commands |-> Off]
  /\ background = [f \in Forks |-> None]
  /\ link = "up" /\ socket = 0 /\ outbox = <<>> /\ mishaps = {}
-----------------------------------------------------------------------------
\* A session object nobody holds any more.
Unused(s) ==
  /\ s # session
  /\ \A c \in Commands : turn[c].reads # s
  /\ \A f \in Forks : background[f] # s

\* The SDK returns a new session object; it becomes state.session.
NewSession ==
  /\ \E s \in Sdks : Unused(s)
  /\ session' = CHOOSE s \in Sdks : Unused(s)
  /\ sdk' = [sdk EXCEPT ![session'] = Opened]

Goto(l, step) == turn' = [turn EXCEPT ![l].pc = step]

\* sendBusy() and sendReady() on the socket the command came from.
Report(l, status) ==
  outbox' = IF link = "up" /\ turn[l].ws = socket THEN Append(outbox, status) ELSE outbox

\* runTurn() up to its first await.
RunTurn(l, c) ==
  turn' = [turn EXCEPT ![l].pc = IF session = None THEN "create" ELSE "prompt",
                       ![l].cur = c]

\* The end of a handler: the flag is cleared and "ready" is sent.
EndLoop(l) ==
  /\ isBusy' = FALSE
  /\ turn' = [turn EXCEPT ![l] = Off]
  /\ Report(l, "ready")

\* What the message loop does with the steer st it found pending.
TakeSteer(l, st) ==
  /\ pendingSteer' = None
  /\ IF st \in Cancels
     THEN IF session = None
          THEN EndLoop(l)
          ELSE turn' = [turn EXCEPT ![l] = Suspended(l, "cancelling", @.cur)]
               /\ UNCHANGED <<isBusy, outbox>>
     ELSE turn' = [turn EXCEPT ![l] = Suspended(l, "steering", st)]
          /\ UNCHANGED <<isBusy, outbox>>

\* maybeHandleForkAndSteer(): the drain of the current session begins before
\* the fork of it is awaited.
BeginFork(l, f) ==
  /\ pendingForkAndSteer' = None
  /\ background' = [background EXCEPT ![f] = session]
  /\ turn' = [turn EXCEPT ![l] = Suspended(l, "forking", f)]
  /\ UNCHANGED <<isBusy, pendingSteer, outbox>>

\* Mutant of AfterTurn: the handler of a message ends after its one turn too.
AfterTurnOnce(l) ==
  /\ EndLoop(l)
  /\ UNCHANGED <<pendingSteer, pendingForkAndSteer, background>>

(***************************************************************************)
(* runTurn() has returned or thrown.  Only a handler of a message looks at *)
(* what is pending; those of a steer or a fork that came to an idle runner *)
(* end after their one turn.                                               *)
(***************************************************************************)
AfterTurn(l) ==
  \/ /\ l \notin Messages
     /\ EndLoop(l)
     /\ UNCHANGED <<pendingSteer, pendingForkAndSteer, background>>
  \/ /\ l \in Messages /\ pendingForkAndSteer # None
     /\ BeginFork(l, pendingForkAndSteer)
  \/ /\ l \in Messages /\ pendingForkAndSteer = None /\ pendingSteer # None
     /\ TakeSteer(l, pendingSteer)
     /\ UNCHANGED <<pendingForkAndSteer, background>>
  \/ /\ l \in Messages /\ pendingForkAndSteer = None /\ pendingSteer = None
     /\ EndLoop(l)
     /\ UNCHANGED <<pendingSteer, pendingForkAndSteer, background>>
-----------------------------------------------------------------------------
\* The awaits of a handler, in the order it meets them.

\* runTurn(): createOrResumeSession() returns, or runTurn() throws.
CreateSession(l) ==
  /\ turn[l].pc = "create"
  /\ \/ /\ NewSession
        /\ Goto(l, "prompt")
        /\ UNCHANGED <<isBusy, pendingSteer, pendingForkAndSteer, background, outbox>>
     \/ /\ "createFails" \in Faults
        /\ AfterTurn(l)
        /\ UNCHANGED <<sdk, session>>
  /\ UNCHANGED <<linkVars, mishaps>>

\* state.session.send(): a TypeError when the session was closed meanwhile,
\* an error when its process is gone.
Prompt(l) ==
  /\ turn[l].pc = "prompt"
  /\ IF session # None /\ sdk[session].open
     THEN /\ SendPrompt(session, turn[l].cur)
          /\ Goto(l, "stream")
          /\ UNCHANGED <<isBusy, pendingSteer, pendingForkAndSteer, background, outbox>>
     ELSE /\ AfterTurn(l)
          /\ UNCHANGED sdk
  /\ UNCHANGED <<session, linkVars, mishaps>>

\* The iteration begins on whatever session is the current one by now.
Stream(l) ==
  /\ turn[l].pc = "stream"
  /\ IF session # None
     THEN /\ turn' = [turn EXCEPT ![l].pc = "read", ![l].reads = session, ![l].timer = TRUE]
          /\ UNCHANGED <<isBusy, pendingSteer, pendingForkAndSteer, background, outbox>>
     ELSE AfterTurn(l)
  /\ UNCHANGED <<sdk, session, linkVars, mishaps>>

Interrupted == pendingSteer # None \/ pendingForkAndSteer # None

\* Mutant of ReadEvent: the first event ends the turn, whatever it is.
ReadFirstEvent(l) ==
  LET s == turn[l].reads
  IN  /\ turn[l].pc = "read" /\ Readable(s)
      /\ TakeEvent(s)
      /\ AfterTurn(l)
      /\ UNCHANGED <<session, linkVars, mishaps>>

\* One event of the stream: a result ends the turn, and anything does when a
\* steer or a fork is pending.
ReadEvent(l) ==
  LET s == turn[l].reads
      e == NextEvent(s)
  IN  /\ turn[l].pc = "read" /\ Readable(s)
      /\ TakeEvent(s)
      /\ IF e.type = "result" \/ Interrupted
         THEN AfterTurn(l)
         ELSE /\ turn' = [turn EXCEPT ![l].timer = FALSE]
              /\ UNCHANGED <<isBusy, pendingSteer, pendingForkAndSteer, background, outbox>>
      /\ mishaps' = mishaps \cup IF e.type # "result" /\ Interrupted THEN {"cutShort"} ELSE {}
      /\ UNCHANGED <<session, linkVars>>

\* Mutant of ReadEnd: only a stream that ends before its first event is noticed.
ReadEndEarly(l) ==
  LET s == turn[l].reads
  IN  /\ turn[l].pc = "read" /\ turn[l].timer /\ ~Readable(s) /\ StreamEnded(s)
      /\ AfterTurn(l)
      /\ UNCHANGED <<sdk, session, linkVars, mishaps>>

\* The stream ends without a result: an error when it had no event at all.
ReadEnd(l) ==
  LET s == turn[l].reads
  IN  /\ turn[l].pc = "read" /\ ~Readable(s) /\ StreamEnded(s)
      /\ AfterTurn(l)
      /\ UNCHANGED <<sdk, session, linkVars, mishaps>>

\* session.close(), and state.session = null.
CloseSession ==
  /\ session' = None
  /\ IF session = None THEN UNCHANGED sdk ELSE CloseSdk(session)

\* No event within 90 seconds: the timer closes whatever session is the current
\* one when it fires.
FirstEventTimeout(l) ==
  /\ turn[l].timer
  /\ CloseSession
  /\ turn' = [turn EXCEPT ![l].timer = FALSE]
  /\ UNCHANGED <<isBusy, pendingSteer, pendingForkAndSteer, background, linkVars, outbox,
                 mishaps>>

\* Mutant of ForkDone: the forked session does not become the current one.
ForkKeepsSession(l) ==
  /\ turn[l].pc = "forking"
  /\ Goto(l, "prompt")
  /\ UNCHANGED <<sdk, stateVars, background, linkVars, outbox, mishaps>>

\* unstable_v2_resumeSession(.., forkSession) returned: the fork's message is
\* next.  Or it failed, and the fork is handled as a pending steer.
ForkDone(l) ==
  /\ turn[l].pc = "forking"
  /\ \/ /\ NewSession
        /\ turn' = [turn EXCEPT ![l].pc = "prompt"]
        /\ UNCHANGED <<pendingSteer, mishaps>>
     \/ /\ "forkFails" \in Faults
        /\ pendingSteer' = None
        /\ turn' = [turn EXCEPT ![l].pc = "steering"]
        /\ mishaps' = mishaps \cup IF background[turn[l].cur] # None THEN {"forkFailed"} ELSE {}
        /\ UNCHANGED <<sdk, session>>
  /\ UNCHANGED <<isBusy, pendingForkAndSteer, background, linkVars, outbox>>

\* The operations and the snapshot of a steer are done: in a message loop
\* "busy" is sent again, and its turn begins.
SteerReady(l) ==
  /\ turn[l].pc = "steering"
  /\ RunTurn(l, turn[l].cur)
  /\ IF l \in Messages THEN Report(l, "busy") ELSE UNCHANGED outbox
  /\ UNCHANGED <<sdk, stateVars, background, linkVars, mishaps>>

\* The interrupt() of a cancel is over: the loop ends whatever came meanwhile.
CancelDone(l) ==
  /\ turn[l].pc = "cancelling"
  /\ EndLoop(l)
  /\ UNCHANGED <<sdk, pendingSteer, pendingForkAndSteer, session, background, linkVars, mishaps>>

Continue(l) ==
  \/ CreateSession(l) \/ Prompt(l) \/ Stream(l) \/ ReadEvent(l) \/ ReadEnd(l)
  \/ ForkDone(l) \/ SteerReady(l) \/ CancelDone(l)
-----------------------------------------------------------------------------
\* Mutant of DrainEvent: the drain does not stop at the result.
DrainForever(f) ==
  LET s == background[f]
  IN  /\ s # None /\ Readable(s)
      /\ TakeEvent(s)
      /\ UNCHANGED <<stateVars, turn, background, linkVars, outbox, mishaps>>

\* drainBackground(): reads until a result or the end of the stream.
DrainEvent(f) ==
  LET s == background[f]
  IN  /\ s # None /\ Readable(s)
      /\ TakeEvent(s)
      /\ background' = IF NextEvent(s).type = "result" THEN [background EXCEPT ![f] = None]
                                                       ELSE background
      /\ UNCHANGED <<stateVars, turn, linkVars, outbox, mishaps>>

DrainEnd(f) ==
  LET s == background[f]
  IN  /\ s # None /\ ~Readable(s) /\ StreamEnded(s)
      /\ background' = [background EXCEPT ![f] = None]
      /\ UNCHANGED <<sdk, stateVars, turn, linkVars, outbox, mishaps>>

\* What a session does that nobody holds makes no difference.
SdkStep(s) ==
  /\ ~Unused(s)
  /\ YieldDelta(s) \/ YieldResult(s)
  /\ UNCHANGED <<stateVars, turn, background, linkVars, outbox, mishaps>>

SdkDies(s) ==
  /\ "sdkDies" \in Faults /\ ~Unused(s) /\ sdk[s].open
  /\ CloseSdk(s)
  /\ UNCHANGED <<stateVars, turn, background, linkVars, outbox, mishaps>>
=============================================================================
