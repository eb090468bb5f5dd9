# A verification of claude-agent-runner in TLA+

`claude-agent-runner` runs Claude agent sessions in containers. An *orchestrator* (one Node
process, `packages/orchestrator`) serves HTTP and WebSocket clients, keeps the sessions in
SQLite and starts one *runner* container per session; a runner (`packages/runner`) connects
back over a WebSocket, reports its status and executes turns with the agent SDK. This directory
holds TLA+ models of that code, the TLC instances that check them, and theorems about them that
TLAPS proves. Paths below are relative to `packages/` unless they say otherwise.

## 1. Inventory

| Part | State it keeps | Operations | What makes it correct |
|---|---|---|---|
| HTTP session routes (`orchestrator/src/server/routes/sessions.ts`, `services/session-runtime.ts`, `services/capacity.ts`) | none but the handlers' locals, alive across awaits | create, fork, resume, stop, delete, pin, evict, wait for ready, roll back | whatever the interleaving at awaits, row, token, container and socket of a session agree again when the handlers are done; every request ends; the limit holds |
| Session store (`sessions.ts`, `db.ts`) | rows: status, container, token index, pinned, SDK session; context snapshots | synchronous SQL | rows describe what runs; a removed session leaves nothing |
| Token pool (`token-pool.ts`) | session -> token index, rotation index | assign, release, restore | exactly the sessions that run hold a token, the one of their row |
| Container manager (`docker.ts`, or `k8s-manager.ts`) | session -> container; on Kubernetes also labels in the cluster | spawn, kill, recover, rekey | every running container is tracked by somebody who will stop it, under the id it works for |
| Runner bridge (`ws-bridge.ts`) | session -> socket | register on first message, dispatch, close, send commands, waits | late closes of old sockets disturb nothing; answers reach the request that waits |
| Startup (`index.ts`) | none | reconcile rows with the engine, restore tokens | after a crash the three agree |
| Warm pool (`warm-pool.ts`, `routes/utility.ts`) | pool entries | refill, adopt, take, mark ready | no entry lost, none adopted twice, no token leaked |
| Turn collection, client frames and context routes (`session-runtime.ts`, `client-ws.ts`, `routes/context.ts`) | listeners, timers, subscriptions | send and collect, subscribe, steer | the result belongs to the message; every collector ends |
| Auto compactor (`auto-compact.ts`) | idle timers, context sizes | arm, cancel, fire | only an idle, connected session is compacted |
| Runner turns (`runner/src/command-handler.ts`, `run-turn.ts`) | isBusy, pendingSteer, pendingForkAndSteer, SDK session | message, steer, fork-and-steer, compact, set_options, adopt | one turn at a time, no steer lost, every turn answered |
| Context surgery (`runner/src/context.ts`, `context-ops.ts`, `mem-ipc.ts`, `merge-back.ts`, the memory-ipc patch of the CLI) | transcript records, pending IPC answers | read, remove, inject, truncate, rewind, snapshot, merge back | the chain of messages stays whole; an edit hits what it names; answers match requests |
| Tenants (`tenants.ts`) | cache of keys | create, update, delete | the cache follows the table |

How they interact: routes call the store, the pool and the manager directly, and the runner
through the bridge; runners act on the store through the bridge's message and close handlers;
`waitForReady()` and `sendAndCollect()` listen to events the bridge emits. Node runs one handler
at a time, so everything hard is between two awaits: a check before an await and its use after
it, messages of a runner that arrive while a request is suspended, timers that race with late
answers, containers that die or sockets that break at any point, and a crash of the orchestrator
with containers that survive it. `PROJECT.json` lists the hazards line by line.

## 2. Modules

| Module | Models | Notes |
|---|---|---|
| `SessionDomain` | the constants of the orchestrator | assumptions `NumTokensAssumption`, `NoneAssumption` |
| `TokenPool` | `token-pool.ts` | `assign`, `release`, `restore` as operators on the pool's variables |
| `SessionStore` | `sessions.ts`, the foreign key of `db.ts` | one operator per SQL statement; an UPDATE without a row does nothing |
| `ContainerManager` | `docker.ts` and the docker engine it drives | `spawn()` and `kill()` split at their awaits: `EngineStarts`, `Track`, `FinishKill` |
| `WsBridge` | sockets and registrations of `ws-bridge.ts` | a socket is named by the container at its other end |
| `SessionLifecycle` | the routes, the runner's messages, crash and restart, on top of the four | the composition; the properties are stated here |
| `SessionLifecycleProofs` | theorems about `SessionLifecycle` | TLAPS |
| `MCSessionLifecycle` | the symmetry of the instances | TLC only |
| `SdkSession` | the agent SDK's session objects | external: what `run-turn.ts` and `background-drainer.ts` rely on |
| `RunnerTurn` | `run-turn.ts`, `background-drainer.ts`, the message loop of `command-handler.ts` | extends `SdkSession`; the runner between two commands |
| `Conversation` | the command handlers, the orchestrator's admission of commands, the socket | extends `RunnerTurn`; the properties are stated here |
| `ConversationProofs` | theorems about `Conversation` | TLAPS |
| `SessionService` | what the sessions API promises, without containers, tokens and sockets | abstract specification |
| `SessionRefinement` | the mapping of `SessionLifecycle` to `SessionService` | `INSTANCE SessionService WITH ...` |
| `SessionRefinementProofs` | that the mapping is a refinement | TLAPS |
| `K8sManager` | `k8s-manager.ts` and as much of the cluster as it sees | pods, phases, labels, patches in flight |
| `WarmPool`, `MCWarmPool` | `warm-pool.ts`, its branch of `spawnSession()`, `routes/utility.ts`, adopt, re-keying, crashes | on top of `K8sManager` |
| `WarmRefinement` | the mapping of `WarmPool` to `SessionService` | `INSTANCE SessionService WITH ...` |
| `WarmPoolProofs`, `WarmAdoptionProofs` | theorems about `WarmPool` and `WarmRefinement` | TLAPS |
| `Transcript` | the records of a session's JSONL file (`context.ts`) | chain building and repair as operators |
| `MemIpc` | the client of `mem-ipc.ts` and the server in the patched CLI | on top of `Transcript` |
| `ContextSurgery`, `MCContextSurgery` | the context and rewind commands, snapshots, merge-back, with turns around them | on top of `MemIpc` |
| `TranscriptProofs` | lemmas about `Transcript`: trees, chains, what each surgery makes of them | TLAPS |
| `ContextSurgeryProofs` | theorems about `ContextSurgery` | TLAPS; on top of `TranscriptProofs` |
| `Relay`, `MCRelay` | `client-ws.ts`, `sendAndCollect()`, the waits of the bridge, context routes, `auto-compact.ts` | the orchestrator between clients and one runner |
| `RelayProofs` | theorems about `Relay` | TLAPS |

### Sessions: `SessionLifecycle`

`SessionLifecycle` has one process per request in flight (`req`). Its `pc` names the await the
handler is suspended at, `held` the container id a pending `kill()` captured or a pending
`spawn()` has started, `token` the index a pending spawn will write to the row, `victim` and
`cands` the locals of the eviction loop. One action is one stretch of code between awaits:

| Action | Code |
|---|---|
| `CreateBegin`, `EvictEnd` | `POST /sessions` or fork up to its first await; the eviction loop of `ensureCapacity()` |
| `AssignToken`, `ContainerStarts`, `SpawnReturns` | `spawnSession()`: token, container, row, then `waitForReady()` |
| `SpawnThrows`, `RowRefused`, `UndoEnd` | its catch block and `rollbackSession()` |
| `ResumeBegin`, `ResumeAssigns`, `ResumeSpawned`, `ResumeThrows`, `ResumeFails` | `POST /sessions/:id/resume` and its catch block |
| `StopBegin`, `StopEnd`, `StopAgain`, `DeleteBegin`, `DeleteEnd`, `Pin` | stop, delete, pin |
| `WaitTimesOut` | the timer of `waitForReady()` |
| `ReportsReady`, `ReportsBusy`, `ReportsError`, `ReportsSessionInit`, `ReportsSnapshot` | the bridge's message handler, with the registration of a socket by its first message, and the listeners of `waitForReady()` the event calls |
| `SocketCloses`, `SupersededCloses` | the bridge's close handler |
| `RunnerExits` | the runner process ends (shutdown command, engine, or by itself) |
| `Restart` | a crash, and `recoverFromSessions()`, the reconciliation and `restore()` of the next start |

Choices made for the environment. A runner may report any status at any time it is connected; a
message sent before its death may be read after it (`late`). A container may register from the
moment the engine starts it, before `spawn()` has returned. A kill may fail silently, as `kill()`
swallows the engine's error (`killFails`). A runner reconnects after a broken socket
(`disconnect`), possibly before the old socket is seen to close (`reconnect`).

Simplifications. `sendShutdown()` is part of "a runner may exit at any time". The awaits of the
credential and vault look-ups are merged with the next one: nothing of the session changes at
them, and other requests interleave at the neighbouring await all the same. The least-recently-active
order of evictions is a free choice among the candidates. The statuses `cloning` and `syncing`
behave like `starting` and are left out. `ContainerStarts` assumes that the sockets of the session's
dead containers have been closed by the time another container has booted. The token list is the
same before and after a restart; recovery is one step, as the server does not listen before it is
over. Half-open sockets, which `close` reports only after a long time, are the `disconnect` case
with a late close. A container that was created but not started leaves no trace.

### Turns: `Conversation`

The runner's socket handler awaits `handleMessage()` but nothing awaits the socket handler, so a command is
handled up to its first await even while an earlier one is suspended. A command whose handler runs turns is a
process: `turn[c].pc` names its await, `cur` the command whose prompt it works on, `reads` the SDK session it
iterates, `timer` whether the first-event timer runs, `ws` the socket it answers on. `isBusy`, `pendingSteer`,
`pendingForkAndSteer` and `session` are the fields of `state.ts`; `background[f]` is the SDK session a fork's
drain reads; `outbox` holds the statuses sent and not yet read by the orchestrator, `shown` the one it shows.

| Action | Code |
|---|---|
| `HandleMessage`, `HandleSteer`, `HandleCancel`, `HandleForkAndSteer`, `HandleSetOptions`, `HandleCompact` | the branches of `handleMessage()` up to their first await, with the status check of the orchestrator (`Admits`) |
| `CreateSession`, `Prompt`, `Stream`, `ReadEvent`, `ReadEnd` | the awaits of `runTurn()` |
| `AfterTurn` (part of every step a turn ends in) | the message loop after `runTurn()`: `TakeSteer`, `BeginFork` or `EndLoop`; a steer or fork to an idle runner just ends |
| `ForkDone`, `SteerReady`, `CancelDone` | the awaits of `maybeHandleForkAndSteer()`, of a steer's operations and snapshot, of a cancel's interrupt |
| `FirstEventTimeout` | the 90 s timer of `runTurn()` |
| `DrainEvent`, `DrainEnd` | `drainBackground()` |
| `SdkStep`, `SdkDies` | the process behind an SDK session |
| `ShowStatus`, `Disconnect`, `Connect`, `ConnectDone` | the bridge's `status` case and close handler; the runner's reconnection, `preloadWarmSession()` and its first `ready` |

A command takes no time on its way: what it could miss meanwhile are statuses of the runner, and these stay in
`outbox` as long as they like. Two messages in a row, the second before the orchestrator has read `busy`, are
nevertheless a case of their own: the fault `overtake`. An SDK session is its prompts and what it has yielded
and nobody has read; of an answer at most one part besides its result is kept, since a turn treats the second
part as it treats the first. `interrupt()` only makes a result come sooner, and results may come at any time.

A socket does not break before the runner's first `ready` on it has been sent, and a broken one is noticed by both
ends at once. A preload that fails and a runner that does not preload are the same case.

`mishaps` is a history variable: it records that a message has overtaken a command, that a busy runner has
said `ready` (after a reconnection, or to a compact), that a turn was left before its result, that a fork failed.
The code has no remedy for what these lead to, so the properties say what holds until they happen, by name,
and each property excludes only those that break it.

### The promise to clients: `SessionService`

`SessionService` is what a client of `/sessions` may rely on. A session is `absent`, `starting`, `live` or
`ended`; a request is pending between its arrival and its answer. A session appears only by a create, disappears
only by a failed create or a delete (unless snapshots keep it), starts only by a create or a resume, becomes live
only when its runner speaks, and a create or resume succeeds only at such a moment. A request changes only the
session it names, but for the evictions of a create that has not launched. `SessionRefinement` maps the status
column to the view (`ViewOf`), the handlers' `pc` to the pending requests (`OpAt`), and the rows snapshots refer to
to `kept`. Tokens, containers, sockets, the steps of a handler and the capacity do not appear: the steps that only change
them stutter. That two sessions may be live above the limit is allowed by the service and bounded by
`OvershootBounded`. `WarmRefinement` maps `WarmPool` to the same service (a stop is one step there, and is seen as the loss of the
runner; a query has no session and is not seen).

### Warm runners: `WarmPool` on `K8sManager`

A pod is named after the id it was spawned for. `pods` is the manager's map, `phase` what the cluster runs, `label`
the `session-id` label recovery goes by, `patching` the label patch `rekeySession()` does not await. `pool` and
`refilling` are the fields of `warm-pool.ts`, `holders` the ids that hold a token, `serves` the `SESSION_ID` the runner
in a pod speaks for, `inbox` an adopt command under way, `sock` and `connections` both sides of the bridge's maps.

| Action | Code |
|---|---|
| `CreateBegin` (`AdoptEntry`), `AdoptEnds` | `spawnSession()`: `adopt()`, the tokens swapped, the credentials awaited, then `sendAdopt()`, `rekeyConnection()`, `rekeySession()` and the row |
| `Refill` (part of every take and adoption), `PodCreated`, `WarmSpawned`, `WarmSpawnFails` | `refill()` and `spawnWarmContainer()` |
| `QueryBegin`, `QueryAnswered`, `QueryTimesOut` | `generate-title` and `suggest-folder` with a warm runner |
| `Spawned`, `SpawnFailed`, `ReadyTimesOut`, `Stop`, `ResumeBegin` | the other branch of `spawnSession()`, the routes around it |
| `RunnerConnects`, `RunnerAdopts`, `SocketCloses` (`HearsReady`, `HearsError`) | the runner's adopt handler, the bridge's message and close handlers, `markReady()` |
| `PodStarts`, `RunnerExits`, `PodGone`, `PatchSettles` | the cluster |
| `Restart` | a crash, `recoverFromSessions()`, the reconciliation, the first refill |

Requests on one session follow each other (`SessionLifecycle` has the overlaps), `kill()` is one step, which token an
id holds is left out, and so are the statuses of turns and sockets superseded by a reconnection. `fetchCredentials()`
never throws, so an adoption has no failure path before the row.

### Context: `ContextSurgery` on `MemIpc` and `Transcript`

`Transcript` translates `context.ts`: the conversation is read from the last leaf outside side chains (the last
of all, if there is none) back to its root; removal re-parents the children, truncation keeps the last turns. `MemIpc` is the socket to the memory of the CLI: calls wait in `pending`, longest first, answers carry no id. In
`ContextSurgery` an operation is a process with the await it is suspended at (`reading`, `rereading`, `editing`), the
messages it has `seen`, and how it ended. `HandleContext` is the command's guard (a turn runs) and its first call or, without a
socket, the whole operation on the file; `OnData` the resolution of the longest waiting call and what its operation does
next (`ReadAnswered`); `RunCmd` the patched CLI; `TurnBegins`, `TurnSpeaks`, `TurnCompacts` the CLI's own changes;
`ForkBegins` to `BackgroundTold` the fork and `mergeBackResult()`; `IpcBreaks` a CLI that dies.

`sdkSessionId` names the session before the fork, whose transcript the operations go on editing; this is modelled. Left
out: edits over the socket are not written to the transcript by the runner, and the short time between closing the
foreground session and closing its socket in a fork.

### Clients: `Relay`

One session, its runner's socket (`link`, numbered), the two directions of it (`downlink`, `uplink`), and what the
orchestrator keeps: `row`, the bridge's `listeners`, the subscriptions, the waiting POSTs and queries, the compactor's `full`
and `timer`. `told` is the last status a subscriber was sent.

| Action | Code |
|---|---|
| `Subscribe`, `Unsubscribe`, `ClientCloses` | the frames and the close handler of `client-ws.ts` |
| `PostMessage`, `PostTimesOut`, `HearResult` | `POST /sessions/:id/messages`, `sendAndCollect()` |
| `SendMessage`, `AskCompact`, `AskQuery` | the `send`, `compact`, `get_commands` and `mcp` frames, `POST .../context/compact` |
| `AskContext`, `ReadContext`, `QueryTimesOut`, `HearAnswer` | the context routes and `waitForContextResult()` |
| `TakeMessage`, `TakeCompact`, `TakeQuery`, `AnswerQuery`, `EndTurn` | the runner, as `Conversation` shows it, without steers |
| `HearStatus`, `HearContext`, `TimerFires` | the bridge's `status` and `context_state` cases and `AutoCompactor` |
| `LinkBreaks`, `CloseHeard`, `Reconnect`, `StopBegins`, `StopEnds` | a broken socket, the bridge's close handler, the runner's reconnection, `POST .../stop` |

Results are not correlated with requests. `mishaps` and `orphans` record the three ways in which this bites: two
messages raced for an idle runner, a busy runner said `ready` (to a compact, after a reconnection), the connection broke
while the POST waited. Steers and forks, which `Conversation` has, would add the background results of a fork, which the bridge
emits like foreground ones.

## 3. What TLC checks

Each specification has one `TypeOK`. The bounds are the model sets in the `.cfg` files, `MaxRestarts` and
`MaxSockets`; an instance also says which operations (`Ops`) and faults (`Faults`) it has, so that the interesting ones meet.

| Run | Instance | Properties | Shows |
|---|---|---|---|
| `lifecycle_serial` | 2 sessions, 3 containers, 2 tokens, 2 requests, not on the same session at once; spawn, INSERT, runner, socket and timer faults, late messages | `TypeOK` `ActiveIsBacked` `GoneIsReleased` `TokenMatchesRow` `NoLostRunner` `SingleRunner` | whichever step fails, store, pool, manager and engine agree when no request is on a session |
| `lifecycle_overlap` | 1 session, 2 containers, 2 requests that overlap freely, failing kills, reconnects, snapshots, 1 crash | `StartingIsAwaited` `OnlyLostConnectionStops` `RestartReconciles` `ImplementsService` | what survives even overlapping requests, and that clients see only what the service allows |
| `lifecycle_capacity` | 3 sessions, 3 containers, 2 requests, a limit of 1 | `OvershootBounded` | by how much the limit can be exceeded |
| `lifecycle_live` | 1 session, 2 containers, 2 overlapping requests, fairness | `RequestsFinish` `StartingSettles` | every request ends, no session stays starting |
| `turns` | 1 message, 1 steer, 1 cancel, 1 compact; overtaking messages, a dying SDK process | `TypeOK` `OneLoop` `MessageLoopDrains` | who runs turns, and that a loop takes what is pending |
| `turns_live` | 1 message, 1 steer, 1 fork, 1 set_options; failing creations and forks, a dying SDK process, 1 reconnection; fairness | `OneReader` `OwnEvents` `StatusAgrees` `BusyEnds` `BackgroundEnds` | whose events a turn reads, what the orchestrator believes, that turns and drains end |
| `warm_pool` | 1 session, 2 warm ids, 1 profile of size 1, 2 requests, all faults but `killFails`, 1 crash | `TypeOK` `OneUse` `CommandsReachOwnRunner` `ReadyIsConnected` `WarmTokens` `RefillIsPending` `StartingIsAwaited` `WarmImplementsService` | a warm runner is used once, its commands and token go with it, and clients see only what the service allows |
| `surgery` | 2 operations, one of them the merge-back, a handful of messages; a broken socket, a compaction, a fork, a side chain | `TypeOK` `AnswersMatch` `WaitingIsPending` `AnsweredTruthfully` `LiveSurgeryExact` `FileSurgeryExact` | edits hit what they name, answers are true |
| `relay` | 1 client, 2 messages, 1 query, 1 compact; a reconnection, timeouts, a stop, a growing context | `TypeOK` `OwnResult` `ListenersMatch` `ToldAgrees` `CompactsIdle` | results, listeners, statuses and compactions are those of the session |

Why the bounds are enough. Sessions interact only through the token rotation, the capacity count
and the eviction list, for which two or three sessions give every order; a session's own hazards need
an old and a new container (two) and two requests, and one crash reaches every point of a handler. Three
containers let one session be resumed while another is created. `Conversation` has one command of each kind an instance looks at,
since a second of the same kind behaves as the first or overwrites it while pending, four SDK session objects (the
foreground, one background and two a handler and a preload create at once; unused ones are used again), and one
reconnection. In `warm_pool` two warm ids are one in use and its replacement, and either is used again once nothing
refers to it; a session adopts, is stopped, resumed and found again after a crash, while the other request queries. A deletion the
cluster refuses (`killFails`) is left to the proofs there, which have every fault: with it the run takes twice as long. That a
request shows clients nothing of a session it does not name, and that an eviction is seen only as the end of the session evicted, is proved for
any number of sessions (`WarmServiceImplemented`, `ServiceImplemented`); the runs that check a refinement have one session and no limit. In
`surgery` two operations suffice for an answer to go astray, and the messages for an edit before, at and
after a change, with two branches of one parent at the start. In `relay` two messages are what it takes for one to get the
other's result, and one reconnection for a turn to outlive its socket.

`CHECK_DEADLOCK FALSE`: containers, commands, warm ids and messages run out, so each model may stop where the program
would go on with fresh ones.

Fairness of `SessionLifecycle` (`FairSpec`): weak fairness of `Continues(r)` for each request. The engine answers or fails
each call (an HTTP client with an error path), and Node fires the 120 s timer of `waitForReady()`. Nothing
is assumed of clients, runners or sockets: without the timer a request would wait forever for a runner
that never reports, which the mutant of `RequestsFinish` shows. `FairSpec` of `Conversation` assumes that awaited promises settle, that the
first-event timer fires when it is set (Node's timers; the clean-up of a turn cancels it), that
statuses are read, that the runner reconnects after 3 s, and that the SDK brings every prompt to a result, which the
interrupt or the API's own limits do. It assumes nothing of clients. The other specifications state safety only.

Three runs show where the code and its own comments part; `PROJECT.json` quotes the lines.

| Run | Property | What happens |
|---|---|---|
| `steer_lost` | `SteersAreDelivered` | a steer that comes while a steer to an idle runner is executed interrupts it and is never delivered |
| `taken_leaks` | `TakenIsKilled` | a utility query that times out skips the kill and the release of the warm runner it took |
| `merge_dropped` | `MergeReachesForeground` | after a fork the IPC socket is closed for good, so the background result is never merged and reported complete all the same |

Observed while modelling, and not run.

* Sessions. Two creations admitted on the same count exceed `README.md:266` "Max concurrent sessions" (`capacity.ts:33`), by what
  `OvershootBounded` says. A candidate that turned busy while another was evicted is evicted too (`capacity.ts:48`). The
  foreign key of `context_snapshots` refuses the DELETE of a session with snapshots, and its row stays (`db.ts:69`). A session deleted
  inside its resume gets a runner without a row.
* Turns. `README.md:139` and `runner/patches/FORK-AND-STEER.md:22` let the background turn of a fork-and-steer go on, while
  `command-handler.ts:293` interrupts it; the bridge emits the events of a drain without their `background` tag; a fork that comes when
  the turn's result has just been read starts a drain that waits forever (`Owed` in `BackgroundEnds` excludes it); a fork that
  fails overwrites a steer that came meanwhile (`run-turn.ts:408`).
* Warm pool. What is taken while a refill runs is not replaced before the next take (`warm-pool.ts:112`), and an entry whose
  runner died stays counted (`:120`). A quick resume on Kubernetes meets the name of the terminating pod (409). A label patch
  that is lost or late makes recovery miss the pod of an adopted session; a crash leaves the pods of the pool running. When the socket
  breaks while the credentials are fetched the adoption is never heard of, and the create ends with the 120 s timer.
* Context. Truncation keeps N messages over the socket and N turns in the file; the repository's README speaks of turns.
  `rewind` keeps the named message. Removing the last message can make an abandoned branch the conversation. A merge-back
  never finds the placeholder it looks for, since nothing writes one.
* Clients. `GET .../context` waits 30 s for statistics whose request could not be sent. What the compactor could not send is
  forgotten until the context is reported again. A stop by request changes the status without telling subscribers.

## 4. What is proved

Every invariant, every action property and both refinements that a passing run checks are proved; six theorems about `SessionLifecycle`
have a hypothesis, given below, and the four liveness properties are not proved. What is proved was first checked by TLC on
the instance of the run.

`SessionLifecycleProofs` proves for any number of sessions, containers, tokens, requests and
restarts, any `Ops` and `Faults`, overlapping requests or not, from `NumTokensAssumption`,
`NoneAssumption` and `ConfigAssumption` alone:

* `TypeCorrect`: `Spec => []TypeOK`. `TypeOK` is not inductive: a container's owner could be undefined
  when a message of it is handled, a handler's session undefined when it continues. `TypeInv` adds that a
  handler under way works on a session, and that only started containers, which have an owner, are tracked,
  held or connected. One lemma per operation of the parts (`AssignType`, `KillEndsType`, ...), one per action.
* `StartingAlwaysAwaited`: `Spec => []StartingIsAwaited`. The inductive `StartingInv` says of every starting
  row that it is *accounted for*: by a waiting request, by one that is undoing it, by a restart that
  tracked its container, or by snapshots that refused its rollback. The proof follows each action to where it
  hands the account over: `SpawnReturns` and `ResumeSpawned` create it with the row, a rejected wait turns
  `waiting` into `undoing` and `rewaiting` into `failing`, and these end by removing or failing the row.
* `StopsOnlyWhenLost`: `Spec => OnlyLostConnectionStops`, from `TypeInv`: a request stops only the session it works on,
  and a close handler only a session whose registered socket it closes.
* `RestartAgrees`: `Spec => RestartReconciles`, from `RowsInv`, that a session without a row names no container and
  no token: without it a removed session's container could be tracked again.

Three more groups of theorems there have a hypothesis that names the cases the code has no remedy for. It is stated on the
configuration, and no bound is part of it: any number of sessions, containers, tokens and requests.

* `GoneIsReleasedInOrder` and `TokenMatchesRowInOrder` assume only `~Overlap`, that a request does not begin on a session another one
  works on; with `Overlap`, TLC finds both violated. Everything else is allowed: capacity, whose evictions hit a session whatever another request
  does to it, kills that fail, snapshots, stops of ended sessions, any fault and any number of restarts. `LeftInv` says by `LeftAt(s, step,
  held, token)` what a session may still have at each await of its request, never that it has it. So a step of anybody else only has
  to take away (`Loses`), which evictions, runners and sockets do; a restart knows what the rows say.
* `SingleRunnerWhenSerial`, `NoRunnerIsLostWhenSerial` and `ActiveIsBackedWhenSerial` assume `Serial`: no overlap, no capacity
  (an eviction works on another request's session), no crash, kills that succeed. Spawns, INSERTs, runners, sockets and timers may fail, requests
  on different sessions interleave, messages may be late, runners send snapshots, which refuse rollbacks, and, but for the third theorem,
  ended sessions are stopped again: the second stop releases the token of a session that a late word then shows as active. No part
  of it can be dropped: with overlap (two resumes spawn), with a capacity, with one kill that fails or with a crash (the container being
  spawned is nobody's afterwards, and a resume spawns another), TLC finds each of the three violated on 1 or 2 sessions.
  They follow from `SerialInv`. `AtStep(s, step, held, token)` says what a session has when the one request on it is at a given
  await: nothing but the container being started before the row; the pool's token, no tracked container, during a spawn; the
  container the kill was called for while it is killed; and, when there is no request, all (`Backed`) or nothing (`Dropped`). `OneUp`
  says that one runner at most is up and that commands go to it: without it the close of an old socket could stop a session.
* `OvershootBoundedWhenCounted` assumes `Counted`: sessions are only created and ended by requests that overlap as they like, and
  finitely many of them; the orchestrator may crash. A resume, a kill that fails, a lost connection that comes back, an error or a late `busy` of a
  runner makes an ended session active again without a count, and with each of them TLC finds the bound exceeded. `CountInv` says that a kill
  reaches every container of its session (`KillReaches`), and hence that an ended session does not come back. A crash leaves a
  container without a row running, but no request ever names its session again (`Names`, `InHand`), and by `RowsOwned` the next process finds
  the others. `Room` is then inductive, because every request lets in at most one session and was counted itself after the
  last eviction it waited for. The cardinalities are followed by themselves (`CountsFinite` and the lemmas after it).

`ConversationProofs` proves for any commands, SDK sessions, sockets and faults, from `CommandsAssumption` and
`SocketsAssumption`:

* `TypesAlways`: `Spec => []TypeOK`, by `TInv`, which adds that a handler between its awaits has a command to run a
  turn for (else `send()` would have nothing to send). `AfterTurnStep` follows the end of a turn through the loop once, for
  all the awaits a turn can end at.
* `OneLoopAlways`: `Spec => []OneLoop`. The lemmas `ContinueStep`, `HandleStep`, `Quiet...` and `LinkSteps` say of every
  step of the system which of five things it does to the handlers (`StepKinds`): one ends, one goes on, one begins on a
  runner that is not busy, a command is noted, nothing. This theorem and the next two rest on these alone.
* `StatusAgreesAlways`: `Spec => []StatusAgrees`. Inductive with `SameSocket`, that a handler reports on the socket that
  is open now, and with `OneLoop`: else the handler that ends would report `ready` for another.
* `MessageLoopDrainsAlways`: `Spec => MessageLoopDrains`.
* `OneReaderAlways`: `Spec => []OneReader`. `ReadersInv`: a drain leaves the foreground session alone, except while the fork
  is awaited that takes the foreground from it; no two drains and no drain and turn share a session. It needs `ReadsInv`
  (who reads is in its read loop) and `OneLoop`: a second loop could take the stream of a session being forked.
* `OwnEventsAlways`: `Spec => []OwnEvents`. `OwnInv`: the session the next turn will use holds nothing unread but the answer to
  the prompt of the turn that reads it. It rests on `OneReader`: a drain that read the foreground would leave half an answer.

`SessionRefinementProofs` proves for the same constants as `SessionLifecycleProofs`:

* `ServiceImplemented`: `Spec => ImplementsService`, with every overlap, fault and restart. `InitSimulated` and `StepSimulated` are the two
  halves; there is one lemma per group of actions (`LaunchSimulated`, `AnswerSimulated`, `RunnerActsSimulated`, ...), which
  shows the step of the service or the stutter. Besides `TypeInv` it needs `NewInv`: a create that has not made its row is alone
  with an absent session. Else a create could launch a session that is there, which the service does not allow.

`RelayProofs` proves for any clients, messages, queries, faults and number of reconnections, from `RelayAssumption` (names of
clients, messages and queries are told apart):

* `TypesAlways`: `Spec => []TypeOK`, with `Replaceable`: a socket that broke can be replaced within the bound.
* `ListenersAlwaysMatch`: `Spec => []ListenersMatch`. `ListenersFollow` is the general step: a set of subscriptions, POSTs
  and queries comes, another goes, and the listeners follow, because no listener serves two of them (`Apart`).
* `ToldAlwaysAgrees`: `Spec => []ToldAgrees`, which needs `ListenersMatch`: who is told is who listens.

* `OwnResultAlways`: `Spec => []OwnResult`, and `CompactsIdleAlways`: `Spec => CompactsIdle`. Both follow from `PipeInv` (and from "auto"
  being the name of no client's compaction). While
  there was no mishap, at most one message is between the bridge and its result (`OneMessage`); whoever has read the uplink as
  far as the result, or to its end while a turn runs, believes the runner to be busy (`BusyIsKnown`, by `KnownBusy(k)`: the last
  status before the k-th frame, or the row if there is none), which is why a `ready` row means an empty pipeline (`Idle`); a POST
  that waits has its message in it (`WaitersInv`); and a compaction of the timer comes before any message (`AutosFirst`). Each
  direction of the socket is followed by itself (`DownKept`, `UpKept`), and `Kept` puts the two together.

`WarmPoolProofs` proves for any sessions, warm ids, profiles and their targets, requests, faults and number of restarts, from
`IdsAssumption` and `PoolAssumption`:

* `TypesAlways`: `Spec => []TypeOK`, with `ReqShape`: a request that goes on knows its session, or the runner it took.
* `RefillIsAlwaysPending`: `Spec => []RefillIsPending`, inductive by itself over the types, since every end of a warm spawn takes the
  flag down.
* `StartingAlwaysAwaited`: `Spec => []StartingIsAwaited`, the account of `SessionLifecycleProofs` carried over adoptions and lost runners.

`WarmAdoptionProofs` builds on it. The invariant `WarmInv` says, for every id and pod, which of the pool, a request, the
manager's map, the bridge's map and the cluster refer to it: under a warm id there is only its own pod, under a session's
that or a warm one (`NamesInv`); a connection leads to the socket registered under its id (`SocketsInv`); a pod is tracked once,
not before its spawn has returned (`TrackedOnce`); a warm pod is but a name until the API has accepted it (`UnbornInv`); an entry of the pool
is nobody else's (`PoolInv`); and while an adopt command is under way nobody else speaks for the session (`AdoptionsInv`). From it:

* `WarmRunnersAreUsedOnce`: `Spec => []OneUse`, which is not inductive: an id that is used again could be one a late label
  patch or a spawn still refers to.
* `CommandsReachTheirRunner`: `Spec => []CommandsReachOwnRunner`. An `adopt` that is re-keyed before it is heard is the hard case, and
  `ToldInv` the part that covers it.
* `ReadyIsAlwaysConnected`: `Spec => []ReadyIsConnected`. A session becomes ready by a frame of the socket registered under it
  (`HandOver`), and its close stops it, by `SocketsInv`.
* `WarmTokensAlways`: `Spec => []WarmTokens`.
* `WarmServiceImplemented`: `Spec => WarmImplementsService`. `StepsSeen` sorts the steps by what a client sees of them: a request
  arrives, launches its session or fails, a runner is ready, a session has ended, nothing, a restart. Each is a step of the service or
  a stutter by `KnownInv`, that the row of a create is made only at its launch and that of a resume is there all along, which rests on
  `RequestsInv`: nobody else works on the session.

`ContextSurgeryProofs` proves for any operations, messages, `Keep` and faults, from `OpsAssumption`, `UuidAssumption` and
`UuidsAssumption` (messages are numbered in the order they are made, at least the three of the initial conversations):

* `AnswersGoToTheirCalls`, `WaitingIsAlwaysPending` and `AnswersTellTheTruth`: `Spec` implies `[]` of `AnswersMatch`,
  `WaitingIsPending` and `AnsweredTruthfully`, from `SurgeryInv`: the queue holds the operations under way, once each (`QueueInv`),
  in the order of the answers followed by the commands (`Matches`), and a change is made when its command is run, not before it
  and not without it (`AppliedInv`).
* `LiveSurgeryExactAlways`: `Spec => LiveSurgeryExact`, that an edit changes the messages it names and no others, from
  `EditInv`: the command of an operation is the one its read and its kind determine (`SentInv`), what it has read is still the
  beginning of the messages unless it is `stale` (`FreshInv`), the messages are distinct (`DistinctInv`), and a message that is
  to be added is nowhere yet (`NewInv`). `EditDoesAsAsked` then speaks of one splice of a sequence whose beginning is known, by
  `TakenOut`, `PutIn` and `FindsIt`. `Without` states a removal by the messages that remain and their order.
* `TranscriptIsTree`: `Spec => []Tree(file)`, and with it `TypesAlways`: `Spec => []TypeOK`. The file is a tree: uuids are distinct,
  parents are in the file, and numbers can be given to the records (`Ranks`) that go down from child to parent. `FileInv` adds that no
  uuid of the file is above the last one made. That parents never form a circle is why the check of `buildChain()` for a record it
  has `visited` (`context.ts:84`) never finds one, and why the model can leave it out. A removal keeps the ranks, an insertion makes
  room for one, and a truncation cuts below its first message, whose parent it clears.
* `FileSurgeryExactAlways`: `Spec => FileSurgeryExact`. `IsChain` says what a conversation is without the walk that computes it: each
  record names the one before it as its parent, the first has none, the last is the latest leaf. `BuildChainIs` shows that
  `buildChain()` returns such a chain, `OnlyChain` that there is no other, so that it suffices to exhibit the chain of the file after
  the surgery: `RemovedFromChain`, `InsertedInChain`, `AppendedToChain` and `CutChain`. The hard part is the latest leaf: a removal may turn
  the parent of the last message into a leaf, but not the latest if another branch ends in one (`RemovedTip`); the property leaves
  that case out by name. `CutSpoken` and `CountedFromEnd` give the number of messages a truncation keeps, exactly two to a turn.

`TranscriptProofs` needs induction over the length of a file. The library's induction theorems take a predicate and cannot be
instantiated here, so the argument is made by sets: the numbers a fact does not hold for would have a least one (`LeastNumber`,
from the well-foundedness of `<`; `AllNumbers`). For the same reason `Transcript` walks up the tree by a recursive function
(`Ascent`) and filters by counting (`Picked`), not by recursive operators.

Only model-checked: the liveness properties `RequestsFinish`, `StartingSettles`, `BusyEnds` and `BackgroundEnds`. Fairness is out of
the prover's reach. The safety halves of the middle two, that a starting session is awaited and that a busy runner has a loop, are
proved.

## 5. Not modelled

* Tenants, API keys and the rename and usage routes: each handler is one synchronous statement on one table.
* Permission requests and PTY attachment over the client WebSocket, and the TUI process behind it: they pass bytes on, and
  what they could lose is shown by nothing the orchestrator keeps.
* Credentials, vault and health routes, the auth client: look-ups that keep no state here.
* `cleanup()` and `destroy()`: a graceful shutdown is a crash that may kill its containers first.
* The provisioning of Kubernetes namespaces and volume claims beyond that a spawn can fail in them.
* `SdkIpcSession` of `sdk-ipc.ts`, which nothing instantiates; the IPC commands nobody sends.
* Serialization of messages, source preparation, request validation, logging, metrics, the patches applied to the CLI
  except the memory server, test scripts and deployment files.

## 6. Plan

1. `SessionLifecycle`: what remains of `NoLostRunner` and `SingleRunner` when kills fail or the process crashes, with the runners lost that
   way counted out by name, as `ActiveIsBacked` does.
2. `Conversation`: an abstract specification of what a turn promises (every message is answered once, by its own result or an error),
   and the runner shown to implement it up to the mishaps.
