-------------------------- MODULE ContainerManager --------------------------
(***************************************************************************)
(* orchestrator/src/docker.ts (DockerManager) and, as far as it is visible *)
(* from there, the docker engine: the map from a session to the container  *)
(* it tracks, and which containers run a runner process.  spawn() and      *)
(* kill() are asynchronous: SessionLifecycle splits each at its awaits.    *)
(***************************************************************************)
EXTENDS SessionDomain

VARIABLES
  containers,   \* session -> tracked container, None when it tracks none
  life,         \* container -> "unused", "live" (State.Running) or "dead"
  owner         \* container -> the RUNNER_SESSION_ID it was started with

dockerVars == <<containers, life, owner>>

DockerTypeOK ==
  /\ containers \in [Sessions -> Containers \cup {None}]
  /\ life \in [Containers -> {"unused", "live", "dead"}]
  /\ owner \in [Containers -> Sessions \cup {None}]

DockerInit ==
  /\ containers = [s \in Sessions |-> None]
  /\ life = [c \in Containers |-> "unused"]
  /\ owner = [c \in Containers |-> None]

\* The engine creates and starts a container: the runner in it runs before
\* spawn() continues past its awaits and records the container.
EngineStarts(s, c) ==
  /\ life[c] = "unused"
  /\ life' = [life EXCEPT ![c] = "live"]
  /\ owner' = [owner EXCEPT ![c] = s]
  /\ UNCHANGED containers

\* spawn() after container.start(): this.containers.set(sessionId, id).
Track(s, c) ==
  /\ containers' = [containers EXCEPT ![s] = c]
  /\ UNCHANGED <<life, owner>>

\* Mutant of FinishKill: the container is forgotten without being stopped.
FinishKillForgets(s, c, stopped) ==
  /\ containers' = IF c = None THEN containers ELSE [containers EXCEPT ![s] = None]
  /\ UNCHANGED <<life, owner>>

\* kill() from its last await on: the container captured when the kill began
\* is stopped, or the engine's error is swallowed; whatever the session maps to
\* by now is forgotten.  Without a captured container kill() returned at once.
FinishKill(s, c, stopped) ==
  /\ life' = IF c # None /\ stopped THEN [life EXCEPT ![c] = "dead"] ELSE life
  /\ containers' = IF c = None THEN containers ELSE [containers EXCEPT ![s] = None]
  /\ UNCHANGED owner

\* Mutant of Recover: State.Running is not looked at.
RecoverAll(named) ==
  /\ containers' = named
  /\ UNCHANGED <<life, owner>>

\* recoverFromSessions(): only the containers some row names are looked at.
Recover(named) ==
  /\ containers' = [s \in Sessions |->
                      IF named[s] # None /\ life[named[s]] = "live" THEN named[s] ELSE None]
  /\ UNCHANGED <<life, owner>>
=============================================================================
