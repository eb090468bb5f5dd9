------------------------------ MODULE WsBridge ------------------------------
(***************************************************************************)
(* orchestrator/src/ws-bridge.ts: the sockets the runners open to the      *)
(* orchestrator and the map from a session to the socket commands go to.   *)
(* A socket is named by the container at its other end: it registers with  *)
(* its first message, whose session_id is the container's owner.  A runner *)
(* that reconnects while the orchestrator still holds its old socket has   *)
(* two: the old one is in superseded until its close is noticed.           *)
(***************************************************************************)
EXTENDS SessionDomain

VARIABLES
  connections,   \* session -> container at the registered socket, or None
  sockets,       \* the containers with a registered socket not yet closed
  superseded     \* the containers with an older socket not yet closed

bridgeVars == <<connections, sockets, superseded>>

BridgeTypeOK ==
  /\ connections \in [Sessions -> Containers \cup {None}]
  /\ sockets \in SUBSET Containers
  /\ superseded \in SUBSET Containers

BridgeInit ==
  /\ connections = [s \in Sessions |-> None]
  /\ sockets = {}
  /\ superseded = {}

\* A message on a socket that has sent one before changes no connection.
Registered(c) == c \in sockets /\ UNCHANGED bridgeVars

\* The first message on a socket: the newest socket takes the session over.
Register(s, c) ==
  /\ connections' = [connections EXCEPT ![s] = c]
  /\ sockets' = sockets \cup {c}
  /\ superseded' = IF c \in sockets THEN superseded \cup {c} ELSE superseded

\* Mutant of IsActiveConnection: the close handler does not compare sockets.
AnyConnection(s, c) == TRUE

\* Is the registered socket of c the one its session's commands go to?
IsActiveConnection(s, c) == connections[s] = c

\* The close handler of the registered socket of c.
CloseSocket(s, c) ==
  /\ sockets' = sockets \ {c}
  /\ connections' = IF IsActiveConnection(s, c) THEN [connections EXCEPT ![s] = None] ELSE connections
  /\ UNCHANGED superseded
=============================================================================
