SPECIFICATION Spec
CONSTANTS
  Sessions = {s1}
  Containers = {c1, c2}
  Requests = {r1, r2}
  None = None
  NumTokens = 2
  MaxActive = 0
  Ops = {"create", "resume", "stop", "restop", "delete", "snapshot"}
  Faults = {"killFails", "disconnect", "reconnect", "late", "timeout"}
  MaxRestarts = 1
  Overlap = TRUE
SYMMETRY Symmetry
INVARIANTS StartingIsAwaited
PROPERTIES OnlyLostConnectionStops  ImplementsService
CHECK_DEADLOCK FALSE
