SPECIFICATION Spec
CONSTANTS
  Sessions = {s1, s2}
  Containers = {c1, c2, c3}
  Requests = {r1, r2}
  None = None
  NumTokens = 2
  MaxActive = 0
  Ops = {"create", "resume", "stop", "delete"}
  Faults = {"spawnFails", "rowFails", "disconnect", "late", "error", "timeout"}
  MaxRestarts = 0
  Overlap = FALSE
SYMMETRY Symmetry
INVARIANTS TypeOK ActiveIsBacked GoneIsReleased TokenMatchesRow NoLostRunner SingleRunner
CHECK_DEADLOCK FALSE
