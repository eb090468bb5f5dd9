SPECIFICATION Spec
CONSTANTS
  Sessions = {s1, s2, s3}
  Containers = {c1, c2, c3}
  Requests = {r1, r2}
  None = None
  NumTokens = 1
  MaxActive = 1
  Ops = {"create", "stop", "delete", "pin"}
  Faults = {"spawnFails", "rowFails", "timeout"}
  MaxRestarts = 0
  Overlap = TRUE
SYMMETRY Symmetry
INVARIANTS OvershootBounded
CHECK_DEADLOCK FALSE
