SPECIFICATION FairSpec
CONSTANTS
  Sessions = {s1}
  Containers = {c1, c2}
  Requests = {r1, r2}
  None = None
  NumTokens = 2
  MaxActive = 0
  Ops = {"create", "resume", "stop", "delete"}
  Faults = {"spawnFails", "rowFails", "disconnect", "timeout"}
  MaxRestarts = 0
  Overlap = TRUE
PROPERTIES RequestsFinish StartingSettles
CHECK_DEADLOCK FALSE
