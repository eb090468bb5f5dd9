SPECIFICATION Spec
CONSTANTS
  generic = generic
  None = None
  Sessions = {s1}
  WarmIds = {w1, w2}
  Elsewhere = {w1, w2}
  Profiles = {generic}
  Generic = generic
  ProfileOf <- OneProfile
  Target <- OneEach
  Requests = {r1, r2}
  Faults = {"spawnFails", "slowCreate", "listFails", "patchFails", "disconnect", "error"}
  MaxRestarts = 1
INVARIANTS TypeOK OneUse CommandsReachOwnRunner ReadyIsConnected WarmTokens RefillIsPending StartingIsAwaited
PROPERTIES WarmImplementsService
SYMMETRY Symmetry
CHECK_DEADLOCK FALSE
