SPECIFICATION Spec
CONSTANTS
  generic = generic
  None = None
  Sessions = {s1}
  WarmIds = {w1, w2}
  Elsewhere = {}
  Profiles = {generic}
  Generic = generic
  ProfileOf <- OneProfile
  Target <- OneEach
  Requests = {r1}
  Faults = {}
  MaxRestarts = 0
INVARIANTS TakenIsKilled
CHECK_DEADLOCK FALSE
