SPECIFICATION Spec
CONSTANTS
  None = None
  Messages = {m1}
  Steers = {s1}
  Forks = {}
  Cancels = {c1}
  Options = {}
  Compacts = {k1}
  Commands = {m1, s1}
  Sdks = {x1, x2, x3, x4}
  Faults = {"overtake", "sdkDies"}
  MaxSockets = 0
INVARIANTS TypeOK OneLoop
PROPERTIES MessageLoopDrains
CHECK_DEADLOCK FALSE
