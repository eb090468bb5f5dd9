SPECIFICATION FairSpec
CONSTANTS
  None = None
  Messages = {m1}
  Steers = {s1}
  Forks = {f1}
  Cancels = {}
  Options = {o1}
  Compacts = {}
  Commands = {m1, s1, f1}
  Sdks = {x1, x2, x3, x4}
  Faults = {"sdkDies", "disconnect", "forkFails", "createFails"}
  MaxSockets = 1
INVARIANTS OneReader OwnEvents StatusAgrees
PROPERTIES BusyEnds BackgroundEnds
CHECK_DEADLOCK FALSE
