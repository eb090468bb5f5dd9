SPECIFICATION Spec
CONSTANTS
  None = None
  Messages = {m1}
  Steers = {s1, s2}
  Forks = {}
  Cancels = {}
  Options = {}
  Compacts = {}
  Commands = {m1, s1, s2}
  Sdks = {x1, x2, x3, x4}
  Faults = {}
  MaxSockets = 0
INVARIANTS SteersAreDelivered
CHECK_DEADLOCK FALSE
