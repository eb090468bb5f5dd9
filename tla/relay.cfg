SPECIFICATION Spec
CONSTANTS
  Clients = {c1}
  Messages = {m1, m2}
  Queries = {q1}
  Compacts = {k1}
  Faults = {"breaks", "stops", "grows", "timeouts"}
  MaxSockets = 1
INVARIANTS TypeOK  ListenersMatch 
 
CHECK_DEADLOCK FALSE
SYMMETRY Symmetry
