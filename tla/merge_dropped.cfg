SPECIFICATION Spec
CONSTANTS
  Uuids <- FewUuids
  Root = Root
  Start = Start
  End = End
  Ops = {mb}
  Merge = mb
  Keep = 1
  Faults = {"forks"}
INVARIANTS MergeReachesForeground
CHECK_DEADLOCK FALSE
