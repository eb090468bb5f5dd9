SPECIFICATION Spec
CONSTANTS
  Uuids <- FewUuids
  Root = Root
  Start = Start
  End = End
  Ops = {o1, mb}
  Merge = mb
  Keep = 1
  Faults = {"breaks", "compacts", "forks", "sidechain"}
INVARIANTS TypeOK AnswersMatch WaitingIsPending AnsweredTruthfully
PROPERTIES LiveSurgeryExact 
CHECK_DEADLOCK FALSE
