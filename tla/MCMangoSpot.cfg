CONSTANTS
  q1 = q1
  q2 = q2
  q3 = q3
  o1 = o1
  o2 = o2
  Requests = {q1, q2, q3}
  Situations <- MCSituations
  OldOrders <- MCOldOrders
  Foreign = Foreign
  None = None
  Cap = 2
SPECIFICATION Spec
CHECK_DEADLOCK FALSE
INVARIANT TypeOK
INVARIANT UndisturbedOutcome
INVARIANT WrappedSolIsTemporary
PROPERTY SecondAccountOnlyByRace
PROPERTY CancelAllIsComplete
PROPERTY SpotRefusalExplained
