SPECIFICATION FairSpec
CONSTANTS
  Callers = {c1, c2, c3, c4}
  Keys = {k1, k2, k3}
  None = None
  MaxConcurrency = 2
  MaxQueue = 1
CHECK_DEADLOCK FALSE
INVARIANTS
  TypeOK
  OneAtATimePerKey
  SlotsAreConserved
  ClosedMeansDrained
PROPERTIES
  ImplementsKeyedQueue
  EveryTurnComes
  CloseDrains
