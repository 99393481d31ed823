SPECIFICATION Spec
CONSTANTS
  MaxRevision = 5
  MaxTexts = 0
  MaxMishaps = 0
CHECK_DEADLOCK FALSE
INVARIANT UnsettledHasAButton
