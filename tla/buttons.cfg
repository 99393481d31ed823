SPECIFICATION Spec
CONSTANTS
  MaxRevision = 6
  MaxTexts = 2
  MaxMishaps = 1
CHECK_DEADLOCK FALSE
INVARIANTS
  TypeOK
  DoubleTapActsOnce
  IssuingNeverConflicts
  ReviewIsConfirmable
PROPERTIES
  SubmitsWhatWasShown
