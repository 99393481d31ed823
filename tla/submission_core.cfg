SPECIFICATION Spec
CONSTANTS
  Drafts = {d1}
  Templates = {t1, t2}
  IssueKeys = {k1, k2}
  Workers = {w1, w2, w3}
  NoTemplate = NoTemplate
  NoKey = NoKey
  NoIssue = NoIssue
  NoDraft = NoDraft
  MaxAttempts = 2
  MaxAborts = 1
  MaxRevision = 3
  MalformedReplies = FALSE
  TrustworthyReview = TRUE
  Operations = {"submit", "recover", "reconcile", "allow_retry", "edit", "cancel"}
SYMMETRY Symmetry
CHECK_DEADLOCK FALSE
INVARIANTS
  TypeOK
  AtMostOneIssue
  OpenMeansNotCreated
  NoDispatchWhileUnresolved
  ClaimNeverRefused
  IssueIsWhatWasConfirmed
  CreatedIsBacked
PROPERTIES
  PublishedIsStable
  ImplementsPublication
