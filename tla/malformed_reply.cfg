SPECIFICATION Spec
CONSTANTS
  Drafts = {d1}
  Templates = {t1}
  IssueKeys = {k1, k2}
  Workers = {w1, w2}
  NoTemplate = NoTemplate
  NoKey = NoKey
  NoIssue = NoIssue
  NoDraft = NoDraft
  MaxAttempts = 2
  MaxAborts = 0
  MaxRevision = 3
  MalformedReplies = TRUE
  TrustworthyReview = TRUE
  Operations = {"submit", "reconcile"}
SYMMETRY Symmetry
CHECK_DEADLOCK FALSE
INVARIANT OpenMeansNotCreated
