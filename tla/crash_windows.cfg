SPECIFICATION Spec
CONSTANTS
  Drafts = {d1}
  Templates = {t1}
  IssueKeys = {k1, k2}
  Workers = {w1, w2}
  NoTemplate = NoTemplate
  NoKey = NoKey
  NoIssue = NoIssue
  NoDraft = NoDraft
  MaxAttempts = 1
  MaxAborts = 1
  MaxRevision = 3
  MalformedReplies = FALSE
  TrustworthyReview = TRUE
  Operations = {"submit", "recover", "reconcile"}
SYMMETRY Symmetry
CHECK_DEADLOCK FALSE
INVARIANT CrashWindowsRecoverable
