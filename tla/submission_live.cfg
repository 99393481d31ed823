SPECIFICATION FairSpec
CONSTANTS
  Drafts = {d1}
  Templates = {t1}
  IssueKeys = {k1, k2}
  Workers = {w1, w2}
  NoTemplate = NoTemplate
  NoKey = NoKey
  NoIssue = NoIssue
  NoDraft = NoDraft
  MaxAttempts = 2
  MaxAborts = 0
  MaxRevision = 2
  MalformedReplies = TRUE
  TrustworthyReview = TRUE
  Operations = {"submit", "recover", "reconcile", "allow_retry", "edit", "cancel"}
CHECK_DEADLOCK FALSE
PROPERTY SubmissionSettles
