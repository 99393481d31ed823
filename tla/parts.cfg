SPECIFICATION PartsSpec
CONSTANTS
  \* ResourceLimiter
  Calls = {call1, call2, call3, call4}
  Actors = {actor1, actor2}
  GlobalLimit = 2
  PerActorLimit = 2
  QueueLimit = 1
  RetryBudget = 1
  FailureThreshold = 2
  NoGate = NoGate
  \* PublishedDraft
  Files = {file1}
  Documents = {doc1, doc2}
  Clerks = {clerk1, clerk2}
  NoFile = NoFile
  MaxUpdates = 2
  MaxAbandoned = 1
  MaxRow = 8
  \* Intake
  Scopes = {scope1, scope2}
  Messages = {msg1, msg2}
  MaxBatch = 2
  MemoryLimit = 2
  MaxBatches = 2
  NoBatch = NoBatch
  \* UserStore
  Users = {user1}
  Tokens = {token1, token2}
  Languages = {en}
  Threads = {thread1, thread2}
  Nothing = Nothing
  Unreadable = Unreadable
  MaxCancelled = 1
  MaxDamage = 1
  \* RulesStore
  RuleTexts = {text1, text2}
  NoRules = NoRules
  MaxStray = 2
  \* Migrations
  Processes = {process1, process2}
  Releases <- ReleasesShipped
  \* Conversation
  Identities = {"empty", "known"}
  \* Connectivity
  Callers = {caller1, caller2, caller3}
  NoCaller = NoCaller
  \* Lifecycle
  Handlers = {handler1, handler2}
  Jobs = {job1, job2}
  \* GeminiGateway
  Analyses = {analysis1, analysis2}
  Models = 2
  MaxRetries = 1
  \* Retention
  Cases = {case1, case2}
  Authors = {author1, author2}
  NoCase = NoCase
  BatchLimit = 1
  MaxRevision = 3
CHECK_DEADLOCK FALSE
INVARIANTS
  TypesOK
  PermitsAreConserved
  ActorKeepsToItsShare
  ClosedMeansDrained
  NoUpdateWhileUnresolved
  CompleteMatchesIssue
  NoMessageTwice
  PendingHasDeadline
  RestartFindsCredentials
  NoChangeIsMissed
  ReadyMeansMigrated
  LateInputIsNotUsed
  OneStartPerOutage
  NothingIsUsedClosed
  NoModelIsAskedTwice
  
PROPERTIES
  AcknowledgedIsNotResent
  UserHasTheLastWord
