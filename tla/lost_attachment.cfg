SPECIFICATION PublishedSpec
CONSTANTS
  Files = {file1, file2}
  Documents = {doc1}
  Clerks = {clerk1, clerk2}
  NoFile = NoFile
  MaxUpdates = 1
  MaxAbandoned = 0
  MaxRow = 8
CHECK_DEADLOCK FALSE
INVARIANT CompleteHasNoFailedFile
