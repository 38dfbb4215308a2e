SPECIFICATION FairSpec
CONSTANTS
  Names = {"windscribe.com", "example.org"}
  Windscribe = "windscribe.com"
  NIds = 2
  QueueDepth = 1
  MaxPending = 1
  MaxQueries = 3
  MaxAttaches = 1
  MayTimeOut = FALSE
CHECK_DEADLOCK FALSE
PROPERTY QueriesSettle
