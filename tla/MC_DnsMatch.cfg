SPECIFICATION Spec
CONSTANTS
  Names = {"windscribe.com", "example.org"}
  Windscribe = "windscribe.com"
  NIds = 3
  QueueDepth = 2
  MaxPending = 2
  MaxQueries = 4
  MaxAttaches = 0
  MayTimeOut = TRUE
CHECK_DEADLOCK FALSE
INVARIANTS TypeOK WaitingIsPending PendingBounded
PROPERTIES AnswersTheQuestion SettledOnce
