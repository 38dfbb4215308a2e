SPECIFICATION Spec
CONSTANTS
  Networks = {a}
  Ids = {i, j}
  None = None
  Starts <- IdleStart
  Surfaces = {}
  MaxEmits = 2
  MaxEvents = 1
CHECK_DEADLOCK FALSE
PROPERTIES AwaitingSessionEnds BlockedAccountRecovers
