SPECIFICATION Spec
CONSTANTS
  MaxEpoch = 4
  MaxRestarts = 1
CHECK_DEADLOCK FALSE
INVARIANT AcknowledgedIsReleased
