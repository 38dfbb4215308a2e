SPECIFICATION FairSpec
CONSTANTS
  MaxEpoch = 4
  MaxRestarts = 2
CHECK_DEADLOCK FALSE
INVARIANTS TypeOK NoLostWakeup SnapshotOpen ForwardsToItsEngine
PROPERTY QuiesceSettles
