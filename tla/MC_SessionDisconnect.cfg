INIT Init
NEXT Next
CONSTANTS
  Networks = {a}
  Ids = {i, j}
  None = None
  Starts <- FreshStart
  Surfaces = {"app", "notification"}
  MaxEmits = 2
  MaxEvents = 2
SYMMETRY Symmetry
CHECK_DEADLOCK FALSE
PROPERTY DisconnectedAttemptStays
