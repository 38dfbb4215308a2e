INIT Init
NEXT Next
CONSTANTS
  Networks = {a, b}
  Ids = {i, j}
  None = None
  Starts <- MixedStart
  Surfaces = {"app", "notification"}
  MaxEmits = 2
  MaxEvents = 2
SYMMETRY Symmetry
CHECK_DEADLOCK FALSE
INVARIANTS TypeOK UserStopStands 
