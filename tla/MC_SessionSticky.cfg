INIT Init
NEXT Next
CONSTANTS
  Networks = {a}
  Ids = {i, j}
  None = None
  Starts <- FreshStart
  Surfaces = {"app"}
  MaxEmits = 2
  MaxEvents = 3
SYMMETRY Symmetry
CHECK_DEADLOCK FALSE
PROPERTY IdleServiceStaysDead
