SPECIFICATION Spec
CONSTANTS
  Hosts = {h1, h2}
  Engines = {ovpn, ike}
  Ports = {}
  MaxGen = 3
  OnlySelfTunnelled = FALSE
  None = None
CHECK_DEADLOCK FALSE
SYMMETRY EngineSymmetry
INVARIANT ActiveEngineRuns
