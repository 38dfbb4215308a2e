CONSTANTS
  Callers = {c1, c2}
  Enders = {e1, e2}
  MaxInstances = 4
  MaxEnds = 3
  MaxStarts = 2
SPECIFICATION Spec
INVARIANT TypeOK
PROPERTY DeadIsNeverHandedOut
PROPERTY RetryingCallerIsServed
