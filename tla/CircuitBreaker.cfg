SPECIFICATION Spec
CONSTANTS
  Calls = {c1, c2, c3}
  FailMax = 3
  ResetTimeout = 2
INVARIANTS
  TypeOK
  ClosedIffBelowLimit
PROPERTIES
  ClosesOnlyOnProbe
  OpenLastsItsTimeout
  Recovers
