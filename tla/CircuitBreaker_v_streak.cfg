SPECIFICATION Spec
CONSTANTS
  Calls = {c1}
  FailMax = 3
  ResetTimeout = 2
PROPERTIES
  OpensOnStreak
