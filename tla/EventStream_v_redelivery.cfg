SPECIFICATION Spec
CONSTANTS
  Expenses = {e1, e2}
  BatchMax = 2
  MaxFaults = 1
CHECK_DEADLOCK FALSE
PROPERTIES
  Redelivered
