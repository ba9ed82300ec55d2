SPECIFICATION Spec
CONSTANTS
  Expenses = {e1, e2, e3}
  BatchMax = 2
  MaxFaults = 2
CHECK_DEADLOCK FALSE
INVARIANTS
  TypeOK
  HandledInOrder
  AckedAfterHandling
PROPERTIES
  CatchesUp
