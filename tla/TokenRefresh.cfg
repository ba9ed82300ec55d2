SPECIFICATION FairTabSpec
CONSTANTS
  Requests = {r1, r2, r3}
  Denied = {r3}
  MaxLogins = 1
CHECK_DEADLOCK FALSE
INVARIANTS
  OneRefresh
  WaitersAreServed
PROPERTIES
  EveryRequestEnds
