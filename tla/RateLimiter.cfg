SPECIFICATION Spec
CONSTANTS
  Processes = {p1, p2}
  Limit = 2
  Window = 3
  MaxDelay = 1
  MaxClock = 7
  MaxRequests = 4
  MaxFaults = 1
CHECK_DEADLOCK FALSE
INVARIANTS
  AllowedPerWindow
  RefusedOnlyIfBusy
