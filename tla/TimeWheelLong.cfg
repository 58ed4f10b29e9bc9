SPECIFICATION Spec
CONSTANTS
  Nodes = {n1, n2}
  SLOTS = 4
  TICK = 2
  Loads <- LongAndLate
  MaxClock = 12
INVARIANTS RearmLandsPastNow
CHECK_DEADLOCK FALSE
