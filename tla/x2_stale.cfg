CONSTANTS
  e1 = e1
  e2 = e2
  Enb = {e1, e2}
  Home = e1
  MaxHandovers = 1
  MaxForwarded = 1
SPECIFICATION Spec
INVARIANTS
  NoAssertionFails
CHECK_DEADLOCK FALSE
