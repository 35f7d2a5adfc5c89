CONSTANTS
  Delays <- TwoDelays
  MaxEvents = 7
SPECIFICATION Spec
INVARIANTS
  TypeOK
  HoldsExactly
PROPERTIES
  EarliestUnlessMisplaced
CHECK_DEADLOCK FALSE
