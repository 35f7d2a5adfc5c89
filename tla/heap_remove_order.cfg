CONSTANTS
  Delays <- TwoDelays
  MaxEvents = 7
SPECIFICATION Spec
PROPERTIES
  EarliestFirst
CHECK_DEADLOCK FALSE
