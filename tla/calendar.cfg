CONSTANTS
  Delays <- NearAndFar
  MaxEvents = 6
SPECIFICATION Spec
INVARIANTS
  TypeOK
PROPERTIES
  ImplementsList
CHECK_DEADLOCK FALSE
