CONSTANTS
  Delays <- TwoDelays
  UidSpan = 64
  MaxEvents = 3
SPECIFICATION FairSpec
INVARIANTS
  TypeOK
  ExpiredIffGone
  CountsMatch
  RevokedNeverRuns
PROPERTIES
  TiesAreFifo
  NaturalEndLosesNothing
  EveryEventResolves
  ImplementsCalendar
CHECK_DEADLOCK FALSE
