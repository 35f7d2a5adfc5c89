CONSTANTS
  Delays = {0, 2}
  HardLimits <- Limits
  Slack = 1
  Epoch = 20
  MaxClock = 2
  MaxEvents = 3
  MaxRuns = 1
SPECIFICATION FairSpec
INVARIANTS
  TypeOK
  NoStaleWait
PROPERTIES
  NeverEarly
  EveryEventRuns
  ImplementsCalendar
CHECK_DEADLOCK FALSE
