CONSTANTS
  Rntis = {u1}
  c1 = c1
  c2 = c2
  Cells = {c1, c2}
  Reports <- AllReports
  Margins <- TwoMargins
  ExecutionModes = {TRUE, FALSE}
  MaxReports = 3
SPECIFICATION FairSpec
INVARIANTS
  TypeOK
  NoStrayTimers
  EveryAttemptDriven
  DeliveredIsPrepared
PROPERTIES
  HandoverMatchesLastReport
  PreparedIsUsed
CHECK_DEADLOCK FALSE
