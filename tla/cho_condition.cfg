CONSTANTS
  Rntis = {u1}
  c1 = c1
  c2 = c2
  Cells = {c1, c2}
  Reports <- AllReports
  Margins <- TwoMargins
  ExecutionModes = {TRUE}
  MaxReports = 3
SPECIFICATION Spec
PROPERTIES
  HandoverMeetsCondition
CHECK_DEADLOCK FALSE
