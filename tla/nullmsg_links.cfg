CONSTANTS
  r1 = r1
  r2 = r2
  r3 = r3
  a = a
  b = b
  Rank = {r1, r2}
  Link = {a, b}
  Ends <- TwinEnds
  LinkDelay <- TwinDelay
  TxTimes = {1, 3}
  Gap = 0
  Tune = 100
  StopTime = 8
  AppTimes <- TwinApps
  AppDelays = {1}
  MaxSends <- TwinSends
SPECIFICATION Spec
INVARIANTS
  GuaranteesKept
CHECK_DEADLOCK FALSE
