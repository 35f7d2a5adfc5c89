CONSTANTS
  r1 = r1
  r2 = r2
  r3 = r3
  a = a
  b = b
  Rank = {r1, r2, r3}
  Link = {a, b}
  Ends <- RowEnds
  LinkDelay <- RowDelay
  TxTimes = {1}
  Gap = 0
  Tune = 100
  StopTime = 7
  AppTimes <- RowApps
  AppDelays = {6}
  MaxSends <- RowSends
SPECIFICATION FairSpec
INVARIANTS
  TypeOK
  GuaranteesKept
  NoMessageInPast
  NothingLeftBehind
PROPERTIES
  EveryRankStops
CHECK_DEADLOCK FALSE
