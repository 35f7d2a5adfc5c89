CONSTANTS
  e1 = e1
  e2 = e2
  e3 = e3
  Enb = {e1, e2, e3}
  Home = e1
  MaxHandovers = 3
  MaxForwarded = 1
SPECIFICATION FairSpec
INVARIANTS
  TypeOK
  TimersMatchStates
  MessagesAwaited
  OneContextServes
  UeWillBeTold
PROPERTIES
  HandoversSettle
CHECK_DEADLOCK FALSE
