CONSTANTS
  SnMod = 4
  PollPdu = 2
  PollByte = 3
  MaxTxBuffer = 4
  SduUnits = 2
  PduUnits = 2
  DataOvertaking = 1
  StatusOvertaking = 0
  DataInFlight = 2
  StatusInFlight = 1
  MaxSdus = 3
SPECIFICATION FairSpec
INVARIANTS
  TypeOK
  WindowsAgree
  NothingForgotten
  InOrderOnce
PROPERTIES
  EverySduHandedUp
CHECK_DEADLOCK FALSE
