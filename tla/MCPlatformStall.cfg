SPECIFICATION FairSpec
CONSTANTS
  Data = {x}
  MaxEpochs = 1
  MaxOps = 2
  MaxInbox = 2
PROPERTIES
  ConnectCommandSent
CHECK_DEADLOCK FALSE
