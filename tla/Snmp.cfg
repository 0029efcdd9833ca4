SPECIFICATION FairSpec
CONSTANTS
  Rows = 2
  Interfaces = 2
  FlapPeriod = 2
  MaxOid = 32
  MaxNames = 2
  Spare = 3
  TxRoom = 6
  Proto = Proto
  Trap = Trap
  NoContext = NoContext
  Contexts = {Proto, Trap}
  Timeout <- MCTimeout
  Period = 2
  FeedMin = 2
  Channels = 2
  Requests <- MCRequests
INVARIANTS
  DeviceTypeOK
  AnswersConform
  ManagerFollows
  OnlyStalledReset
PROPERTIES
  StalledIsReset
