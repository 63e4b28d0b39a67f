CONSTANTS
  TargetCount = 2
  BufferSize = 2
  ReceiveWindow = 2
  SendWindow = 1
  ClientSends = 3
  TargetSends = 1
SPECIFICATION FairSpec
CHECK_DEADLOCK FALSE
INVARIANTS
  TypeOK
  NothingLost
  PacketsBalance
PROPERTIES
  CloseDrains
  ImplementsBroadcast
  EverythingArrives
