CONSTANTS
  t1 = t1
  t2 = t2
  Threads = {t1, t2}
  Descriptions = {"receive_from_client", "send_to_client"}
  MaxConnections = 2
  MaxPackets = 2
  Destroyable = TRUE
SPECIFICATION FairSpec
CHECK_DEADLOCK FALSE
INVARIANTS
  TypeOK
  EveryPacketInOneReport
PROPERTIES
  DestroyedIsQuiet
  DestroyReturns
  ReportsGoOn
  ShownCountSettles
