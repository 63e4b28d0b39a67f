CONSTANTS
  c1 = c1
  c2 = c2
  s1 = s1
  s2 = s2
  s3 = s3
  Clients = {c1}
  Sessions = {s1, s2}
  NoClient = NoClient
  NoSession = NoSession
  PoolSize = 1
  ReceiveMayFail = FALSE
  FreedClosed <- ReadsClosed
  MaxQueue = 2
SPECIFICATION Spec
INVARIANTS
  KeepaliveCloseMeansSilence
