CONSTANTS
  c1 = c1
  c2 = c2
  s1 = s1
  s2 = s2
  s3 = s3
  Clients = {c1, c2}
  Sessions = {s1, s2, s3}
  NoClient = NoClient
  NoSession = NoSession
  PoolSize = 2
  ReceiveMayFail = TRUE
  FreedClosed <- ReadsClosed
  MaxQueue = 2
SPECIFICATION Spec
CHECK_DEADLOCK FALSE
SYMMETRY Symmetry
INVARIANTS
  TypeOK
  EntriesMatchSessions
PROPERTIES
  ImplementsSessionTable
