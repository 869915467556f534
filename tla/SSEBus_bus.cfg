SPECIFICATION Spec
CONSTANTS
  Pushers = {p1, p2}
  Clients = {c1}
  Conns = {k1, k2}
  MaxEvents = 2
  QueueSize = 2
  MaxId = 4
  MaxRestarts = 1
  None = None
INVARIANTS
  TypeOK
  RingIsRecentHistory
  OncePerConnection
  NothingMissedWhileRegistered
  PublisherOrderKept
  LossesAreAccounted
SYMMETRY Symmetry
