\* The sync pool: three threads, two origins, one slot.
CONSTANTS
  Requests = {r1, r2, r3}
  Closers = {}
  Conns = {c1, c2, c3, c4}
  Origins = {a, b}
  None = None
  MaxConnections = 1
  KeepaliveLimit = 1
  Http2 = FALSE
  Expiry = TRUE
  MaxStreams = 1
  Threads = TRUE
  Checkpoints = FALSE
SPECIFICATION Spec
SYMMETRY Symmetry
INVARIANTS PoolBounded ExclusiveUse
