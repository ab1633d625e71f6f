\* asyncio, HTTP/2: a cancelled waiter marks a connection that is being made as failed.
CONSTANTS
  Requests = {r1, r2, r3}
  Closers = {}
  Conns = {c1, c2, c3, c4}
  Origins = {a}
  None = None
  MaxConnections = 1
  KeepaliveLimit = 1
  Http2 = TRUE
  Expiry = TRUE
  MaxStreams = 1
  Threads = FALSE
  Checkpoints = FALSE
SPECIFICATION Spec
SYMMETRY Symmetry
INVARIANTS ConcurrencyBounded
