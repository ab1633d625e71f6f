\* asyncio, HTTP/1.1 only, two slots for three requests to two origins.
CONSTANTS
  Requests = {r1, r2, r3}
  Closers = {}
  Conns = {c1, c2, c3, c4}
  Origins = {a, b}
  None = None
  MaxConnections = 2
  KeepaliveLimit = 1
  Http2 = FALSE
  Expiry = TRUE
  MaxStreams = 1
  Threads = FALSE
  Checkpoints = FALSE
SPECIFICATION Spec
SYMMETRY Symmetry
INVARIANTS NoCloseUnderRequest KeepaliveBounded NoLostSlot 
PROPERTIES ImplementsLeasePool
