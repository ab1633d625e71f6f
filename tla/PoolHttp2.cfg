\* trio, HTTP/2 or HTTP/1.1 as negotiated, three requests to one origin, one slot.
CONSTANTS
  Requests = {r1, r2, r3}
  Closers = {}
  Conns = {c1, c2, c3}
  Origins = {a}
  None = None
  MaxConnections = 1
  KeepaliveLimit = 0
  Http2 = TRUE
  Expiry = TRUE
  MaxStreams = 1
  Threads = FALSE
  Checkpoints = TRUE
SPECIFICATION Spec
SYMMETRY Symmetry
INVARIANTS TypeOK
PROPERTIES FirstComeFirstServed
