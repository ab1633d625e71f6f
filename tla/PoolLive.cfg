\* Fair scheduling: two requests, one slot, somebody closes the pool.
CONSTANTS
  Requests = {r1, r2}
  Closers = {k}
  Conns = {c1, c2, c3}
  Origins = {a, b}
  None = None
  MaxConnections = 1
  KeepaliveLimit = 1
  Http2 = FALSE
  Expiry = TRUE
  MaxStreams = 1
  Threads = FALSE
  Checkpoints = FALSE
SPECIFICATION FairSpec
PROPERTIES Served
