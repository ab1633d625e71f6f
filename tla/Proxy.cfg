\* Three requests; every kind of proxy connection, HTTP/2 where negotiated.
SPECIFICATION FairSpec
CONSTANTS
  Requests = {r1, r2, r3}
  Kinds = {"forward", "tunnel", "socks"}
  Http2 = TRUE
  Runtimes = {"threads", "asyncio", "trio"}
INVARIANTS ReachesItsOrigin SlotRecoverable SocketAccounted
PROPERTIES Ends
CHECK_DEADLOCK FALSE
